---------------------------- MODULE NoticeBounds ----------------------------
(* The bounds on the behaviours of Notifications, in a module of their own so *)
(* that a module that only instantiates Notifications checks them as well.    *)
EXTENDS Naturals

CONSTANTS
  MaxNotices,  \* notices that are queued
  MaxChanges,  \* changes of the configuration
  MaxFailures  \* threads that cannot be started, and ends of the console

ASSUME NotificationsAssumption ==
  MaxNotices \in Nat /\ MaxChanges \in Nat /\ MaxFailures \in Nat
=============================================================================
