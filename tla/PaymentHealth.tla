--------------------------- MODULE PaymentHealth ---------------------------
(***************************************************************************)
(* What the scanner and the workers of the payment daemon share beside the *)
(* journal's tables: the configuration an operator starts the daemon with, *)
(* and the health record, by which the scanner lets the workers go on.     *)
(***************************************************************************)
EXTENDS PaymentJournal

CONSTANTS
  Configs,    \* the sets of consumers an operator configures
  MaxStops    \* bound on stops and crashes

ASSUME HealthAssumption ==
  Configs \subseteq SUBSET Consumer /\ MaxStops \in Nat

VARIABLES
  ready,      \* ready_internal(): healthy, ready and unexpired
  stops       \* bounded count of stops
=============================================================================
