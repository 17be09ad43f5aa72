---------------------------- MODULE MCMessaging -----------------------------
(***************************************************************************)
(* Finite instances of Messaging for TLC.                                  *)
(***************************************************************************)
EXTENDS Messaging, TLC

OnePublisher  == [s \in Servers |-> 1]
AllPublish    == [s \in Servers |-> Cardinality(Slots)]

=============================================================================
