----------------------------- MODULE UtxoLedger -----------------------------
(***************************************************************************)
(* What the UTXO store promises about outputs, whatever records, pages,    *)
(* counters and flags it keeps them in (stores/utxo/Interface.go): an      *)
(* output is free, frozen or owned by one spender; a spender is told that  *)
(* it has an output only when it owns it, and owns it until it gives it    *)
(* back.                                                                   *)
(***************************************************************************)
EXTENDS FiniteSets

CONSTANTS Outputs, Spenders, Free, Frozen, NoOutput

VARIABLES slot,    \* what every output holds
          claims   \* <<output, spender>>: acknowledged and not given back

ledger == <<slot, claims>>

Init ==
  /\ slot \in [Outputs -> {Free, NoOutput}]
  /\ claims = {}

\* A call on behalf of several spenders takes the free outputs in took, and
\* acknowledges those and any that its spender owned already.
Claim(wanted, took, told) ==
  /\ took \subseteq {o \in DOMAIN wanted : slot[o] = Free}
  /\ told \subseteq DOMAIN wanted /\ took \subseteq told
  /\ slot' = [o \in Outputs |-> IF o \in took THEN wanted[o] ELSE slot[o]]
  /\ \A o \in told : slot'[o] = wanted[o]
  /\ claims' = claims \cup {<<o, wanted[o]>> : o \in told}

Release(o, s) ==
  /\ slot[o] = s
  /\ slot' = [slot EXCEPT ![o] = Free]
  /\ claims' = claims \ {<<o, s>>}

Freeze(o) ==
  /\ slot[o] = Free
  /\ slot' = [slot EXCEPT ![o] = Frozen]
  /\ UNCHANGED claims

\* Back to its owner, or to another one.
Thaw(o) ==
  /\ slot[o] = Frozen
  /\ slot' = [slot EXCEPT ![o] = Free]
  /\ UNCHANGED claims

Next ==
  \/ \E D \in SUBSET Outputs : \E wanted \in [D -> Spenders] :
       \E took, told \in SUBSET D : Claim(wanted, took, told)
  \/ \E o \in Outputs, s \in Spenders : Release(o, s)
  \/ \E o \in Outputs : Freeze(o) \/ Thaw(o)

Spec == Init /\ [][Next]_ledger

=============================================================================
