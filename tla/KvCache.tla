------------------------------ MODULE KvCache ------------------------------
(***************************************************************************)
(* The paged KV cache of Stage 7 of P13                                    *)
(* (run_memory_planning.cpp, stage7_kvcache_decode_planning).              *)
(*                                                                         *)
(* Every layer keeps its keys and its values in a buffer of a few pages.   *)
(* Decode step t writes token t into page (t / page_tokens) modulo the     *)
(* number of pages, so that old pages are overwritten.  All layers and     *)
(* both roles get the same assignment: one buffer stands for all of them.  *)
(***************************************************************************)
EXTENDS Integers

CONSTANTS
  MaxSeqLen,     \* max_seq_len: the tokens [first_token, last_token] decoded
  ActiveWindow,  \* active_window: the tokens attention looks back on
  PageTokens     \* page_tokens: tokens per page

ASSUME MaxSeqLenAssumption    == MaxSeqLen \in Nat
ASSUME ActiveWindowAssumption == ActiveWindow \in Nat \ {0}
ASSUME PageTokensAssumption   == PageTokens \in Nat \ {0}

VARIABLES
  step,   \* the next decode step
  slots   \* the token in every place of the buffer, or Empty

kvVars == <<step, slots>>

Empty == -1

PagesPerLayerWindow_Floor ==   \* faulty: an unfinished page is not counted
  IF ActiveWindow < PageTokens THEN 1 ELSE ActiveWindow \div PageTokens

\* pages_per_layer_window: the window's size rounded up to pages.
PagesPerLayerWindow == (ActiveWindow + PageTokens - 1) \div PageTokens

Pages == 0 .. PagesPerLayerWindow - 1

Offsets == 0 .. PageTokens - 1

Places == Pages \X Offsets

\* Page slot and offset, counted in tokens, of decode step t.
Slot(t) == <<(t \div PageTokens) % PagesPerLayerWindow, t % PageTokens>>

----------------------------------------------------------------------------
KvInit ==
  /\ step = 0
  /\ slots = [p \in Places |-> Empty]

\* One iteration of the loop over decode steps.
Decode ==
  /\ step < MaxSeqLen
  /\ slots' = [slots EXCEPT ![Slot(step)] = step]
  /\ step' = step + 1

KvSpec == KvInit /\ [][Decode]_kvVars

----------------------------------------------------------------------------
\* Steps are counted up to the sequence's end and places hold decoded tokens.
KvTypeOK ==
  /\ step \in 0 .. MaxSeqLen
  /\ slots \in [Places -> {Empty} \cup (0 .. MaxSeqLen - 1)]

\* What the summary promises of the policy, "oldest pages are reusable after
\* the active window": the places decode steps are given lie in the buffer,
\* and no step overwrites a token the window still covers, whatever the
\* window's size is modulo a page.
WindowResident ==
  \A t \in 0 .. step - 1 :
    step - t <= ActiveWindow => Slot(t) \in Places /\ slots[Slot(t)] = t
=============================================================================
