----------------------------- MODULE AtomicSwap -----------------------------
(***************************************************************************)
(* What the A/B environments promise (ARCHITECTURE #16 and #17): MirrorDash *)
(* and the modules built for its Python change as one, the pair that ran   *)
(* before is kept as the fallback until the new one has run, and a pair    *)
(* that doesn't start goes back to it, also as one.                        *)
(***************************************************************************)
CONSTANT None

VARIABLES
  current,  \* the pair the next start gets: [app |-> .., mods |-> ..]
  fallback  \* the pair a broken start goes back to; None once the current pair has run

swapVars == <<current, fallback>>

Fits(pair) == pair.mods = {pair.app.py}

Init == Fits(current) /\ fallback = None

Change ==
  /\ fallback' = current
  /\ Fits(current')

RollBack ==
  /\ fallback # None /\ ~current.app.starts
  /\ current' = fallback
  /\ fallback' = None

Settle == \* only a pair that starts does without
  /\ current.app.starts
  /\ current' = current /\ fallback' = None

Next == Change \/ RollBack \/ Settle

Spec == Init /\ [][Next]_swapVars
=============================================================================
