--------------------------- MODULE MC_LicenseDesk ---------------------------
(* LicenseDesk for TLC: one key, two administrators, two redemptions and a *)
(* device login.  Administrators are alike and so are redemptions; no      *)
(* property is a liveness property, so the reduction is sound.             *)
EXTENDS LicenseDesk, TLC

DeskSymmetry == Permutations(Handlers) \cup Permutations(Redeems)

(* A redemption that is over without success takes no further step, and no *)
(* property but the type invariant asks for its key or its code: states    *)
(* that differ only there are one.                                         *)
Over(r) == redeem[r].step \in {"answered", "crashed"} /\ redeem[r].code # "success"

DeskView ==
    <<dbVars, handler, resets, faults,
      [r \in Redeems |-> IF Over(r) THEN [step |-> "over", key |-> NoKey, code |-> "none"]
                         ELSE redeem[r]]>>
=============================================================================
