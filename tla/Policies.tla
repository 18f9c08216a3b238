------------------------------ MODULE Policies ------------------------------
(***************************************************************************)
(* Row-level security: which rows a session sees and may write             *)
(* (executor/rls.go, executor/catalog.go).  A policy is permissive or      *)
(* restrictive, is for a command and some roles, and has a USING and a     *)
(* WITH CHECK predicate, given here by what each evaluates to for the row  *)
(* in question: "true", "false", "null", "error", or "" when left out.     *)
(***************************************************************************)
EXTENDS Sequences, SequencesExt

\* rlsApplies
RLSApplies(t, bypass) == t.enabled /\ (bypass => t.forced)

\* appliesToCommand and appliesToRole
Applies(p, cmd, user) ==
    /\ p.cmd \in {"ALL", cmd}
    /\ p.roles = {} \/ p.roles \cap {"public", user} # {}

\* evalPolicyPredicate: NULL is false, and nothing is true.
Passes(x) == x \in {"true", ""}

\* The policies in turn: all permissive ones, of which one must pass, then the
\* restrictive ones until one does not.
Verdict(policies, cmd, user, Pred(_)) ==
    LET mine == SelectSeq(policies, LAMBDA p : Applies(p, cmd, user))
        permissive == SelectSeq(mine, LAMBDA p : p.permissive)
        restrictive == SelectSeq(mine, LAMBDA p : ~p.permissive)
        refusal == SelectInSeq(restrictive, LAMBDA p : ~Passes(Pred(p)))
    IN  IF \E p \in ToSet(permissive) : Pred(p) = "error" THEN "error"
        ELSE IF ~\E p \in ToSet(permissive) : Passes(Pred(p)) THEN "denied"
        ELSE IF refusal = 0 THEN "allowed"
        ELSE IF Pred(restrictive[refusal]) = "error" THEN "error" ELSE "denied"

\* rlsRowAllowed
RowAllowed(policies, cmd, user) == Verdict(policies, cmd, user, LAMBDA p : p.using)

\* policyCheckExpr
CheckExpr(p) == IF p.check # "" THEN p.check ELSE p.using

\* rlsCheckNewRow
CheckNewRow(policies, cmd, user) == Verdict(policies, cmd, user, CheckExpr)

\* applyRLSSelect on a row, and the check execInsert makes of a new one.
Judge(t, bypass, cmd, user) ==
    IF ~RLSApplies(t, bypass) THEN "allowed"
    ELSE IF cmd = "INSERT" THEN CheckNewRow(t.policies, cmd, user)
    ELSE RowAllowed(t.policies, cmd, user)

-----------------------------------------------------------------------------
(* The reference.                                                          *)

\* Access is granted exactly when some permissive policy for the session grants it and
\* none of the policies that are looked at refuses or fails; a session without the
\* right to bypass is never granted what no policy grants.
JudgedRightly(t, bypass, cmd, user, verdict) ==
    LET mine == {p \in ToSet(t.policies) : Applies(p, cmd, user)}
        Says(p) == IF cmd = "INSERT" /\ p.check # "" THEN p.check ELSE p.using
        granted == \E p \in mine : p.permissive /\ Says(p) \in {"", "true"}
        refused == \E p \in mine : ~p.permissive /\ Says(p) \notin {"", "true"}
        failed == \E p \in mine : Says(p) = "error"
    IN  /\ ~t.enabled => verdict = "allowed"
        /\ t.enabled /\ (~bypass \/ t.forced) =>
              /\ (verdict = "allowed") = (granted /\ ~refused /\ ~failed)
              /\ verdict = "error" => failed
=============================================================================
