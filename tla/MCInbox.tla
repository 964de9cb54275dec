------------------------------ MODULE MCInbox ------------------------------
EXTENDS Inbox

CONSTANTS e1, e2, e3, r1, r2

\* Two alerts of one rule, and one of another.
MCRuleOf == [e \in Events |-> IF e = e3 THEN r2 ELSE r1]
=============================================================================
