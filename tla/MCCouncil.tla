----------------------------- MODULE MCCouncil -----------------------------
(***************************************************************************)
(* Members of a Council, or members that attend and watch a Naming, to a   *)
(* behaviour.                                                              *)
(***************************************************************************)
EXTENDS Council

VARIABLES
  part,   \* "council" or "naming"
  session2, nodes2, next2, troubles2, open, mine, naming, fresh, broken   \* of Naming

NamingMembers == {"n1", "n2"}

Names == INSTANCE Naming WITH
  Members <- NamingMembers, Watchers <- {"n2"}, MaxNumber <- 3, MaxTroubles <- 2,
  session <- session2, nodes <- nodes2, next <- next2, troubles <- troubles2

namingVars == <<session2, nodes2, next2, troubles2, open, mine, naming, fresh, broken>>
memberVars == <<part, councilVars, namingVars>>

MembersInit ==
  /\ part \in {"council", "naming"}
  /\ CouncilInit /\ (part = "council" \/ election = 1) /\ Names!NamingInit

MembersNext ==
  /\ \/ part = "council" /\ CouncilNext /\ UNCHANGED namingVars
     \/ part = "naming" /\ Names!NamingNext /\ UNCHANGED councilVars
  /\ UNCHANGED part

\* As in the two modules.
OfCouncil(A) == part = "council" /\ A
OfNaming(A) == part = "naming" /\ A
MembersFairness ==
  /\ \A m \in Members : WF_councilVars(OfCouncil(CompletionStep(m)))
  /\ \A m \in NamingMembers : WF_namingVars(OfNaming(Names!OnChildren(m) \/ Names!OnExpired(m)))

MembersSpec == MembersInit /\ [][MembersNext]_memberVars /\ MembersFairness

-----------------------------------------------------------------------------
\* A member of the council that is entitled to a seat is not entitled in vain for ever, and
\* whoever attends or watches a naming knows, again and again, the children there are.
MembersLive == SeatsFilled /\ Names!NamesConverge

=============================================================================
