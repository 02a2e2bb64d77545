------------------------- MODULE SkillRegistryProofs -------------------------
(***************************************************************************)
(* Who asks about a tool call, who runs it and who records it, for every   *)
(* set of packages, tools, calls and terminals; and what load() makes of   *)
(* any number of directories, by induction over its loop.                  *)
(***************************************************************************)
EXTENDS SkillRegistry, WellFoundedInduction, TLAPS

-----------------------------------------------------------------------------
(* The invariant.                                                          *)

\* What EXCEPT needs to know about the tables.
Tables ==
  /\ DOMAIN dirs = Names /\ DOMAIN approvals = Names /\ DOMAIN term = Terminals
  /\ DOMAIN status = Calls /\ DOMAIN records = Calls

\* Until the map is loaded again it is the one the shadow tools come from.
MapIsRegistered == up /\ ~reloaded => shadow = map.direct

\* No question and no call outlives the gateway.
CallsNeedGateway ==
  \A c \in Calls : status[c] \in {"prompted", "cleared", "running"} => up

\* A call is recorded at its start if a shadow tool runs it, and not before.
RecordedAtStart ==
  \A c \in Calls :
    /\ status[c] \in {"idle", "prompted", "cleared"} => records[c] = 0
    /\ status[c] = "running" =>
         records[c] = IF shadow[ToolOf[c]] # None THEN 1 ELSE 0

RegistryInv == Tables /\ MapIsRegistered /\ CallsNeedGateway /\ RecordedAtStart

LEMMA InvInit == Init => RegistryInv
BY DEF Init, RegistryInv, Tables, MapIsRegistered, CallsNeedGateway,
   RecordedAtStart

\* Every step keeps the domains of the tables.
LEMMA TablesStep ==
  ASSUME Tables, [Next]_vars
  PROVE  Tables'
<1> USE DEF Tables, files, commands, gateway, calls
<1>1. ASSUME NEW x \in Terminals, NEW p \in Packages, TermAdd(x, p)
      PROVE  Tables'
  BY <1>1, RegistryAssumption DEF TermAdd, Unpack
<1>2. ASSUME NEW x \in Terminals, NEW n \in Names, TermAsk(x, n)
      PROVE  Tables'
  BY <1>2, RegistryAssumption DEF TermAsk
<1>3. ASSUME NEW x \in Terminals, NEW n \in Names, TermRemove(x, n)
      PROVE  Tables'
  BY <1>3, RegistryAssumption DEF TermRemove
<1>4. ASSUME NEW x \in Terminals, TermReview(x)
      PROVE  Tables'
  BY <1>4, RegistryAssumption DEF TermReview, Infer
<1>5. ASSUME NEW x \in Terminals, TermApprove(x)
      PROVE  Tables'
  BY <1>5, RegistryAssumption DEF TermApprove
<1>6. ASSUME NEW x \in Terminals, TermRemoveApproval(x)
      PROVE  Tables'
  BY <1>6, RegistryAssumption DEF TermRemoveApproval
<1>7. ASSUME NEW x \in Terminals, TermQuit(x)
      PROVE  Tables'
  BY <1>7, RegistryAssumption DEF TermQuit
<1>8. ASSUME NEW p \in Packages, Edit(p)
      PROVE  Tables'
  BY <1>8, RegistryAssumption DEF Edit
<1>9. CASE Register
  BY <1>9, RegistryAssumption DEF Register
<1>10. CASE GatewayEnds
  BY <1>10, RegistryAssumption DEF GatewayEnds
<1>11. CASE ChatInfer
  BY <1>11, RegistryAssumption DEF ChatInfer
<1>12. CASE ChatAddEnds
  BY <1>12, RegistryAssumption DEF ChatAddEnds, Infer
<1>13. CASE ChatAddSucceeds
  BY <1>13, RegistryAssumption DEF ChatAddSucceeds
<1>14. CASE ChatTimesOut
  BY <1>14, RegistryAssumption DEF ChatTimesOut
<1>15. ASSUME NEW p \in Packages, ChatAdd(p)
      PROVE  Tables'
  BY <1>15, RegistryAssumption DEF ChatAdd, Unpack, Free
<1>16. ASSUME NEW c \in Calls, Blocked(c)
      PROVE  Tables'
  BY <1>16, RegistryAssumption DEF Blocked, Free, Callable
<1>17. ASSUME NEW c \in Calls, Passes(c)
      PROVE  Tables'
  BY <1>17, RegistryAssumption DEF Passes, Free, Callable
<1>18. ASSUME NEW c \in Calls, Prompts(c)
      PROVE  Tables'
  BY <1>18, RegistryAssumption DEF Prompts, Free, Callable
<1>19. ASSUME NEW c \in Calls, Allowed(c)
      PROVE  Tables'
  BY <1>19, RegistryAssumption DEF Allowed, Free
<1>20. ASSUME NEW c \in Calls, Denied(c)
      PROVE  Tables'
  BY <1>20, RegistryAssumption DEF Denied, Free
<1>21. ASSUME NEW c \in Calls, Runs(c)
      PROVE  Tables'
  BY <1>21, RegistryAssumption DEF Runs, Free
<1>22. ASSUME NEW c \in Calls, Ends(c)
      PROVE  Tables'
  BY <1>22, RegistryAssumption DEF Ends, Free
<1>23. CASE UNCHANGED vars
  BY <1>23 DEF vars
<1>24. ASSUME NEW x \in Terminals, TermRemoveSkill(x)
      PROVE  Tables'
  BY <1>24, RegistryAssumption DEF TermRemoveSkill
<1> QED
  BY <1>1, <1>2, <1>3, <1>4, <1>5, <1>6, <1>7, <1>8, <1>9, <1>10, <1>11, <1>12,
     <1>13, <1>14, <1>15, <1>16, <1>17, <1>18, <1>19, <1>20, <1>21, <1>22,
     <1>23, <1>24
     DEF Next, CommandNext, GatewayNext, CallNext

\* The shadow tools change with the process only, the map also with a reload.
LEMMA MapStep ==
  ASSUME MapIsRegistered, [Next]_vars
  PROVE  MapIsRegistered'
<1> USE DEF MapIsRegistered, files, commands, gateway, calls
<1>1. ASSUME NEW x \in Terminals, NEW p \in Packages, TermAdd(x, p)
      PROVE  MapIsRegistered'
  BY <1>1, RegistryAssumption DEF TermAdd, Unpack
<1>2. ASSUME NEW x \in Terminals, NEW n \in Names, TermAsk(x, n)
      PROVE  MapIsRegistered'
  BY <1>2, RegistryAssumption DEF TermAsk
<1>3. ASSUME NEW x \in Terminals, NEW n \in Names, TermRemove(x, n)
      PROVE  MapIsRegistered'
  BY <1>3, RegistryAssumption DEF TermRemove
<1>4. ASSUME NEW x \in Terminals, TermReview(x)
      PROVE  MapIsRegistered'
  BY <1>4, RegistryAssumption DEF TermReview, Infer
<1>5. ASSUME NEW x \in Terminals, TermApprove(x)
      PROVE  MapIsRegistered'
  BY <1>5, RegistryAssumption DEF TermApprove
<1>6. ASSUME NEW x \in Terminals, TermRemoveApproval(x)
      PROVE  MapIsRegistered'
  BY <1>6, RegistryAssumption DEF TermRemoveApproval
<1>7. ASSUME NEW x \in Terminals, TermQuit(x)
      PROVE  MapIsRegistered'
  BY <1>7, RegistryAssumption DEF TermQuit
<1>8. ASSUME NEW p \in Packages, Edit(p)
      PROVE  MapIsRegistered'
  BY <1>8, RegistryAssumption DEF Edit
<1>9. CASE Register
  BY <1>9, RegistryAssumption DEF Register
<1>10. CASE GatewayEnds
  BY <1>10, RegistryAssumption DEF GatewayEnds
<1>11. CASE ChatInfer
  BY <1>11, RegistryAssumption DEF ChatInfer
<1>12. CASE ChatAddEnds
  BY <1>12, RegistryAssumption DEF ChatAddEnds, Infer
<1>13. CASE ChatAddSucceeds
  BY <1>13, RegistryAssumption DEF ChatAddSucceeds
<1>14. CASE ChatTimesOut
  BY <1>14, RegistryAssumption DEF ChatTimesOut
<1>15. ASSUME NEW p \in Packages, ChatAdd(p)
      PROVE  MapIsRegistered'
  BY <1>15, RegistryAssumption DEF ChatAdd, Unpack, Free
<1>16. ASSUME NEW c \in Calls, Blocked(c)
      PROVE  MapIsRegistered'
  BY <1>16, RegistryAssumption DEF Blocked, Free, Callable
<1>17. ASSUME NEW c \in Calls, Passes(c)
      PROVE  MapIsRegistered'
  BY <1>17, RegistryAssumption DEF Passes, Free, Callable
<1>18. ASSUME NEW c \in Calls, Prompts(c)
      PROVE  MapIsRegistered'
  BY <1>18, RegistryAssumption DEF Prompts, Free, Callable
<1>19. ASSUME NEW c \in Calls, Allowed(c)
      PROVE  MapIsRegistered'
  BY <1>19, RegistryAssumption DEF Allowed, Free
<1>20. ASSUME NEW c \in Calls, Denied(c)
      PROVE  MapIsRegistered'
  BY <1>20, RegistryAssumption DEF Denied, Free
<1>21. ASSUME NEW c \in Calls, Runs(c)
      PROVE  MapIsRegistered'
  BY <1>21, RegistryAssumption DEF Runs, Free
<1>22. ASSUME NEW c \in Calls, Ends(c)
      PROVE  MapIsRegistered'
  BY <1>22, RegistryAssumption DEF Ends, Free
<1>23. CASE UNCHANGED vars
  BY <1>23 DEF vars
<1>24. ASSUME NEW x \in Terminals, TermRemoveSkill(x)
      PROVE  MapIsRegistered'
  BY <1>24, RegistryAssumption DEF TermRemoveSkill
<1> QED
  BY <1>1, <1>2, <1>3, <1>4, <1>5, <1>6, <1>7, <1>8, <1>9, <1>10, <1>11, <1>12,
     <1>13, <1>14, <1>15, <1>16, <1>17, <1>18, <1>19, <1>20, <1>21, <1>22,
     <1>23, <1>24
     DEF Next, CommandNext, GatewayNext, CallNext

\* Calls move while the gateway runs, and are given up when it ends.
LEMMA GatewayStep ==
  ASSUME Tables, CallsNeedGateway, [Next]_vars
  PROVE  CallsNeedGateway'
<1> USE DEF Tables, CallsNeedGateway, files, commands, gateway, calls
<1>1. ASSUME NEW x \in Terminals, NEW p \in Packages, TermAdd(x, p)
      PROVE  CallsNeedGateway'
  BY <1>1, RegistryAssumption DEF TermAdd, Unpack
<1>2. ASSUME NEW x \in Terminals, NEW n \in Names, TermAsk(x, n)
      PROVE  CallsNeedGateway'
  BY <1>2, RegistryAssumption DEF TermAsk
<1>3. ASSUME NEW x \in Terminals, NEW n \in Names, TermRemove(x, n)
      PROVE  CallsNeedGateway'
  BY <1>3, RegistryAssumption DEF TermRemove
<1>4. ASSUME NEW x \in Terminals, TermReview(x)
      PROVE  CallsNeedGateway'
  BY <1>4, RegistryAssumption DEF TermReview, Infer
<1>5. ASSUME NEW x \in Terminals, TermApprove(x)
      PROVE  CallsNeedGateway'
  BY <1>5, RegistryAssumption DEF TermApprove
<1>6. ASSUME NEW x \in Terminals, TermRemoveApproval(x)
      PROVE  CallsNeedGateway'
  BY <1>6, RegistryAssumption DEF TermRemoveApproval
<1>7. ASSUME NEW x \in Terminals, TermQuit(x)
      PROVE  CallsNeedGateway'
  BY <1>7, RegistryAssumption DEF TermQuit
<1>8. ASSUME NEW p \in Packages, Edit(p)
      PROVE  CallsNeedGateway'
  BY <1>8, RegistryAssumption DEF Edit
<1>9. CASE Register
  BY <1>9, RegistryAssumption DEF Register
<1>10. CASE GatewayEnds
  BY <1>10, RegistryAssumption DEF GatewayEnds
<1>11. CASE ChatInfer
  BY <1>11, RegistryAssumption DEF ChatInfer
<1>12. CASE ChatAddEnds
  BY <1>12, RegistryAssumption DEF ChatAddEnds, Infer
<1>13. CASE ChatAddSucceeds
  BY <1>13, RegistryAssumption DEF ChatAddSucceeds
<1>14. CASE ChatTimesOut
  BY <1>14, RegistryAssumption DEF ChatTimesOut
<1>15. ASSUME NEW p \in Packages, ChatAdd(p)
      PROVE  CallsNeedGateway'
  BY <1>15, RegistryAssumption DEF ChatAdd, Unpack, Free
<1>16. ASSUME NEW c \in Calls, Blocked(c)
      PROVE  CallsNeedGateway'
  BY <1>16, RegistryAssumption DEF Blocked, Free, Callable
<1>17. ASSUME NEW c \in Calls, Passes(c)
      PROVE  CallsNeedGateway'
  BY <1>17, RegistryAssumption DEF Passes, Free, Callable
<1>18. ASSUME NEW c \in Calls, Prompts(c)
      PROVE  CallsNeedGateway'
  BY <1>18, RegistryAssumption DEF Prompts, Free, Callable
<1>19. ASSUME NEW c \in Calls, Allowed(c)
      PROVE  CallsNeedGateway'
  BY <1>19, RegistryAssumption DEF Allowed, Free
<1>20. ASSUME NEW c \in Calls, Denied(c)
      PROVE  CallsNeedGateway'
  BY <1>20, RegistryAssumption DEF Denied, Free
<1>21. ASSUME NEW c \in Calls, Runs(c)
      PROVE  CallsNeedGateway'
  BY <1>21, RegistryAssumption DEF Runs, Free
<1>22. ASSUME NEW c \in Calls, Ends(c)
      PROVE  CallsNeedGateway'
  BY <1>22, RegistryAssumption DEF Ends, Free
<1>23. CASE UNCHANGED vars
  BY <1>23 DEF vars
<1>24. ASSUME NEW x \in Terminals, TermRemoveSkill(x)
      PROVE  CallsNeedGateway'
  BY <1>24, RegistryAssumption DEF TermRemoveSkill
<1> QED
  BY <1>1, <1>2, <1>3, <1>4, <1>5, <1>6, <1>7, <1>8, <1>9, <1>10, <1>11, <1>12,
     <1>13, <1>14, <1>15, <1>16, <1>17, <1>18, <1>19, <1>20, <1>21, <1>22,
     <1>23, <1>24
     DEF Next, CommandNext, GatewayNext, CallNext

\* The records of a call follow its status.
LEMMA RecordsStep ==
  ASSUME RegistryInv, [Next]_vars
  PROVE  RecordedAtStart'
<1> USE DEF RegistryInv, Tables, CallsNeedGateway, RecordedAtStart, files,
            commands, gateway, calls
<1>1. ASSUME NEW x \in Terminals, NEW p \in Packages, TermAdd(x, p)
      PROVE  RecordedAtStart'
  BY <1>1, RegistryAssumption DEF TermAdd, Unpack
<1>2. ASSUME NEW x \in Terminals, NEW n \in Names, TermAsk(x, n)
      PROVE  RecordedAtStart'
  BY <1>2, RegistryAssumption DEF TermAsk
<1>3. ASSUME NEW x \in Terminals, NEW n \in Names, TermRemove(x, n)
      PROVE  RecordedAtStart'
  BY <1>3, RegistryAssumption DEF TermRemove
<1>4. ASSUME NEW x \in Terminals, TermReview(x)
      PROVE  RecordedAtStart'
  BY <1>4, RegistryAssumption DEF TermReview, Infer
<1>5. ASSUME NEW x \in Terminals, TermApprove(x)
      PROVE  RecordedAtStart'
  BY <1>5, RegistryAssumption DEF TermApprove
<1>6. ASSUME NEW x \in Terminals, TermRemoveApproval(x)
      PROVE  RecordedAtStart'
  BY <1>6, RegistryAssumption DEF TermRemoveApproval
<1>7. ASSUME NEW x \in Terminals, TermQuit(x)
      PROVE  RecordedAtStart'
  BY <1>7, RegistryAssumption DEF TermQuit
<1>8. ASSUME NEW p \in Packages, Edit(p)
      PROVE  RecordedAtStart'
  BY <1>8, RegistryAssumption DEF Edit
<1>9. CASE Register
  BY <1>9, RegistryAssumption DEF Register
<1>10. CASE GatewayEnds
  BY <1>10, RegistryAssumption DEF GatewayEnds
<1>11. CASE ChatInfer
  BY <1>11, RegistryAssumption DEF ChatInfer
<1>12. CASE ChatAddEnds
  BY <1>12, RegistryAssumption DEF ChatAddEnds, Infer
<1>13. CASE ChatAddSucceeds
  BY <1>13, RegistryAssumption DEF ChatAddSucceeds
<1>14. CASE ChatTimesOut
  BY <1>14, RegistryAssumption DEF ChatTimesOut
<1>15. ASSUME NEW p \in Packages, ChatAdd(p)
      PROVE  RecordedAtStart'
  BY <1>15, RegistryAssumption DEF ChatAdd, Unpack, Free
<1>16. ASSUME NEW c \in Calls, Blocked(c)
      PROVE  RecordedAtStart'
  BY <1>16, RegistryAssumption DEF Blocked, Free, Callable
<1>17. ASSUME NEW c \in Calls, Passes(c)
      PROVE  RecordedAtStart'
  BY <1>17, RegistryAssumption DEF Passes, Free, Callable
<1>18. ASSUME NEW c \in Calls, Prompts(c)
      PROVE  RecordedAtStart'
  BY <1>18, RegistryAssumption DEF Prompts, Free, Callable
<1>19. ASSUME NEW c \in Calls, Allowed(c)
      PROVE  RecordedAtStart'
  BY <1>19, RegistryAssumption DEF Allowed, Free
<1>20. ASSUME NEW c \in Calls, Denied(c)
      PROVE  RecordedAtStart'
  BY <1>20, RegistryAssumption DEF Denied, Free
<1>21. ASSUME NEW c \in Calls, Runs(c)
      PROVE  RecordedAtStart'
  BY <1>21, RegistryAssumption DEF Runs, Free
<1>22. ASSUME NEW c \in Calls, Ends(c)
      PROVE  RecordedAtStart'
  BY <1>22, RegistryAssumption DEF Ends, Free
<1>23. CASE UNCHANGED vars
  BY <1>23 DEF vars
<1>24. ASSUME NEW x \in Terminals, TermRemoveSkill(x)
      PROVE  RecordedAtStart'
  BY <1>24, RegistryAssumption DEF TermRemoveSkill
<1> QED
  BY <1>1, <1>2, <1>3, <1>4, <1>5, <1>6, <1>7, <1>8, <1>9, <1>10, <1>11, <1>12,
     <1>13, <1>14, <1>15, <1>16, <1>17, <1>18, <1>19, <1>20, <1>21, <1>22,
     <1>23, <1>24
     DEF Next, CommandNext, GatewayNext, CallNext

\* A running call is done only by its end.
LEMMA RunningEnds ==
  ASSUME Tables, [Next]_vars, NEW k \in Calls,
         status[k] = "running", status'[k] = "done"
  PROVE  Ends(k)
<1> USE DEF Tables, files, commands, gateway, calls
<1>1. ASSUME NEW x \in Terminals, NEW p \in Packages, TermAdd(x, p)
      PROVE  Ends(k)
  BY <1>1, RegistryAssumption DEF TermAdd, Unpack, Free
<1>2. ASSUME NEW x \in Terminals, NEW n \in Names, TermAsk(x, n)
      PROVE  Ends(k)
  BY <1>2, RegistryAssumption DEF TermAsk, Free
<1>3. ASSUME NEW x \in Terminals, NEW n \in Names, TermRemove(x, n)
      PROVE  Ends(k)
  BY <1>3, RegistryAssumption DEF TermRemove, Free
<1>4. ASSUME NEW x \in Terminals, TermReview(x)
      PROVE  Ends(k)
  BY <1>4, RegistryAssumption DEF TermReview, Infer, Free
<1>5. ASSUME NEW x \in Terminals, TermApprove(x)
      PROVE  Ends(k)
  BY <1>5, RegistryAssumption DEF TermApprove, Free
<1>6. ASSUME NEW x \in Terminals, TermRemoveApproval(x)
      PROVE  Ends(k)
  BY <1>6, RegistryAssumption DEF TermRemoveApproval, Free
<1>7. ASSUME NEW x \in Terminals, TermQuit(x)
      PROVE  Ends(k)
  BY <1>7, RegistryAssumption DEF TermQuit, Free
<1>8. ASSUME NEW p \in Packages, Edit(p)
      PROVE  Ends(k)
  BY <1>8, RegistryAssumption DEF Edit, Free
<1>9. CASE Register
  BY <1>9, RegistryAssumption DEF Register
<1>10. CASE GatewayEnds
  BY <1>10, RegistryAssumption DEF GatewayEnds
<1>11. CASE ChatInfer
  BY <1>11, RegistryAssumption DEF ChatInfer
<1>12. CASE ChatAddEnds
  BY <1>12, RegistryAssumption DEF ChatAddEnds, Infer
<1>13. CASE ChatAddSucceeds
  BY <1>13, RegistryAssumption DEF ChatAddSucceeds
<1>14. CASE ChatTimesOut
  BY <1>14, RegistryAssumption DEF ChatTimesOut
<1>15. ASSUME NEW p \in Packages, ChatAdd(p)
      PROVE  Ends(k)
  BY <1>15, RegistryAssumption DEF ChatAdd, Unpack, Free
<1>16. ASSUME NEW c \in Calls, Blocked(c)
      PROVE  Ends(k)
  BY <1>16, RegistryAssumption DEF Blocked, Free, Callable
<1>17. ASSUME NEW c \in Calls, Passes(c)
      PROVE  Ends(k)
  BY <1>17, RegistryAssumption DEF Passes, Free, Callable
<1>18. ASSUME NEW c \in Calls, Prompts(c)
      PROVE  Ends(k)
  BY <1>18, RegistryAssumption DEF Prompts, Free, Callable
<1>19. ASSUME NEW c \in Calls, Allowed(c)
      PROVE  Ends(k)
  BY <1>19, RegistryAssumption DEF Allowed, Free
<1>20. ASSUME NEW c \in Calls, Denied(c)
      PROVE  Ends(k)
  BY <1>20, RegistryAssumption DEF Denied, Free
<1>21. ASSUME NEW c \in Calls, Runs(c)
      PROVE  Ends(k)
  BY <1>21, RegistryAssumption DEF Runs, Free
<1>22. ASSUME NEW c \in Calls, Ends(c)
      PROVE  Ends(k)
  BY <1>22, RegistryAssumption DEF Ends, Free
<1>23. CASE UNCHANGED vars
  BY <1>23 DEF vars
<1>24. ASSUME NEW x \in Terminals, TermRemoveSkill(x)
      PROVE  Ends(k)
  BY <1>24, RegistryAssumption DEF TermRemoveSkill, Free
<1> QED
  BY <1>1, <1>2, <1>3, <1>4, <1>5, <1>6, <1>7, <1>8, <1>9, <1>10, <1>11, <1>12,
     <1>13, <1>14, <1>15, <1>16, <1>17, <1>18, <1>19, <1>20, <1>21, <1>22,
     <1>23, <1>24
     DEF Next, CommandNext, GatewayNext, CallNext

-----------------------------------------------------------------------------
(* What load() computes.  Its loop is a recursive function; that it has a   *)
(* value for each directory, and which, is shown by induction, through the  *)
(* well-foundedness of < on Nat.                                            *)

\* Every set of numbers that is not empty has a least element.
LEMMA LeastNumber ==
  ASSUME NEW S, S \subseteq Nat, S # {}
  PROVE  \E m \in S : \A k \in S : m <= k
<1> DEFINE R == OpToRel(<, Nat)
<1>1. \A x, y \in Nat : x < y => << x, y >> \in R
  BY DEF OpToRel
<1>2. IsWellFoundedOn(R, Nat)
  BY NatLessThanWellFounded
<1> HIDE DEF R
<1>3. PICK x \in S : \A y \in S : ~ (<< y, x >> \in R)
  BY <1>2, WFMin
<1>4. \A y \in S : ~ (y < x)
  BY <1>1, <1>3
<1>5. \A y \in S : x \in Nat /\ y \in Nat
  BY <1>3
<1> QED
  BY <1>4, <1>5

\* One that is bounded has a greatest.
LEMMA GreatestNumber ==
  ASSUME NEW N \in Nat, NEW S, S \subseteq 0 .. N, S # {}
  PROVE  \E m \in S : \A k \in S : k <= m
<1> DEFINE T == { N - k : k \in S }
<1>1. T \subseteq Nat /\ T # {}
  <2>1. \A k \in S : k \in 0 .. N /\ N - k \in Nat
    OBVIOUS
  <2> QED
    BY <2>1
<1> HIDE DEF T
<1>2. PICK m \in T : \A k \in T : m <= k
  BY <1>1, LeastNumber
<1>3. PICK s \in S : m = N - s
  BY DEF T
<1>4. ASSUME NEW k \in S
      PROVE  k <= s
  <2>1. N - k \in T
    BY DEF T
  <2>2. m <= N - k
    BY <1>2, <2>1
  <2>3. s \in Nat /\ k \in Nat
    OBVIOUS
  <2> QED
    BY <1>3, <2>2, <2>3
<1> QED
  BY <1>4

\* Induction up to a bound, for a set in place of a predicate.
LEMMA CountUp ==
  ASSUME NEW N \in Nat, NEW S, 0 \in S,
         \A n \in 0 .. N : n \in S /\ n < N => n + 1 \in S
  PROVE  \A n \in 0 .. N : n \in S
<1> DEFINE Bad == { n \in 0 .. N : n \notin S }
<1>1. Bad \subseteq Nat
  OBVIOUS
<1>2. ASSUME Bad # {}
      PROVE  FALSE
  <2> HIDE DEF Bad
  <2>1. PICK m \in Bad : \A k \in Bad : m <= k
    BY <1>1, <1>2, LeastNumber
  <2> USE DEF Bad
  <2>2. m \in 0 .. N /\ m # 0
    OBVIOUS
  <2>3. m - 1 \in 0 .. N /\ m - 1 < N /\ m - 1 + 1 = m
    BY <2>2
  <2>4. m - 1 \in S
    BY <2>1, <2>3
  <2> QED
    BY <2>3, <2>4
<1> QED
  BY <1>2

\* load()'s loop has a value after each directory.
Turn(h) == [n \in 0 .. MaxName |-> IF n = 0 THEN EmptyMap
                                            ELSE Enter(h[n - 1], Readable(n))]

Loaded == CHOOSE h : h = Turn(h)

LEMMA LoadedEquation == Loaded = Turn(Loaded) /\ Load = Loaded[MaxName]
<1> DEFINE Upto(g, n) == g = [i \in 0 .. n |-> IF i = 0 THEN EmptyMap
                                               ELSE Enter(g[i - 1], Readable(i))]
           S == { n \in 0 .. MaxName : \E g : Upto(g, n) }
<1>0. MaxName \in Nat
  BY RegistryAssumption
<1>1. 0 \in S
  <2>1. Upto([i \in 0 .. 0 |-> EmptyMap], 0)
    OBVIOUS
  <2> HIDE DEF Upto
  <2> QED
    BY <1>0, <2>1
<1>2. ASSUME NEW n \in 0 .. MaxName, n \in S, n < MaxName
      PROVE  n + 1 \in S
  <2>1. PICK g : Upto(g, n)
    BY <1>2
  <2> DEFINE f == [i \in 0 .. n + 1 |-> IF i = n + 1 THEN Enter(g[n], Readable(n + 1))
                                                     ELSE g[i]]
  <2>2. ASSUME NEW i \in 0 .. n + 1
        PROVE  f[i] = IF i = 0 THEN EmptyMap ELSE Enter(f[i - 1], Readable(i))
    <3>1. CASE i = n + 1
      BY <3>1
    <3>2. CASE i # n + 1 /\ i # 0
      <4>1. i \in 0 .. n /\ i - 1 \in 0 .. n
        BY <3>2
      <4>2. g[i] = Enter(g[i - 1], Readable(i))
        BY <2>1, <3>2, <4>1
      <4> QED
        BY <3>2, <4>1, <4>2
    <3>3. CASE i = 0
      BY <2>1, <3>3
    <3> QED
      BY <3>1, <3>2, <3>3
  <2>3. Upto(f, n + 1)
    BY <2>2
  <2> HIDE DEF Upto, f
  <2>4. n + 1 \in 0 .. MaxName
    BY <1>0, <1>2
  <2> QED
    BY <2>3, <2>4
<1> HIDE DEF S
<1>3. \A n \in 0 .. MaxName : n \in S
  BY <1>0, <1>1, <1>2, CountUp
<1>4. PICK h : Upto(h, MaxName)
  BY <1>0, <1>3 DEF S
<1>5. h = Turn(h)
  BY <1>4 DEF Turn
<1>6. Loaded = Turn(Loaded)
  BY <1>5 DEF Loaded
<1>7. Load = Loaded[MaxName]
  BY DEF Load, Loaded, Turn
<1> QED
  BY <1>6, <1>7

Maps == [direct : [Tools -> Names \cup {None}], wild : Seq(Names)]

\* Up to directory n: those that declare a tool, and those whose wildcard fits.
Claims(n, t) ==
  { k \in Names : /\ k <= n
                  /\ Readable(k) # None
                  /\ Declared(Readable(k)) # AnyTool
                  /\ t \in Declared(Readable(k)) }

Fits(n, t) ==
  { k \in Names : /\ k <= n
                  /\ Readable(k) # None
                  /\ Declared(Readable(k)) = AnyTool
                  /\ t \in Matches[NameOf[Readable(k)]] }

HitsIn(w, t) == { i \in DOMAIN w : t \in Matches[w[i]] }

Greatest(k, S) == k \in S /\ \A j \in S : j <= k
Least(k, S)    == k \in S /\ \A j \in S : k <= j

\* A map says of each tool what the directories up to n say of it.
DirectUpTo(mp, n) ==
  \A t \in Tools :
    /\ Claims(n, t) = {} => mp.direct[t] = None
    /\ \A k \in Names :
         Greatest(k, Claims(n, t)) => mp.direct[t] = NameOf[Readable(k)]

WildUpTo(mp, n) ==
  \A t \in Tools :
    /\ Fits(n, t) = {} => HitsIn(mp.wild, t) = {}
    /\ \A k \in Names :
         Least(k, Fits(n, t)) =>
           \E i \in HitsIn(mp.wild, t) :
              Least(i, HitsIn(mp.wild, t)) /\ mp.wild[i] = NameOf[Readable(k)]

DirType == dirs \in [Names -> Packages \cup {None}]

\* What the program reads of a directory is a package.
LEMMA ReadableType ==
  ASSUME DirType, NEW n \in Names, Readable(n) # None
  PROVE  Readable(n) \in Packages /\ NameOf[Readable(n)] \in Names
BY RegistryAssumption DEF DirType, Readable

\* Names are numbers.
LEMMA NamesAreNumbers == MaxName \in Nat /\ Names \subseteq Nat /\ None \notin Names
BY RegistryAssumption DEF Names

\* A turn of the loop gives a map again.
LEMMA EnterType ==
  ASSUME DirType, NEW n \in Names, NEW mp \in Maps
  PROVE  Enter(mp, Readable(n)) \in Maps
<1> DEFINE p == Readable(n)
<1>1. CASE p = None
  BY <1>1 DEF Enter
<1>2. ASSUME p # None
      PROVE  NameOf[p] \in Names
  BY <1>2, ReadableType
<1>3. /\ \A w \in Seq(Names) : [mp EXCEPT !.wild = w] \in Maps
      /\ \A d \in [Tools -> Names \cup {None}] : [mp EXCEPT !.direct = d] \in Maps
  BY DEF Maps
<1>4. CASE p # None /\ Declared(p) = AnyTool
  <2> DEFINE w == IF NameOf[p] \in ToSet(mp.wild) THEN mp.wild
                                                  ELSE Append(mp.wild, NameOf[p])
  <2>1. w \in Seq(Names)
    BY <1>2, <1>4 DEF Maps
  <2>2. Enter(mp, p) = [mp EXCEPT !.wild = w]
    <3> HIDE DEF p
    <3> QED
      BY <1>4 DEF Enter
  <2> HIDE DEF w
  <2> QED
    BY <1>3, <2>1, <2>2
<1>5. CASE p # None /\ Declared(p) # AnyTool
  <2> DEFINE d == [t \in Tools |-> IF t \in Declared(p) THEN NameOf[p]
                                                        ELSE mp.direct[t]]
  <2>1. d \in [Tools -> Names \cup {None}]
    BY <1>2, <1>5 DEF Maps
  <2>2. Enter(mp, p) = [mp EXCEPT !.direct = d]
    <3> HIDE DEF p
    <3> QED
      BY <1>5 DEF Enter
  <2> HIDE DEF d
  <2> QED
    BY <1>3, <2>1, <2>2
<1> QED
  BY <1>1, <1>4, <1>5

\* The next directory claims its own tools and no other.
LEMMA NextClaims ==
  ASSUME NEW n \in Nat, n + 1 \in Names, NEW t \in Tools
  PROVE  /\ Claims(n + 1, t) =
              Claims(n, t) \cup
                (IF /\ Readable(n + 1) # None
                    /\ Declared(Readable(n + 1)) # AnyTool
                    /\ t \in Declared(Readable(n + 1))
                   THEN {n + 1} ELSE {})
         /\ Fits(n + 1, t) =
              Fits(n, t) \cup
                (IF /\ Readable(n + 1) # None
                    /\ Declared(Readable(n + 1)) = AnyTool
                    /\ t \in Matches[NameOf[Readable(n + 1)]]
                   THEN {n + 1} ELSE {})
<1>1. \A k \in Names : k <= n + 1 <=> k <= n \/ k = n + 1
  BY NamesAreNumbers
<1> QED
  BY <1>1 DEF Claims, Fits

\* After one more turn the last directory that declares a tool has it.
LEMMA DirectTurn ==
  ASSUME DirType, NEW n \in Nat, n + 1 \in Names, NEW mp \in Maps,
         DirectUpTo(mp, n)
  PROVE  DirectUpTo(Enter(mp, Readable(n + 1)), n + 1)
<1> DEFINE p  == Readable(n + 1)
           mq == Enter(mp, p)
<1> SUFFICES ASSUME NEW t \in Tools
             PROVE  /\ Claims(n + 1, t) = {} => mq.direct[t] = None
                    /\ \A k \in Names : Greatest(k, Claims(n + 1, t)) =>
                         mq.direct[t] = NameOf[Readable(k)]
  BY DEF DirectUpTo
<1>1. CASE p # None /\ Declared(p) # AnyTool /\ t \in Declared(p)
  <2>1. n + 1 \in Claims(n + 1, t)
    BY <1>1, NextClaims
  <2>2. mq.direct[t] = NameOf[p]
    <3> HIDE DEF p
    <3> QED
      BY <1>1 DEF Enter, Maps
  <2>3. ASSUME NEW k \in Names, Greatest(k, Claims(n + 1, t))
        PROVE  k = n + 1
    BY <2>1, <2>3, NamesAreNumbers DEF Greatest, Claims
  <2> QED
    BY <2>1, <2>2, <2>3
<1>2. CASE ~ (p # None /\ Declared(p) # AnyTool /\ t \in Declared(p))
  <2>1. Claims(n + 1, t) = Claims(n, t)
    BY <1>2, NextClaims
  <2>2. mq.direct[t] = mp.direct[t]
    <3> HIDE DEF p
    <3> QED
      BY <1>2 DEF Enter, Maps
  <2> QED
    BY <2>1, <2>2 DEF DirectUpTo
<1> QED
  BY <1>1, <1>2

\* After one more turn the first wildcard that fits a tool is still the one
\* of the first directory that has one.
LEMMA WildTurn ==
  ASSUME DirType, NEW n \in Nat, n + 1 \in Names, NEW mp \in Maps,
         WildUpTo(mp, n)
  PROVE  WildUpTo(Enter(mp, Readable(n + 1)), n + 1)
<1> DEFINE p  == Readable(n + 1)
           w  == mp.wild
           v  == Enter(mp, p).wild
<1> SUFFICES ASSUME NEW t \in Tools
             PROVE  /\ Fits(n + 1, t) = {} => HitsIn(v, t) = {}
                    /\ \A k \in Names : Least(k, Fits(n + 1, t)) =>
                         \E i \in HitsIn(v, t) :
                            Least(i, HitsIn(v, t)) /\ v[i] = NameOf[Readable(k)]
  BY DEF WildUpTo
<1>0. w \in Seq(Names) /\ Len(w) \in Nat
  BY DEF Maps
<1>1. Fits(n, t) = {} => HitsIn(w, t) = {}
  BY DEF WildUpTo
<1>2. ASSUME NEW k \in Names, Least(k, Fits(n, t))
      PROVE  \E i \in HitsIn(w, t) :
                Least(i, HitsIn(w, t)) /\ w[i] = NameOf[Readable(k)]
  BY <1>2 DEF WildUpTo
<1>3. ASSUME NEW k \in Names, Least(k, Fits(n + 1, t)), Fits(n, t) # {}
      PROVE  Least(k, Fits(n, t))
  <2>1. PICK j \in Fits(n, t) : TRUE
    BY <1>3
  <2>2. j \in Fits(n + 1, t) /\ j <= n /\ Fits(n, t) \subseteq Fits(n + 1, t)
    BY NextClaims DEF Fits
  <2>3. k <= n
    BY <1>3, <2>2, NamesAreNumbers DEF Least, Fits
  <2>4. k \in Fits(n, t)
    BY <1>3, <2>3 DEF Least, Fits
  <2> QED
    BY <1>3, <2>2, <2>4 DEF Least
<1>4. CASE v = w /\ (Fits(n + 1, t) # {} => Fits(n, t) # {})
  <2>1. Fits(n + 1, t) = {} => Fits(n, t) = {}
    BY NextClaims
  <2> HIDE DEF v, w
  <2> QED
    BY <1>1, <1>2, <1>3, <1>4, <2>1 DEF Least
<1>5. CASE p # None /\ Declared(p) = AnyTool /\ NameOf[p] \in ToSet(w)
  <2>1. v = w
    BY <1>5 DEF Enter, Maps
  <2>2. PICK i \in DOMAIN w : w[i] = NameOf[p]
    BY <1>5 DEF ToSet
  <2>3. ASSUME Fits(n + 1, t) # {}, Fits(n, t) = {}
        PROVE  FALSE
    <3>1. t \in Matches[NameOf[p]]
      BY <2>3, NextClaims
    <3>2. i \in HitsIn(w, t)
      BY <2>2, <3>1 DEF HitsIn
    <3> QED
      BY <1>1, <2>3, <3>2
  <2> QED
    BY <1>4, <2>1, <2>3
<1>6. CASE p = None \/ Declared(p) # AnyTool
  <2>1. v = w
    BY <1>6 DEF Enter, Maps
  <2>2. Fits(n + 1, t) = Fits(n, t)
    BY <1>6, NextClaims
  <2> QED
    BY <1>4, <2>1, <2>2
<1>7. CASE p # None /\ Declared(p) = AnyTool /\ NameOf[p] \notin ToSet(w)
  <2>1. v = Append(w, NameOf[p])
    BY <1>7 DEF Enter, Maps
  <2>2. NameOf[p] \in Names
    BY <1>7, ReadableType
  <2> HIDE DEF v, w
  <2>3. /\ DOMAIN w = 1 .. Len(w) /\ DOMAIN v = 1 .. Len(w) + 1
        /\ v[Len(w) + 1] = NameOf[p]
        /\ \A i \in 1 .. Len(w) : v[i] = w[i]
    <3> HIDE DEF p
    <3> QED
      BY <1>0, <2>1, <2>2
  <2>4. HitsIn(v, t) = HitsIn(w, t) \cup
                         (IF t \in Matches[NameOf[p]] THEN {Len(w) + 1} ELSE {})
    BY <1>0, <2>3 DEF HitsIn
  <2>5. \A i \in HitsIn(w, t) : i \in Nat /\ i <= Len(w) /\ v[i] = w[i]
    BY <1>0, <2>3 DEF HitsIn
  <2>6. CASE Fits(n, t) # {}
    <3>1. ASSUME NEW k \in Names, Least(k, Fits(n + 1, t))
          PROVE  \E i \in HitsIn(v, t) :
                    Least(i, HitsIn(v, t)) /\ v[i] = NameOf[Readable(k)]
      <4>1. PICK i \in HitsIn(w, t) :
                   Least(i, HitsIn(w, t)) /\ w[i] = NameOf[Readable(k)]
        BY <1>2, <1>3, <2>6, <3>1
      <4>2. i <= Len(w) + 1
        BY <1>0, <2>5
      <4>3. Least(i, HitsIn(v, t)) /\ v[i] = NameOf[Readable(k)]
        BY <2>4, <2>5, <4>1, <4>2 DEF Least
      <4> QED
        BY <4>3 DEF Least
    <3>2. Fits(n + 1, t) # {}
      BY <2>6, NextClaims
    <3> QED
      BY <3>1, <3>2
  <2>7. CASE Fits(n, t) = {} /\ t \in Matches[NameOf[p]]
    <3>1. Fits(n + 1, t) = {n + 1}
      BY <1>7, <2>7, NextClaims
    <3>2. HitsIn(v, t) = {Len(w) + 1}
      BY <1>1, <2>4, <2>7
    <3>3. Least(Len(w) + 1, HitsIn(v, t))
      BY <1>0, <3>2 DEF Least
    <3>4. ASSUME NEW k \in Names, Least(k, Fits(n + 1, t))
          PROVE  k = n + 1
      BY <3>1, <3>4 DEF Least
    <3> QED
      BY <2>3, <3>1, <3>2, <3>3, <3>4
  <2>8. CASE Fits(n, t) = {} /\ t \notin Matches[NameOf[p]]
    <3>1. Fits(n + 1, t) = {}
      BY <2>8, NextClaims
    <3>2. HitsIn(v, t) = {}
      BY <1>1, <2>4, <2>8
    <3> QED
      BY <3>1, <3>2 DEF Least
  <2> QED
    BY <2>6, <2>7, <2>8
<1> QED
  BY <1>5, <1>6, <1>7

\* load() gives each tool what all directories together say of it.
LEMMA LoadDescribes ==
  ASSUME DirType
  PROVE  Load \in Maps /\ DirectUpTo(Load, MaxName) /\ WildUpTo(Load, MaxName)
<1> DEFINE Good(n) == /\ Loaded[n] \in Maps
                      /\ DirectUpTo(Loaded[n], n)
                      /\ WildUpTo(Loaded[n], n)
           S == { n \in 0 .. MaxName : Good(n) }
<1>0. MaxName \in Nat
  BY NamesAreNumbers
<1>1. 0 \in S
  <2>1. Loaded[0] = EmptyMap
    BY <1>0, LoadedEquation DEF Turn
  <2>2. \A t \in Tools : Claims(0, t) = {} /\ Fits(0, t) = {}
    BY <1>0 DEF Claims, Fits, Names
  <2>3. EmptyMap \in Maps /\ \A t \in Tools : EmptyMap.direct[t] = None
                                           /\ HitsIn(EmptyMap.wild, t) = {}
    BY DEF EmptyMap, Maps, HitsIn
  <2>4. DirectUpTo(EmptyMap, 0) /\ WildUpTo(EmptyMap, 0)
    BY <2>2, <2>3 DEF DirectUpTo, WildUpTo, Greatest, Least
  <2> QED
    BY <1>0, <2>1, <2>3, <2>4
<1>2. ASSUME NEW n \in 0 .. MaxName, n \in S, n < MaxName
      PROVE  n + 1 \in S
  <2>1. /\ n \in Nat /\ n + 1 \in Names /\ n + 1 \in 0 .. MaxName
        /\ n + 1 # 0 /\ n + 1 - 1 = n
    BY <1>0, <1>2 DEF Names
  <2>2. Loaded[n + 1] = Enter(Loaded[n], Readable(n + 1))
    BY <2>1, LoadedEquation DEF Turn
  <2>3. Good(n)
    BY <1>2
  <2>4. Good(n + 1)
    BY <2>1, <2>2, <2>3, EnterType, DirectTurn, WildTurn
  <2> QED
    BY <2>1, <2>4
<1>3. \A n \in 0 .. MaxName : n \in S
  <2> HIDE DEF S
  <2> QED
    BY <1>0, <1>1, <1>2, CountUp
<1>4. Good(MaxName)
  BY <1>0, <1>3
<1> QED
  BY <1>4, LoadedEquation

\* A command that is under way has a directory, an open question something
\* to show.
SessionsOK ==
  /\ \A x \in Terminals : term[x].at # "idle" => term[x].name \in Names
  /\ chat.at # "idle" => chat.name \in Names
  /\ \A c \in Calls : status[c] = "prompted" =>
       shown[c] \in [skill : Names, what : Packages \cup {Unseen}]

RegistryTypes == SystemTypeOK /\ SessionsOK

\* Who asks, and what load() reads, are skills of the directory.
LEMMA OwnerType ==
  ASSUME SystemTypeOK, NEW t \in Tools, Owner(t) # None
  PROVE  Owner(t) \in Names
<1>1. CASE map.direct[t] # None
  BY <1>1 DEF Owner, SystemTypeOK
<1>2. CASE map.direct[t] = None
  <2>1. Hits(t) # {} /\ Owner(t) = map.wild[Min(Hits(t))]
    BY <1>2 DEF Owner
  <2>2. Hits(t) \subseteq Nat /\ Hits(t) \subseteq DOMAIN map.wild
    BY DEF Hits, SystemTypeOK
  <2>3. PICK m \in Hits(t) : \A k \in Hits(t) : m <= k
    BY <2>1, <2>2, LeastNumber
  <2>4. Min(Hits(t)) \in Hits(t)
    BY <2>3 DEF Min
  <2> QED
    BY <2>1, <2>2, <2>4 DEF SystemTypeOK
<1> QED
  BY <1>1, <1>2

\* A session whose question is asked is still a session.
LEMMA AskedSession ==
  ASSUME SystemTypeOK, NEW x \in Terminals, NEW d \in Packages \cup {None}
  PROVE  [term EXCEPT ![x].at = "asked", ![x].seen = d]
           \in [Terminals -> [at   : {"idle", "added", "asked", "removing",
                                      "removed"},
                              name : Names \cup {None},
                              seen : Packages \cup {None}]]
<1> DEFINE A == {"idle", "added", "asked", "removing", "removed"}
           N == Names \cup {None}
           P == Packages \cup {None}
<1>1. term \in [Terminals -> [at : A, name : N, seen : P]] /\ "asked" \in A
  BY DEF SystemTypeOK
<1> HIDE DEF A, N, P
<1>2. [term EXCEPT ![x].at = "asked"] \in [Terminals -> [at : A, name : N, seen : P]]
  BY <1>1
<1>3. d \in P
  BY DEF P
<1>4. [term EXCEPT ![x].at = "asked", ![x].seen = d]
        \in [Terminals -> [at : A, name : N, seen : P]]
  BY <1>1, <1>2, <1>3
<1> QED
  BY <1>4 DEF A, N, P

\* Every step keeps the types.
LEMMA TypesStep ==
  ASSUME RegistryTypes, [Next]_vars
  PROVE  RegistryTypes'
<1> USE RegistryAssumption
    DEF RegistryTypes, SystemTypeOK, SessionsOK, Idle, Content, CallStates, files,
        commands, gateway, calls
<1>1. ASSUME NEW x \in Terminals, NEW p \in Packages, TermAdd(x, p)
      PROVE  RegistryTypes'
  BY <1>1 DEF TermAdd, Unpack
<1>2. ASSUME NEW x \in Terminals, NEW n \in Names, TermAsk(x, n)
      PROVE  RegistryTypes'
  BY <1>2 DEF TermAsk, Readable
<1>3. ASSUME NEW x \in Terminals, NEW n \in Names, TermRemove(x, n)
      PROVE  RegistryTypes'
  BY <1>3 DEF TermRemove
<1>4. ASSUME NEW x \in Terminals, TermReview(x)
      PROVE  RegistryTypes'
  <2> USE <1>4 DEF TermReview, Infer
  <2>1. dirs[term[x].name] \in Packages \cup {None}
    OBVIOUS
  <2>2. manifest' \subseteq Names
    OBVIOUS
  <2>3. CASE term' = [term EXCEPT ![x] = Idle]
    BY <2>2, <2>3
  <2>4. CASE term' = [term EXCEPT ![x].at = "asked", ![x].seen = dirs[term[x].name]]
    <3>1. term' \in [Terminals -> [at   : {"idle", "added", "asked", "removing",
                                           "removed"},
                                   name : Names \cup {None},
                                   seen : Packages \cup {None}]]
      BY <2>1, <2>4, AskedSession
    <3>2. \A y \in Terminals : term'[y].at # "idle" => term'[y].name \in Names
      BY <2>4
    <3> QED
      BY <2>2, <3>1, <3>2
  <2> QED
    BY <2>3, <2>4
<1>5. ASSUME NEW x \in Terminals, TermApprove(x)
      PROVE  RegistryTypes'
  BY <1>5 DEF TermApprove
<1>6. ASSUME NEW x \in Terminals, TermRemoveApproval(x)
      PROVE  RegistryTypes'
  BY <1>6 DEF TermRemoveApproval
<1>7. ASSUME NEW x \in Terminals, TermQuit(x)
      PROVE  RegistryTypes'
  BY <1>7 DEF TermQuit
<1>8. ASSUME NEW p \in Packages, Edit(p)
      PROVE  RegistryTypes'
  BY <1>8 DEF Edit
<1>9. CASE Register
  BY <1>9, LoadDescribes DEF Register, Maps, DirType
<1>10. CASE GatewayEnds
  <2> USE <1>10 DEF GatewayEnds
  <2>1. map' \in [direct : [Tools -> Names \cup {None}], wild : Seq(Names)]
    BY DEF EmptyMap
  <2>2. status' \in [Calls -> CallStates]
    OBVIOUS
  <2>3. \A c \in Calls : status'[c] # "prompted"
    OBVIOUS
  <2> QED
    BY <2>1, <2>2, <2>3
<1>11. CASE ChatInfer
  BY <1>11 DEF ChatInfer
<1>12. CASE ChatAddEnds
  BY <1>12 DEF ChatAddEnds, Infer
<1>13. CASE ChatAddSucceeds
  BY <1>13, LoadDescribes DEF ChatAddSucceeds, Maps, DirType
<1>14. CASE ChatTimesOut
  BY <1>14 DEF ChatTimesOut
<1>15. ASSUME NEW p \in Packages, ChatAdd(p)
      PROVE  RegistryTypes'
  BY <1>15 DEF ChatAdd, Unpack
<1>16. ASSUME NEW c \in Calls, Blocked(c)
      PROVE  RegistryTypes'
  BY <1>16 DEF Blocked
<1>17. ASSUME NEW c \in Calls, Passes(c)
      PROVE  RegistryTypes'
  BY <1>17 DEF Passes
<1>18. ASSUME NEW c \in Calls, Prompts(c)
      PROVE  RegistryTypes'
  <2> DEFINE s == Owner(ToolOf[c])
             q == [skill |-> s,
                   what  |-> IF Readable(s) = None THEN Unseen ELSE Readable(s)]
  <2>1. s \in Names
    BY <1>18, OwnerType DEF Prompts
  <2>2. q \in [skill : Names, what : Packages \cup {Unseen}]
    BY <2>1, ReadableType DEF DirType
  <2>3. shown' = [shown EXCEPT ![c] = q] /\ status' = [status EXCEPT ![c] = "prompted"]
    BY <1>18 DEF Prompts
  <2> HIDE DEF q, s
  <2> QED
    BY <1>18, <2>2, <2>3 DEF Prompts
<1>19. ASSUME NEW c \in Calls, Allowed(c)
      PROVE  RegistryTypes'
  BY <1>19 DEF Allowed
<1>20. ASSUME NEW c \in Calls, Denied(c)
      PROVE  RegistryTypes'
  BY <1>20 DEF Denied
<1>21. ASSUME NEW c \in Calls, Runs(c)
      PROVE  RegistryTypes'
  BY <1>21 DEF Runs
<1>22. ASSUME NEW c \in Calls, Ends(c)
      PROVE  RegistryTypes'
  BY <1>22 DEF Ends
<1>23. CASE UNCHANGED vars
  BY <1>23 DEF vars
<1>24. ASSUME NEW x \in Terminals, TermRemoveSkill(x)
      PROVE  RegistryTypes'
  <2> USE <1>24 DEF TermRemoveSkill
  <2>1. term' \in [Terminals -> [at   : {"idle", "added", "asked", "removing",
                                         "removed"},
                                 name : Names \cup {None},
                                 seen : Packages \cup {None}]]
    OBVIOUS
  <2>2. \A y \in Terminals : term'[y].at # "idle" => term'[y].name \in Names
    OBVIOUS
  <2>3. dirs' \in [Names -> Packages \cup {None}] /\ manifest' \subseteq Names
    OBVIOUS
  <2> QED
    BY <2>1, <2>2, <2>3
<1> QED
  BY <1>1, <1>2, <1>3, <1>4, <1>5, <1>6, <1>7, <1>8, <1>9, <1>10, <1>11, <1>12,
     <1>13, <1>14, <1>15, <1>16, <1>17, <1>18, <1>19, <1>20, <1>21, <1>22,
     <1>23, <1>24
     DEF Next, CommandNext, GatewayNext, CallNext

-----------------------------------------------------------------------------
(* What was asked.                                                         *)

\* Everything an open question shows is remembered, and so is what the approval
\* was given for.
AskedInv ==
  /\ DOMAIN asked = Names
  /\ \A n \in Names : Open(n) \subseteq asked[n]
  /\ ApprovalWasShown

\* What is remembered has the type of what is shown.
LEMMA AskedTypeStep ==
  ASSUME RegistryTypes', [Next]_vars, asked \in [Names -> SUBSET Content]
  PROVE  asked' \in [Names -> SUBSET Content]
<1>1. CASE UNCHANGED vars
  BY <1>1 DEF vars
<1>2. ASSUME NEW removed, Remember(removed)
      PROVE  asked' \in [Names -> SUBSET Content]
  <2>1. ASSUME NEW n \in Names
        PROVE  Open(n)' \subseteq Content
    BY DEF Open, RegistryTypes, SystemTypeOK, SessionsOK, Content
  <2> QED
    BY <1>2, <2>1 DEF Remember
<1> QED
  BY <1>1, <1>2 DEF Next

\* A step writes what an open question about the name showed, or deletes.
LEMMA ApprovalStep ==
  ASSUME Tables, CommandNext \/ GatewayNext \/ CallNext, NEW k \in Names
  PROVE  approvals'[k] = approvals[k] \/ approvals'[k] \in Open(k)
<1> DEFINE Kept == approvals'[k] = approvals[k] \/ approvals'[k] \in Open(k)
<1> USE DEF Tables, files, commands, gateway, calls
<1>1. ASSUME NEW x \in Terminals, NEW p \in Packages, TermAdd(x, p)
      PROVE  Kept
  BY <1>1 DEF TermAdd
<1>2. ASSUME NEW x \in Terminals, NEW n \in Names, TermAsk(x, n)
      PROVE  Kept
  BY <1>2 DEF TermAsk
<1>3. ASSUME NEW x \in Terminals, NEW n \in Names, TermRemove(x, n)
      PROVE  Kept
  BY <1>3 DEF TermRemove
<1>4. ASSUME NEW x \in Terminals, TermReview(x)
      PROVE  Kept
  BY <1>4 DEF TermReview, Infer
<1>5. ASSUME NEW x \in Terminals, TermApprove(x)
      PROVE  Kept
  BY <1>5 DEF TermApprove, Open
<1>7. ASSUME NEW x \in Terminals, TermQuit(x)
      PROVE  Kept
  BY <1>7 DEF TermQuit
<1>8. ASSUME NEW p \in Packages, Edit(p)
      PROVE  Kept
  BY <1>8 DEF Edit
<1>9. CASE Register
  BY <1>9 DEF Register
<1>10. CASE GatewayEnds
  BY <1>10 DEF GatewayEnds
<1>11. CASE ChatInfer
  BY <1>11 DEF ChatInfer
<1>12. CASE ChatAddEnds
  BY <1>12 DEF ChatAddEnds, Infer
<1>13. CASE ChatAddSucceeds
  BY <1>13 DEF ChatAddSucceeds
<1>14. CASE ChatTimesOut
  BY <1>14 DEF ChatTimesOut
<1>15. ASSUME NEW p \in Packages, ChatAdd(p)
      PROVE  Kept
  BY <1>15 DEF ChatAdd, Unpack, Free
<1>16. ASSUME NEW c \in Calls, Blocked(c)
      PROVE  Kept
  BY <1>16 DEF Blocked, Free, Callable
<1>17. ASSUME NEW c \in Calls, Passes(c)
      PROVE  Kept
  BY <1>17 DEF Passes, Free, Callable
<1>18. ASSUME NEW c \in Calls, Prompts(c)
      PROVE  Kept
  BY <1>18 DEF Prompts, Free, Callable
<1>19. ASSUME NEW c \in Calls, Allowed(c)
      PROVE  Kept
  BY <1>19 DEF Allowed, Open
<1>20. ASSUME NEW c \in Calls, Denied(c)
      PROVE  Kept
  BY <1>20 DEF Denied, Free
<1>21. ASSUME NEW c \in Calls, Runs(c)
      PROVE  Kept
  BY <1>21 DEF Runs, Free
<1>22. ASSUME NEW c \in Calls, Ends(c)
      PROVE  Kept
  BY <1>22 DEF Ends, Free
<1>23. ASSUME NEW x \in Terminals, TermRemoveSkill(x)
      PROVE  Kept
  BY <1>23 DEF TermRemoveSkill
<1> QED
  BY <1>1, <1>2, <1>3, <1>4, <1>5, <1>7, <1>8, <1>9, <1>10, <1>11, <1>12,
     <1>13, <1>14, <1>15, <1>16, <1>17, <1>18, <1>19, <1>20, <1>21, <1>22,
     <1>23
     DEF CommandNext, GatewayNext, CallNext


\* What is remembered stays enough.
LEMMA AskedStep ==
  ASSUME Tables, AskedInv, [Next]_vars
  PROVE  AskedInv'
<1>1. CASE UNCHANGED vars
  BY <1>1
     DEF AskedInv, ApprovalWasShown, Open, vars, files, commands, gateway, calls
<1>2. ASSUME NEW removed, Remember(removed)
      PROVE  DOMAIN asked' = Names /\ \A n \in Names : Open(n)' \subseteq asked'[n]
  BY <1>2 DEF Remember
<1>3. ASSUME Remember({}), NEW n \in Names, approvals'[n] # None,
             approvals'[n] = approvals[n] \/ approvals'[n] \in Open(n)
      PROVE  approvals'[n] \in asked'[n]
  <2>1. approvals'[n] \in asked[n]
    BY <1>3 DEF AskedInv, ApprovalWasShown
  <2> QED
    BY <1>3, <2>1 DEF Remember
<1>4. CASE (CommandNext \/ GatewayNext \/ CallNext) /\ Remember({})
  <2>1. \A n \in Names : approvals'[n] # None => approvals'[n] \in asked'[n]
    BY <1>3, <1>4, ApprovalStep
  <2> QED
    BY <1>2, <1>4, <2>1 DEF AskedInv, ApprovalWasShown
<1>5. ASSUME NEW x \in Terminals, TermRemoveApproval(x), Remember({term[x].name})
      PROVE  AskedInv'
  <2>1. ASSUME NEW n \in Names, approvals'[n] # None
        PROVE  approvals'[n] \in asked'[n]
    <3>1. n # term[x].name /\ approvals'[n] = approvals[n]
      BY <1>5, <2>1 DEF TermRemoveApproval, Tables
    <3>2. approvals'[n] \in asked[n]
      BY <2>1, <3>1 DEF AskedInv, ApprovalWasShown
    <3> QED
      BY <1>5, <3>1, <3>2 DEF Remember
  <2> QED
    BY <1>2, <1>5, <2>1 DEF AskedInv, ApprovalWasShown
<1> QED
  BY <1>1, <1>4, <1>5 DEF Next

\* The map of a running gateway changes by load() only.
LEMMA ReloadsOnly ==
  ASSUME [Next]_vars, map' # map, up'
  PROVE  map' = Load
BY DEF Next, CommandNext, GatewayNext, CallNext, TermAdd, TermAsk, TermRemove,
       TermRemoveSkill, TermReview, TermApprove, TermRemoveApproval, TermQuit,
       Edit, Register, GatewayEnds, ChatAdd, ChatInfer, ChatAddEnds,
       ChatAddSucceeds, ChatTimesOut, Blocked, Passes, Prompts, Allowed,
       Denied, Runs, Ends, vars, files, commands, gateway, calls

-----------------------------------------------------------------------------
(* The theorems.                                                           *)

\* The invariant holds in every state.
LEMMA RegistryCorrect == Spec => []RegistryInv
<1>1. RegistryInv /\ [Next]_vars => RegistryInv'
  BY TablesStep, MapStep, GatewayStep, RecordsStep DEF RegistryInv
<1> QED
  BY InvInit, <1>1, PTL DEF Spec

\* Until a reload the gate asks about the skill that will run, for any set of
\* skills and whatever load() makes of them (index.ts: getSkill in the gate,
\* getAllMappings for the shadow tools).
THEOREM GateCorrect == Spec => []GateAndRouteAgree
<1>1. RegistryInv => GateAndRouteAgree
  BY RegistryAssumption
     DEF RegistryInv, MapIsRegistered, GateAndRouteAgree, Owner
<1> QED
  BY RegistryCorrect, <1>1, PTL

\* No call is recorded twice and none is forgotten, before a reload and but
\* for tools of the gateway's own that a wildcard claims (index.ts:
\* after_tool_call against the supervisor's own entry).
THEOREM RecordedCorrect == Spec => RecordedOnce
<1> DEFINE Counted ==
      \A c \in Calls :
        LET t == ToolOf[c]
        IN  /\ status[c] = "running" /\ status'[c] = "done"
            /\ ~reloaded
            /\ shadow[t] = None => Owner(t) = None
            => records'[c] = 1
<1>1. ASSUME RegistryInv, [Next]_vars, NEW c \in Calls,
             status[c] = "running", status'[c] = "done", ~reloaded,
             shadow[ToolOf[c]] = None => Owner(ToolOf[c]) = None
      PROVE  records'[c] = 1
  <2>1. Ends(c)
    BY <1>1, RunningEnds DEF RegistryInv
  <2>2. shadow[ToolOf[c]] # None => Owner(ToolOf[c]) # None
    BY <1>1, RegistryAssumption
       DEF RegistryInv, MapIsRegistered, CallsNeedGateway, Owner
  <2>3. records[c] = IF shadow[ToolOf[c]] # None THEN 1 ELSE 0
    BY <1>1 DEF RegistryInv, RecordedAtStart
  <2> QED
    BY <1>1, <2>1, <2>2, <2>3 DEF Ends, RegistryInv, Tables
<1>2. RegistryInv /\ [Next]_vars => [Counted]_vars
  BY <1>1
<1> QED
  BY RegistryCorrect, <1>2, PTL DEF Spec, RecordedOnce

\* For every set of packages, calls and terminals: what an approval file holds
\* was shown in a question about its name that no finished removal came after,
\* but for one that was still open (approval-gate.ts: onResolution; approve.ts;
\* plugin.ts: pluginRemove).
THEOREM ConsentCorrect == Spec => []ApprovalWasShown
<1>1. Init => AskedInv
  BY DEF Init, AskedInv, ApprovalWasShown, Open, Idle
<1>2. AskedInv /\ RegistryInv /\ [Next]_vars => AskedInv'
  BY AskedStep DEF RegistryInv
<1>3. AskedInv => ApprovalWasShown
  BY DEF AskedInv
<1> QED
  BY RegistryCorrect, <1>1, <1>2, <1>3, PTL DEF Spec

\* The types, for every directory of skills: what load() makes of it is a map
\* of tools to skills (skill-map.ts: load; plugin.ts; index.ts).
THEOREM TypesCorrect == Spec => []TypeOK
<1>1. ASSUME Init
      PROVE  RegistryTypes /\ TypeOK
  <2> USE <1>1, RegistryAssumption DEF Init
  <2>1. map \in [direct : [Tools -> Names \cup {None}], wild : Seq(Names)]
    BY DEF EmptyMap
  <2>2. SessionsOK
    BY DEF SessionsOK, Idle
  <2>3. asked \in [Names -> SUBSET Content]
    OBVIOUS
  <2>4. SystemTypeOK
    BY <2>1 DEF SystemTypeOK, Idle, Content, CallStates
  <2> QED
    BY <2>2, <2>3, <2>4 DEF RegistryTypes, TypeOK
<1>2. ASSUME RegistryTypes, TypeOK, [Next]_vars
      PROVE  RegistryTypes' /\ TypeOK'
  <2>1. RegistryTypes'
    BY <1>2, TypesStep
  <2>2. asked' \in [Names -> SUBSET Content]
    BY <1>2, <2>1, AskedTypeStep DEF TypeOK
  <2> QED
    BY <2>1, <2>2 DEF TypeOK, RegistryTypes
<1>3. RegistryTypes /\ TypeOK /\ [Next]_vars => (RegistryTypes /\ TypeOK)'
  BY <1>2
<1> QED
  BY <1>1, <1>3, PTL DEF Spec

\* After every load a tool belongs to the last directory that declares it or,
\* if none does, to the first whose wildcard fits it: for any number of
\* directories, what the loop computes is what the rule says (skill-map.ts:
\* load, getSkill).
THEOREM LoadCorrect == Spec => OwnerIsLastClaim
<1> DEFINE Ruled ==
      map' # map /\ up' =>
        \A t \in Tools :
          LET claims == { n \in Names : /\ Readable(n) # None
                                        /\ Declared(Readable(n)) # AnyTool
                                        /\ t \in Declared(Readable(n)) }
              fits   == { n \in Names : /\ Readable(n) # None
                                        /\ Declared(Readable(n)) = AnyTool
                                        /\ t \in Matches[NameOf[Readable(n)]] }
              owner  == Owner(t)'
          IN  /\ claims # {} =>
                   \E n \in claims : /\ \A k \in claims : k <= n
                                     /\ owner = NameOf[Readable(n)]
              /\ claims = {} /\ fits # {} =>
                   \E n \in fits : /\ \A k \in fits : n <= k
                                   /\ owner = NameOf[Readable(n)]
              /\ claims \cup fits = {} => owner = None
<1>1. ASSUME TypeOK, [Next]_vars, map' # map, up'
      PROVE  map' = Load
  BY <1>1, ReloadsOnly
<1>2. ASSUME TypeOK, map' = Load, NEW t \in Tools
      PROVE  LET claims == Claims(MaxName, t)
                 fits   == Fits(MaxName, t)
                 owner  == Owner(t)'
             IN  /\ claims # {} =>
                      \E n \in claims : /\ \A k \in claims : k <= n
                                        /\ owner = NameOf[Readable(n)]
                 /\ claims = {} /\ fits # {} =>
                      \E n \in fits : /\ \A k \in fits : n <= k
                                      /\ owner = NameOf[Readable(n)]
                 /\ claims \cup fits = {} => owner = None
  <2>0. DirType
    BY <1>2 DEF TypeOK, SystemTypeOK, DirType
  <2>1. map' \in Maps /\ DirectUpTo(map', MaxName) /\ WildUpTo(map', MaxName)
    BY <1>2, <2>0, LoadDescribes
  <2>2. Claims(MaxName, t) \subseteq 0 .. MaxName /\ Fits(MaxName, t) \subseteq Nat
    BY NamesAreNumbers DEF Claims, Fits, Names
  <2>3. Hits(t)' = HitsIn(map'.wild, t)
    BY DEF Hits, HitsIn
  <2>4. ASSUME Claims(MaxName, t) # {}
        PROVE  \E n \in Claims(MaxName, t) :
                  /\ \A k \in Claims(MaxName, t) : k <= n
                  /\ Owner(t)' = NameOf[Readable(n)]
    <3>1. PICK n \in Claims(MaxName, t) : \A k \in Claims(MaxName, t) : k <= n
      BY <2>2, <2>4, NamesAreNumbers, GreatestNumber
    <3>2. n \in Names /\ Readable(n) # None
      BY DEF Claims
    <3>3. map'.direct[t] = NameOf[Readable(n)]
      BY <2>1, <3>1, <3>2 DEF DirectUpTo, Greatest
    <3>4. Owner(t)' = NameOf[Readable(n)]
      BY <2>0, <3>2, <3>3, ReadableType, NamesAreNumbers DEF Owner
    <3> QED
      BY <3>1, <3>4
  <2>5. ASSUME Claims(MaxName, t) = {}
        PROVE  map'.direct[t] = None
    BY <2>1, <2>5 DEF DirectUpTo
  <2>6. ASSUME Claims(MaxName, t) = {}, Fits(MaxName, t) # {}
        PROVE  \E n \in Fits(MaxName, t) :
                  /\ \A k \in Fits(MaxName, t) : n <= k
                  /\ Owner(t)' = NameOf[Readable(n)]
    <3>1. PICK n \in Fits(MaxName, t) : \A k \in Fits(MaxName, t) : n <= k
      BY <2>2, <2>6, LeastNumber
    <3>2. n \in Names
      BY DEF Fits
    <3>3. PICK i \in HitsIn(map'.wild, t) :
             Least(i, HitsIn(map'.wild, t)) /\ map'.wild[i] = NameOf[Readable(n)]
      BY <2>1, <3>1, <3>2 DEF WildUpTo, Least
    <3>4. HitsIn(map'.wild, t) \subseteq Nat
      BY <2>1 DEF HitsIn, Maps
    <3>5. Min(HitsIn(map'.wild, t)) = i
      BY <3>3, <3>4 DEF Min, Least
    <3>6. Owner(t)' = map'.wild[Min(HitsIn(map'.wild, t))]
      BY <2>3, <2>5, <2>6, <3>3 DEF Owner
    <3> QED
      BY <3>1, <3>3, <3>5, <3>6
  <2>7. ASSUME Claims(MaxName, t) = {}, Fits(MaxName, t) = {}
        PROVE  Owner(t)' = None
    BY <2>1, <2>3, <2>5, <2>7 DEF Owner, WildUpTo
  <2> QED
    BY <2>4, <2>6, <2>7
<1>3. /\ \A t : Claims(MaxName, t) =
                  { n \in Names : /\ Readable(n) # None
                                  /\ Declared(Readable(n)) # AnyTool
                                  /\ t \in Declared(Readable(n)) }
      /\ \A t : Fits(MaxName, t) =
                  { n \in Names : /\ Readable(n) # None
                                  /\ Declared(Readable(n)) = AnyTool
                                  /\ t \in Matches[NameOf[Readable(n)]] }
  BY NamesAreNumbers DEF Claims, Fits, Names
<1>4. TypeOK /\ [Next]_vars => [Ruled]_vars
  BY <1>1, <1>2, <1>3
<1> QED
  BY TypesCorrect, <1>4, PTL DEF Spec, OwnerIsLastClaim
==============================================================================
