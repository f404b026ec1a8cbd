------------------------- MODULE DocumentAccessProofs -------------------------
(***************************************************************************)
(* Theorems about DocumentAccess: the types; whoever may open a document   *)
(* finds it on the list; taking something away gives nobody more; an       *)
(* answer put together of several queries errs on the safe side, and what  *)
(* a list says of uploading is what an upload will be answered.            *)
(***************************************************************************)
EXTENDS DocumentAccess, TLAPS

(***************************************************************************)
(* The level for a document grows with the rules and with the facts: this  *)
(* is all that the comparison of two answers rests on.                     *)
(***************************************************************************)
LEMMA LevelGrows ==
  ASSUME NEW R, NEW S, R \subseteq S, NEW F, NEW G, F \subseteq G
  PROVE  LevelIn(R, F) <= LevelIn(S, G)
<1>1. \A r \in R : Matches(r, F) => Matches(r, G)
  BY DEF Matches
<1>2. CASE \E r \in R : r.type = Write /\ Matches(r, F)
  <2>1. \E r \in S : r.type = Write /\ Matches(r, G)
    BY <1>1, <1>2
  <2>2. LevelIn(R, F) = 2
    BY <1>2 DEF LevelIn, Write
  <2>3. LevelIn(S, G) = 2
    BY <2>1 DEF LevelIn, Write
  <2> QED BY <2>2, <2>3
<1>3. CASE (\A r \in R : ~(r.type = Write /\ Matches(r, F))) /\ \E r \in R : Matches(r, F)
  <2>1. \E r \in S : Matches(r, G)
    BY <1>1, <1>3
  <2>2. LevelIn(R, F) = 1
    BY <1>3 DEF LevelIn, Read
  <2>3. LevelIn(S, G) \in {1, 2}
    BY <2>1 DEF LevelIn, Write, Read
  <2> QED BY <2>2, <2>3
<1>4. CASE \A r \in R : ~Matches(r, F)
  BY <1>4 DEF LevelIn, Write, Read, NoAccess
<1> QED BY <1>2, <1>3, <1>4

LEMMA LevelInLevel == ASSUME NEW R, NEW F PROVE LevelIn(R, F) \in Level
BY DEF LevelIn, Level, Write, Read, NoAccess

LEMMA OpenLevelInLevel == ASSUME NEW u, NEW d PROVE OpenLevel(u, d) \in Level
BY LevelInLevel DEF OpenLevel, Level, Write, Read

LEMMA ListLevelInLevel == ASSUME NEW u, NEW d PROVE ListLevel(u, d) \in Level
BY LevelInLevel DEF ListLevel, Level, Write, Read, NoAccess

(***************************************************************************)
(* The types.                                                              *)
(***************************************************************************)
ConfigType ==
  /\ admins \subseteq Users
  /\ member \subseteq Users \X Groups
  /\ rules \in [Rules -> Rule \cup {None}]
  /\ assigned \subseteq LiveRules \X (Users \cup Groups)
  /\ present \subseteq Docs
  /\ facts \in [Docs -> SUBSET Facts]

CallType ==
  /\ pc \in [Calls -> Labels]
  /\ kind \in [Calls -> {"open", "list"}]
  /\ user \in [Calls -> Users \cup {None}]
  /\ doc \in [Calls -> Docs \cup {None}]
  /\ isAdmin \in [Calls -> BOOLEAN] /\ offer \in [Calls -> BOOLEAN]
  /\ groups \in [Calls -> SUBSET Groups]
  /\ mine \in [Calls -> SUBSET Rule]
  /\ listed \in [Calls -> SUBSET Docs]
  /\ seen \in [Calls -> [Docs -> SUBSET Facts]]
  /\ answer \in [Calls -> [Docs -> Level]]

HistoryType ==
  /\ best \in [Calls -> [Docs -> Level]]
  /\ moved \in [Calls -> 0..MaxChanges] /\ changes \in 0..MaxChanges
  /\ \A c \in Calls : moved[c] <= changes

\* TypeOK, and that a call has not seen more changes than there were.
Typed == ConfigType /\ CallType /\ HistoryType

LEMMA TypedInit == Init => Typed
<1> SUFFICES ASSUME Init PROVE Typed
  OBVIOUS
<1>1. ConfigType
  BY DEF Init, ConfigType
<1>2. CallType
  BY DEF Init, CallType, Labels, Level, NoAccess
<1>3. HistoryType
  BY ChangesAssumption DEF Init, HistoryType, Level, NoAccess
<1> QED BY <1>1, <1>2, <1>3 DEF Typed

LEMMA ChangeTyped == ASSUME ConfigType, Change PROVE ConfigType'
<1> USE DEF ConfigType, LiveRules
<1>1. ASSUME NEW r \in Rules, NEW rule \in Rule, CreateRule(r, rule) PROVE ConfigType'
  BY <1>1 DEF CreateRule
<1>2. ASSUME NEW r \in Rules, NEW rule \in Rule, UpdateRule(r, rule) PROVE ConfigType'
  BY <1>2, RuleAssumption DEF UpdateRule
<1>3. ASSUME NEW r \in Rules, DeleteRule(r) PROVE ConfigType'
  BY <1>3 DEF DeleteRule
<1>4. ASSUME NEW r \in Rules, NEW w \in Users \cup Groups, Assign(r, w) \/ Unassign(r, w) PROVE ConfigType'
  BY <1>4 DEF Assign, Unassign
<1>5. ASSUME NEW u \in Users, NEW g \in Groups, JoinGroup(u, g) \/ LeaveGroup(u, g) PROVE ConfigType'
  BY <1>5 DEF JoinGroup, LeaveGroup
<1>6. ASSUME NEW g \in Groups, DeleteGroup(g) PROVE ConfigType'
  BY <1>6 DEF DeleteGroup
<1>7. ASSUME NEW u \in Users, ChangeRole(u) PROVE ConfigType'
  BY <1>7 DEF ChangeRole
<1>8. ASSUME NEW d \in Docs, NEW F \in SUBSET (Facts \ SystemFacts), ChangeValues(d, F) PROVE ConfigType'
  BY <1>8 DEF ChangeValues, InjectedFacts
<1>9. ASSUME NEW d \in Docs, NEW F \in SUBSET SystemFacts, ChangeSystemFields(d, F) \/ AddDoc(d, F)
      PROVE  ConfigType'
  BY <1>9, FactsAssumption DEF ChangeSystemFields, AddDoc, StoredFacts
<1>10. ASSUME NEW d \in Docs, RemoveDoc(d) PROVE ConfigType'
  BY <1>10 DEF RemoveDoc
<1> QED BY <1>1, <1>2, <1>3, <1>4, <1>5, <1>6, <1>7, <1>8, <1>9, <1>10 DEF Change

LEMMA ChangesTyped == ASSUME Typed, Changes PROVE Typed'
<1>1. ConfigType'
  BY ChangeTyped DEF Typed, Changes
<1>2. CallType'
  BY DEF Typed, CallType, Changes, local
<1>3. HistoryType'
  <2>1. \A c \in Calls, d \in Docs : LevelNow(kind[c], user[c], d)' \in Level
    <3> SUFFICES ASSUME NEW c \in Calls, NEW d \in Docs
                 PROVE  LevelNow(kind[c], user[c], d)' \in Level
      OBVIOUS
    <3> DEFINE R == UserRules(user[c], GroupsOf(user[c]))
    <3>1. /\ LevelIn(R', StoredFacts(d)') \in Level
          /\ LevelIn(R', StoredFacts(d)' \cup InjectedFacts(d)') \in Level
      BY LevelInLevel
    <3>2. OpenLevel(user[c], d)' \in Level
      BY <3>1 DEF OpenLevel, Level, Write, Read
    <3>3. ListLevel(user[c], d)' \in Level
      BY <3>1 DEF ListLevel, Level, Write, Read, NoAccess
    <3> QED BY <3>2, <3>3 DEF LevelNow
  <2>2. \A m, n \in Level : Higher(m, n) \in Level
    BY DEF Higher
  <2>3. best' \in [Calls -> [Docs -> Level]]
    BY <2>1, <2>2 DEF Typed, HistoryType, Changes
  <2>4. /\ moved' \in [Calls -> 0..MaxChanges] /\ changes' \in 0..MaxChanges
        /\ \A c \in Calls : moved'[c] <= changes'
    BY ChangesAssumption DEF Typed, HistoryType, Changes
  <2> QED BY <2>3, <2>4 DEF HistoryType
<1> QED BY <1>1, <1>2, <1>3 DEF Typed

LEMMA OpenTyped ==
  ASSUME Typed, NEW c \in Calls, NEW u \in Users, NEW d \in Docs, Open(c, u, d)
  PROVE  Typed'
<1>1. ConfigType'
  BY DEF Typed, ConfigType, LiveRules, Open, config
<1>2. CallType'
  BY DEF Typed, CallType, Open, config, Goto, Labels
<1>3. HistoryType'
  BY OpenLevelInLevel DEF Typed, HistoryType, Open
<1> QED BY <1>1, <1>2, <1>3 DEF Typed

LEMMA ListTyped == ASSUME Typed, NEW c \in Calls, NEW u \in Users, List(c, u) PROVE Typed'
<1>1. ConfigType'
  BY DEF Typed, ConfigType, LiveRules, List, config
<1>2. CallType'
  BY DEF Typed, CallType, List, config, Goto, Labels
<1>3. HistoryType'
  BY ListLevelInLevel DEF Typed, HistoryType, List
<1> QED BY <1>1, <1>2, <1>3 DEF Typed

OutcomeType ==
  /\ pc \in [Calls -> Labels]
  /\ offer \in [Calls -> BOOLEAN]
  /\ answer \in [Calls -> [Docs -> Level]]

LEMMA AnswerTyped ==
  ASSUME Typed, NEW c \in Calls, NEW L \in [Docs -> Level], NEW may \in BOOLEAN, Answer(c, L, may)
  PROVE  OutcomeType'
<1>1. pc' \in [Calls -> Labels]
  BY DEF Typed, CallType, Answer, Goto, Labels
<1>2. offer' \in [Calls -> BOOLEAN]
  BY DEF Typed, CallType, Answer
<1>3. answer' \in [Calls -> [Docs -> Level]]
  BY DEF Typed, CallType, Answer, Level, NoAccess
<1> QED BY <1>1, <1>2, <1>3 DEF OutcomeType

LEMMA GoesOn ==
  ASSUME Typed, NEW c \in Calls, NEW l \in Labels, Goto(c, l), UNCHANGED <<answer, offer>>
  PROVE  OutcomeType'
BY DEF Typed, CallType, OutcomeType, Goto

LEMMA OutcomeTyped == ASSUME Typed, NEW c \in Calls, Step(c) PROVE OutcomeType'
<1>1. [d \in Docs |-> Write] \in [Docs -> Level] /\ [d \in Docs |-> Read] \in [Docs -> Level]
      /\ [d \in Docs |-> NoAccess] \in [Docs -> Level]
  BY DEF Level, Write, Read, NoAccess
<1>2. {"count", "files", "values", "rules", "facts", "done"} \subseteq Labels
  BY DEF Labels
<1>3. ASSUME ReadGroups(c) PROVE OutcomeType'
  <2>1. CASE Answer(c, [d \in Docs |-> Write], FALSE)
    BY <1>1, <2>1, AnswerTyped
  <2>2. CASE Goto(c, IF kind[c] = "open" THEN "count" ELSE "files") /\ UNCHANGED <<answer, offer>>
    BY <1>2, <2>2, GoesOn
  <2> QED BY <1>3, <2>1, <2>2 DEF ReadGroups
<1>4. ASSUME ReadFiles(c) PROVE OutcomeType'
  <2>1. pc' \in [Calls -> Labels]
    <3>1. Goto(c, "done") \/ Goto(c, "values")
      BY <1>4 DEF ReadFiles
    <3> QED BY <3>1 DEF Typed, CallType, Goto, Labels
  <2>2. offer' \in [Calls -> BOOLEAN]
    BY <1>4 DEF ReadFiles, Typed, CallType
  <2>3. answer' \in [Calls -> [Docs -> Level]]
    BY <1>1, <1>4 DEF ReadFiles, Typed, CallType
  <2> QED BY <2>1, <2>2, <2>3 DEF OutcomeType
<1>5. ASSUME ReadValues(c) PROVE OutcomeType'
  <2>1. CASE Answer(c, [d \in Docs |-> Write], TRUE)
    BY <1>1, <2>1, AnswerTyped
  <2>2. CASE Goto(c, "count") /\ UNCHANGED <<answer, offer>>
    BY <1>2, <2>2, GoesOn
  <2> QED BY <1>5, <2>1, <2>2 DEF ReadValues
<1>6. ASSUME CountRules(c) PROVE OutcomeType'
  <2>1. CASE Answer(c, [d \in Docs |-> Read], FALSE)
    BY <1>1, <2>1, AnswerTyped
  <2>2. CASE Goto(c, "rules") /\ UNCHANGED <<answer, offer>>
    BY <1>2, <2>2, GoesOn
  <2> QED BY <1>6, <2>1, <2>2 DEF CountRules
<1>7. ASSUME ReadRules(c) PROVE OutcomeType'
  <2> DEFINE R == UserRules(user[c], groups[c])
             L == [d \in Docs |-> LevelIn(R, seen[c][d])]
             may == \E r \in R : r.type = Write
  <2>1. CASE Answer(c, [d \in Docs |-> NoAccess], FALSE)
    BY <1>1, <2>1, AnswerTyped
  <2>2. CASE Answer(c, L, may)
    <3>1. L \in [Docs -> Level] /\ may \in BOOLEAN
      BY LevelInLevel
    <3> HIDE DEF L, may
    <3> QED BY <2>2, <3>1, AnswerTyped
  <2>3. CASE Goto(c, "facts") /\ UNCHANGED <<answer, offer>>
    BY <1>2, <2>3, GoesOn
  <2> QED BY <1>7, <2>1, <2>2, <2>3 DEF ReadRules
<1>8. ASSUME ReadFacts(c) PROVE OutcomeType'
  <2> DEFINE L == [d \in Docs |-> LevelIn(mine[c], StoredFacts(d))]
  <2>1. L \in [Docs -> Level]
    BY LevelInLevel
  <2>2. Answer(c, L, FALSE)
    BY <1>8 DEF ReadFacts
  <2> HIDE DEF L
  <2> QED BY <2>1, <2>2, AnswerTyped
<1> QED BY <1>3, <1>4, <1>5, <1>6, <1>7, <1>8 DEF Step

LEMMA StepTyped == ASSUME Typed, NEW c \in Calls, Step(c) PROVE Typed'
<1>1. UNCHANGED <<config, best, moved, changes, kind, user, doc, isAdmin>>
  BY DEF Step, ReadGroups, ReadFiles, ReadValues, CountRules, ReadRules, ReadFacts
<1>2. ConfigType' /\ HistoryType'
  BY <1>1 DEF Typed, ConfigType, HistoryType, LiveRules, config
<1>3. groups' \in [Calls -> SUBSET Groups]
  <2>1. GroupsOf(user[c]) \in SUBSET Groups
    BY DEF GroupsOf
  <2>2. groups' = groups \/ groups' = [groups EXCEPT ![c] = GroupsOf(user[c])]
    BY DEF Step, ReadGroups, ReadFiles, ReadValues, CountRules, ReadRules, ReadFacts
  <2> QED BY <2>1, <2>2 DEF Typed, CallType
<1>4. mine' \in [Calls -> SUBSET Rule]
  <2>1. UserRules(user[c], groups[c]) \in SUBSET Rule
    BY DEF UserRules, LiveRules, Typed, ConfigType
  <2>2. mine' = mine \/ mine' = [mine EXCEPT ![c] = UserRules(user[c], groups[c])]
    BY DEF Step, ReadGroups, ReadFiles, ReadValues, CountRules, ReadRules, ReadFacts
  <2> QED BY <2>1, <2>2 DEF Typed, CallType
<1>5. listed' \in [Calls -> SUBSET Docs]
  <2>1. listed' = listed \/ listed' = [listed EXCEPT ![c] = present]
    BY DEF Step, ReadGroups, ReadFiles, ReadValues, CountRules, ReadRules, ReadFacts
  <2> QED BY <2>1 DEF Typed, ConfigType, CallType
<1>6. seen' \in [Calls -> [Docs -> SUBSET Facts]]
  <2>1. \A d \in Docs : InjectedFacts(d) \subseteq Facts /\ StoredFacts(d) \subseteq Facts
    BY DEF Typed, ConfigType, InjectedFacts, StoredFacts
  <2>2. \A d \in Docs : seen[c][d] \cup StoredFacts(d) \in SUBSET Facts
    BY <2>1 DEF Typed, CallType
  <2>3. \/ seen' = seen
        \/ seen' = [seen EXCEPT ![c] = [d \in Docs |-> IF d \in present THEN InjectedFacts(d) ELSE {}]]
        \/ seen' = [seen EXCEPT ![c] =
             [d \in Docs |-> IF d \in listed[c] THEN seen[c][d] \cup StoredFacts(d) ELSE {}]]
    BY DEF Step, ReadGroups, ReadFiles, ReadValues, CountRules, ReadRules, ReadFacts
  <2>4. /\ [d \in Docs |-> IF d \in present THEN InjectedFacts(d) ELSE {}] \in [Docs -> SUBSET Facts]
        /\ [d \in Docs |-> IF d \in listed[c] THEN seen[c][d] \cup StoredFacts(d) ELSE {}]
             \in [Docs -> SUBSET Facts]
    BY <2>1, <2>2
  <2>5. seen \in [Calls -> [Docs -> SUBSET Facts]]
    BY DEF Typed, CallType
  <2> QED BY <2>3, <2>4, <2>5
<1> QED BY <1>1, <1>2, <1>3, <1>4, <1>5, <1>6, OutcomeTyped DEF Typed, CallType, OutcomeType

\* Every variable keeps its type; in particular no assignment outlives its rule.
THEOREM TypeCorrect == Spec => []TypeOK
<1>1. Typed /\ [Next]_vars => Typed'
  <2> SUFFICES ASSUME Typed, [Next]_vars PROVE Typed'
    OBVIOUS
  <2>1. CASE UNCHANGED vars
    BY <2>1 DEF vars, Typed, ConfigType, CallType, HistoryType, LiveRules
  <2>2. CASE Next
    <3>1. ASSUME NEW c \in Calls, NEW u \in Users, NEW d \in Docs, Open(c, u, d) PROVE Typed'
      BY <3>1, OpenTyped
    <3>2. ASSUME NEW c \in Calls, NEW u \in Users, List(c, u) PROVE Typed'
      BY <3>2, ListTyped
    <3>3. ASSUME NEW c \in Calls, Step(c) PROVE Typed'
      BY <3>3, StepTyped
    <3>4. ASSUME Changes PROVE Typed'
      BY <3>4, ChangesTyped
    <3> QED BY <2>2, <3>1, <3>2, <3>3, <3>4 DEF Next
  <2> QED BY <2>1, <2>2
<1>2. Typed => TypeOK
  BY DEF Typed, ConfigType, CallType, HistoryType, TypeOK
<1> QED BY <1>1, <1>2, TypedInit, PTL DEF Spec

(***************************************************************************)
(* Open and list.                                                          *)
(***************************************************************************)

\* canUserAccessFileByMetadata never answers more than
\* getAccessibleFileIdsWithLevels, whatever the rules, groups and documents are:
\* the list matches the same rules against more facts.
THEOREM OpenListed == Spec => []OpenImpliesListed
<1>1. OpenImpliesListed
  <2> SUFFICES ASSUME NEW u \in Users, NEW d \in present
               PROVE  OpenLevel(u, d) <= ListLevel(u, d)
    BY DEF OpenImpliesListed
  <2>1. LevelIn(UserRules(u, GroupsOf(u)), StoredFacts(d))
          <= LevelIn(UserRules(u, GroupsOf(u)), StoredFacts(d) \cup InjectedFacts(d))
    BY LevelGrows
  <2> QED BY <2>1 DEF OpenLevel, ListLevel, Write, Read
<1> QED BY <1>1, PTL

(***************************************************************************)
(* Taking something away.                                                  *)
(***************************************************************************)
Narrowing ==
  /\ admins' \subseteq admins /\ member' \subseteq member /\ assigned' \subseteq assigned
  /\ \A r \in Rules : rules'[r] \in {rules[r], None}
  /\ LiveRules' # {} /\ UNCHANGED <<present, facts>>

LEMMA RulesNarrow ==
  ASSUME Narrowing, NEW u
  PROVE  UserRules(u, GroupsOf(u))' \subseteq UserRules(u, GroupsOf(u))
<1> SUFFICES ASSUME NEW r \in Rules, rules'[r] # None,
                    NEW w \in {u} \cup GroupsOf(u)', <<r, w>> \in assigned'
             PROVE  rules'[r] \in UserRules(u, GroupsOf(u))
  BY DEF UserRules, LiveRules
<1>1. rules'[r] = rules[r]
  BY DEF Narrowing
<1>2. w \in {u} \cup GroupsOf(u) /\ <<r, w>> \in assigned
  BY DEF Narrowing, GroupsOf
<1> QED BY <1>1, <1>2 DEF UserRules, LiveRules

LEMMA LevelsNarrow ==
  ASSUME Narrowing, NEW u \in Users, NEW d \in Docs
  PROVE  OpenLevel(u, d)' <= OpenLevel(u, d) /\ ListLevel(u, d)' <= ListLevel(u, d)
<1> DEFINE R == UserRules(u, GroupsOf(u))
           F == StoredFacts(d)
           G == StoredFacts(d) \cup InjectedFacts(d)
<1>1. R' \subseteq R
  BY RulesNarrow
<1>2. F' = F /\ G' = G /\ (d \in present' <=> d \in present)
  BY DEF Narrowing, StoredFacts, InjectedFacts
<1>3. LevelIn(R', F') <= LevelIn(R, F) /\ LevelIn(R', G') <= LevelIn(R, G)
  BY <1>1, <1>2, LevelGrows
<1>4. LiveRules # {} /\ LiveRules' # {} /\ (u \in admins' => u \in admins)
  BY DEF Narrowing, LiveRules
<1>5. CASE u \in admins
  <2>1. OpenLevel(u, d) = 2 /\ ListLevel(u, d) = IF d \in present THEN 2 ELSE 0
    BY <1>5 DEF OpenLevel, ListLevel, Write, NoAccess
  <2>2. OpenLevel(u, d)' \in Level /\ ListLevel(u, d)' \in IF d \in present THEN Level ELSE {0}
    <3>1. LevelIn(R', F') \in Level /\ LevelIn(R', G') \in Level
      BY LevelInLevel
    <3> QED BY <1>2, <3>1 DEF OpenLevel, ListLevel, Level, Write, Read, NoAccess
  <2> QED BY <2>1, <2>2 DEF Level
<1>6. CASE u \notin admins
  <2>1. OpenLevel(u, d) = LevelIn(R, F) /\ ListLevel(u, d) = IF d \in present THEN LevelIn(R, G) ELSE 0
    BY <1>4, <1>6 DEF OpenLevel, ListLevel, NoAccess
  <2>2. /\ OpenLevel(u, d)' = LevelIn(R', F')
        /\ ListLevel(u, d)' = IF d \in present THEN LevelIn(R', G') ELSE 0
    BY <1>2, <1>4, <1>6 DEF OpenLevel, ListLevel, NoAccess
  <2> QED BY <1>3, <2>1, <2>2
<1> QED BY <1>5, <1>6

\* Deleting a rule that is not the last one, an assignment, a membership, a group
\* or the role of an administrator widens nobody's access.
THEOREM RevocationsNarrow == Spec => RevocationNarrows
<1>1. Narrowing => \A u \in Users, d \in Docs : /\ OpenLevel(u, d)' <= OpenLevel(u, d)
                                                /\ ListLevel(u, d)' <= ListLevel(u, d)
  BY LevelsNarrow
<1> QED BY <1>1, PTL DEF RevocationNarrows, Narrowing

(***************************************************************************)
(* What a call answers.                                                    *)
(*                                                                         *)
(* The answer that a call is heading for can be told at every await: it    *)
(* follows from what the call has read and from what there is.  A step of  *)
(* the call leaves it as it is.  A change alters one thing the queries     *)
(* read, so that for the first change of a call it becomes either what it  *)
(* was, which was right before, or what is right now.                      *)
(***************************************************************************)

\* The level of access to a document, if there is one, of somebody with the rules
\* R, in a company that has rules (live), for the facts F.
LevelOf(there, adm, live, R, F) ==
  IF ~there THEN NoAccess ELSE IF adm THEN Write ELSE IF ~live THEN Read ELSE LevelIn(R, F)

LEMMA LevelOfGrows ==
  ASSUME NEW there, NEW there2, there => there2,
         NEW adm, NEW adm2, adm => adm2,
         NEW R, NEW S, R \subseteq S, NEW F, NEW G, F \subseteq G,
         NEW live, NEW live2, (live <=> live2) \/ (live /\ R = {})
  PROVE  LevelOf(there, adm, live, R, F) <= LevelOf(there2, adm2, live2, S, G)
<1>1. LevelIn(R, F) <= LevelIn(S, G)
  BY LevelGrows
<1>2. LevelIn(R, F) \in Level /\ LevelIn(S, G) \in Level
  BY LevelInLevel
<1>3. R = {} => LevelIn(R, F) = 0
  BY DEF LevelIn, NoAccess
<1>4. CASE ~there \/ adm2
  BY <1>2, <1>4 DEF LevelOf, Level, NoAccess, Read, Write
<1>5. CASE there /\ ~adm2
  BY <1>1, <1>2, <1>3, <1>5 DEF LevelOf, Level, NoAccess, Read, Write
<1> QED BY <1>4, <1>5

LEMMA LevelOfLevel ==
  ASSUME NEW there, NEW adm, NEW live, NEW R, NEW F
  PROVE  LevelOf(there, adm, live, R, F) \in Level
BY LevelInLevel DEF LevelOf, Level, NoAccess, Read, Write

\* What a call has read, or is about to read.
MyGroups(c) == IF pc[c] = "groups" THEN GroupsOf(user[c]) ELSE groups[c]
MyRules(c) == IF pc[c] = "facts" THEN mine[c] ELSE UserRules(user[c], MyGroups(c))
HasRules(c) == pc[c] \in {"rules", "facts"} \/ LiveRules # {}
MyDocs(c) ==
  IF kind[c] = "open" THEN {doc[c]} ELSE IF pc[c] \in {"groups", "files"} THEN present ELSE listed[c]
MyFacts(c, d) ==
  IF kind[c] = "open" THEN StoredFacts(d)
  ELSE IF pc[c] \in {"groups", "files"} THEN InjectedFacts(d) \cup StoredFacts(d)
  ELSE IF pc[c] = "values" THEN seen[c][d] \cup StoredFacts(d)
  ELSE seen[c][d]

\* What the call is going to answer for d, should nothing change any more.
WouldAnswer(c, d) == LevelOf(d \in MyDocs(c), isAdmin[c], HasRules(c), MyRules(c), MyFacts(c, d))

\* The order of the queries.
Staged(c) ==
  /\ kind[c] = "open" => pc[c] \notin {"files", "values"}
  /\ kind[c] = "list" => pc[c] # "facts"
  /\ Active(c) /\ isAdmin[c] => pc[c] \in {"groups", "files", "values"}
  /\ Active(c) => user[c] \in Users
  /\ Active(c) /\ kind[c] = "open" => doc[c] \in Docs

\* What a call has read of a company that nobody has changed since it began is
\* what there is.
Undisturbed(c) ==
  Active(c) /\ moved[c] = 0 =>
    /\ isAdmin[c] <=> user[c] \in admins
    /\ pc[c] # "groups" => groups[c] = GroupsOf(user[c])
    /\ pc[c] \in {"rules", "facts"} => LiveRules # {}
    /\ pc[c] = "facts" => mine[c] = UserRules(user[c], groups[c])
    /\ kind[c] = "list" /\ pc[c] \notin {"groups", "files"} =>
         /\ listed[c] = present /\ present # {}
         /\ \A d \in present : seen[c][d] = InjectedFacts(d) \cup
                                 (IF pc[c] = "values" THEN {} ELSE StoredFacts(d))

\* A call that has seen one change at most is heading for levels the user has had.
Bounded(c) == Active(c) /\ moved[c] <= 1 => \A d \in Docs : WouldAnswer(c, d) <= best[c][d]

Answered(c) ==
  pc[c] = "done" =>
    /\ moved[c] <= 1 => \A d \in Docs : answer[c][d] <= best[c][d]
    /\ kind[c] = "list" /\ moved[c] = 0 /\ present # {} => (offer[c] <=> MayUpload(user[c]))

CallInv(c) == Staged(c) /\ Undisturbed(c) /\ Bounded(c) /\ Answered(c)

AccessInv == Typed /\ \A c \in Calls : CallInv(c)

LEMMA AccessInit == Init => AccessInv
BY TypedInit DEF Init, AccessInv, CallInv, Staged, Undisturbed, Bounded, Answered, Active

\* What one call does leaves the others as they are.
OthersKept(c) ==
  /\ UNCHANGED <<config, moved>>
  /\ \A e \in Calls \ {c} :
       /\ pc'[e] = pc[e] /\ kind'[e] = kind[e] /\ user'[e] = user[e] /\ doc'[e] = doc[e]
       /\ isAdmin'[e] = isAdmin[e] /\ groups'[e] = groups[e] /\ mine'[e] = mine[e]
       /\ listed'[e] = listed[e] /\ seen'[e] = seen[e] /\ answer'[e] = answer[e]
       /\ offer'[e] = offer[e] /\ best'[e] = best[e]

LEMMA OthersInv ==
  ASSUME AccessInv, NEW c \in Calls, OthersKept(c), NEW e \in Calls \ {c}
  PROVE  CallInv(e)'
<1>1. CallInv(e)
  BY DEF AccessInv
<1>2. /\ LiveRules' = LiveRules
      /\ \A u : GroupsOf(u)' = GroupsOf(u)
      /\ \A d : InjectedFacts(d)' = InjectedFacts(d) /\ StoredFacts(d)' = StoredFacts(d)
      /\ \A u : MayUpload(u)' = MayUpload(u)
      /\ \A u, G : UserRules(u, G)' = UserRules(u, G)
  BY DEF OthersKept, config, LiveRules, GroupsOf, InjectedFacts, StoredFacts, MayUpload, UserRules
<1>3. \A d \in Docs : WouldAnswer(e, d)' = WouldAnswer(e, d)
  BY <1>2 DEF OthersKept, config, WouldAnswer, MyDocs, HasRules, MyRules, MyFacts, MyGroups
<1>4. Staged(e)'
  BY <1>1 DEF CallInv, Staged, Active, OthersKept
<1>5. Undisturbed(e)'
  BY <1>1, <1>2 DEF CallInv, Undisturbed, Active, OthersKept, config
<1>6. Bounded(e)'
  BY <1>1, <1>3 DEF CallInv, Bounded, Active, OthersKept
<1>7. Answered(e)'
  BY <1>1, <1>2 DEF CallInv, Answered, OthersKept, config
<1> QED BY <1>4, <1>5, <1>6, <1>7 DEF CallInv

LEMMA OpenInv ==
  ASSUME AccessInv, NEW c \in Calls, NEW u \in Users, NEW d \in Docs, Open(c, u, d)
  PROVE  AccessInv'
<1>1. Typed'
  BY OpenTyped DEF AccessInv
<1>2. OthersKept(c)
  BY DEF Open, OthersKept, AccessInv, Typed, CallType, HistoryType, Goto
<1>3. /\ pc'[c] = "groups" /\ kind'[c] = "open" /\ user'[c] = u /\ doc'[c] = d
      /\ isAdmin'[c] = (u \in admins') /\ best'[c] = [e \in Docs |-> OpenLevel(u, e)']
  BY DEF Open, AccessInv, Typed, CallType, HistoryType, Goto, config, OpenLevel, UserRules,
         GroupsOf, LiveRules, StoredFacts
<1>4. ASSUME NEW e \in Docs PROVE WouldAnswer(c, e)' <= best'[c][e]
  <2> DEFINE R == UserRules(u, GroupsOf(u))
             F == StoredFacts(e)
  <2>1. WouldAnswer(c, e)' = LevelOf(e \in {d}, u \in admins', LiveRules' # {}, R', F')
    BY <1>3 DEF WouldAnswer, MyDocs, HasRules, MyRules, MyFacts, MyGroups
  <2>2. OpenLevel(u, e)' = LevelOf(TRUE, u \in admins', LiveRules' # {}, R', F')
    BY DEF OpenLevel, LevelOf
  <2>3. best'[c][e] = OpenLevel(u, e)'
    BY <1>3
  <2> HIDE DEF R, F
  <2> QED BY <2>1, <2>2, <2>3, LevelOfGrows
<1>5. CallInv(c)'
  BY <1>3, <1>4 DEF CallInv, Staged, Undisturbed, Bounded, Answered, Active
<1> QED BY <1>1, <1>2, <1>5, OthersInv DEF AccessInv

LEMMA ListInv ==
  ASSUME AccessInv, NEW c \in Calls, NEW u \in Users, List(c, u)
  PROVE  AccessInv'
<1>1. Typed'
  BY ListTyped DEF AccessInv
<1>2. OthersKept(c)
  BY DEF List, OthersKept, AccessInv, Typed, CallType, HistoryType, Goto
<1>3. /\ pc'[c] = "groups" /\ kind'[c] = "list" /\ user'[c] = u
      /\ isAdmin'[c] = (u \in admins') /\ best'[c] = [e \in Docs |-> ListLevel(u, e)']
  BY DEF List, AccessInv, Typed, CallType, HistoryType, Goto, config, ListLevel, UserRules,
         GroupsOf, LiveRules, StoredFacts, InjectedFacts
<1>4. ASSUME NEW e \in Docs PROVE WouldAnswer(c, e)' <= best'[c][e]
  <2> DEFINE R == UserRules(u, GroupsOf(u))
             F == StoredFacts(e)
             I == InjectedFacts(e)
  <2>1. WouldAnswer(c, e)' = LevelOf(e \in present', u \in admins', LiveRules' # {}, R', I' \cup F')
    BY <1>3 DEF WouldAnswer, MyDocs, HasRules, MyRules, MyFacts, MyGroups
  <2>2. ListLevel(u, e)' = LevelOf(e \in present', u \in admins', LiveRules' # {}, R', F' \cup I')
    BY DEF ListLevel, LevelOf
  <2>3. best'[c][e] = ListLevel(u, e)'
    BY <1>3
  <2> HIDE DEF R, F, I
  <2> QED BY <2>1, <2>2, <2>3, LevelOfGrows
<1>5. CallInv(c)'
  BY <1>3, <1>4 DEF CallInv, Staged, Undisturbed, Bounded, Answered, Active
<1> QED BY <1>1, <1>2, <1>5, OthersInv DEF AccessInv

\* A step of a call does not change what the call is heading for, and at the end
\* it answers that.
HeadsOn(c) ==
  \A d \in Docs : IF pc'[c] = "done" THEN answer'[c][d] <= WouldAnswer(c, d)
                                     ELSE WouldAnswer(c, d)' <= WouldAnswer(c, d)

LEMMA AnswerHeads ==
  ASSUME AccessInv, NEW c \in Calls, NEW L, NEW may \in BOOLEAN, Answer(c, L, may),
         Asked(c) \subseteq MyDocs(c),
         \A d \in Asked(c) : L[d] <= WouldAnswer(c, d)
  PROVE  HeadsOn(c)
<1>1. pc'[c] = "done" /\ answer'[c] = [d \in Docs |-> IF d \in Asked(c) THEN L[d] ELSE NoAccess]
  BY DEF AccessInv, Typed, CallType, Answer, Goto
<1>2. \A d \in Docs : WouldAnswer(c, d) \in Level
  BY LevelOfLevel DEF WouldAnswer
<1> QED BY <1>1, <1>2 DEF HeadsOn, NoAccess, Level

LEMMA ConfigKept ==
  ASSUME UNCHANGED config
  PROVE  /\ LiveRules' = LiveRules
         /\ \A u : GroupsOf(u)' = GroupsOf(u) /\ MayUpload(u)' = MayUpload(u)
         /\ \A d : InjectedFacts(d)' = InjectedFacts(d) /\ StoredFacts(d)' = StoredFacts(d)
         /\ \A u, G : UserRules(u, G)' = UserRules(u, G)
BY DEF config, LiveRules, GroupsOf, InjectedFacts, StoredFacts, MayUpload, UserRules

LEMMA StepOthers == ASSUME AccessInv, NEW c \in Calls, Step(c) PROVE OthersKept(c)
<1>1. ReadGroups(c) => OthersKept(c)
  BY DEF AccessInv, Typed, CallType, HistoryType, OthersKept, ReadGroups, Answer, Goto
<1>2. ReadFiles(c) => OthersKept(c)
  BY DEF AccessInv, Typed, CallType, HistoryType, OthersKept, ReadFiles, Goto
<1>3. ReadValues(c) => OthersKept(c)
  BY DEF AccessInv, Typed, CallType, HistoryType, OthersKept, ReadValues, Answer, Goto
<1>4. CountRules(c) => OthersKept(c)
  BY DEF AccessInv, Typed, CallType, HistoryType, OthersKept, CountRules, Answer, Goto
<1>5. ReadRules(c) => OthersKept(c)
  BY DEF AccessInv, Typed, CallType, HistoryType, OthersKept, ReadRules, Answer, Goto
<1>6. ReadFacts(c) => OthersKept(c)
  BY DEF AccessInv, Typed, CallType, HistoryType, OthersKept, ReadFacts, Answer, Goto
<1> QED BY <1>1, <1>2, <1>3, <1>4, <1>5, <1>6 DEF Step

\* What is left to show of a step, given how it heads on.
LEMMA StepInv ==
  ASSUME AccessInv, NEW c \in Calls, Step(c), HeadsOn(c),
         Staged(c)', Undisturbed(c)',
         pc'[c] = "done" /\ kind[c] = "list" /\ moved[c] = 0 /\ present # {} =>
           (offer'[c] <=> MayUpload(user[c]))
  PROVE  AccessInv'
<1>1. Typed'
  BY StepTyped DEF AccessInv
<1>2. OthersKept(c)
  BY StepOthers
<1>3. Active(c) /\ UNCHANGED <<config, best, moved, kind, user>>
  BY DEF Step, ReadGroups, ReadFiles, ReadValues, CountRules, ReadRules, ReadFacts, Active
<1>4. \A d \in Docs : moved[c] <= 1 => WouldAnswer(c, d) <= best[c][d]
  BY <1>3 DEF AccessInv, CallInv, Bounded
<1>5. \A d \in Docs : /\ WouldAnswer(c, d) \in Level /\ best[c][d] \in Level
                      /\ WouldAnswer(c, d)' \in Level /\ answer'[c][d] \in Level
  BY <1>1, LevelOfLevel DEF AccessInv, Typed, CallType, HistoryType, WouldAnswer
<1>6. Bounded(c)'
  BY <1>3, <1>4, <1>5 DEF Bounded, HeadsOn, Active, Level
<1>7. MayUpload(user[c])' = MayUpload(user[c])
  BY <1>3, ConfigKept
<1>8. Answered(c)'
  BY <1>3, <1>4, <1>5, <1>7 DEF Answered, HeadsOn, Level, config
<1> QED BY <1>1, <1>2, <1>6, <1>8, OthersInv DEF AccessInv, CallInv

LEMMA GroupsInv == ASSUME AccessInv, NEW c \in Calls, ReadGroups(c) PROVE AccessInv'
<1> USE DEF ReadGroups
<1>1. UNCHANGED config /\ CallInv(c) /\ pc[c] = "groups" /\ kind[c] \in {"open", "list"}
  BY DEF AccessInv, Typed, CallType
<1>2. groups'[c] = GroupsOf(user[c])
  BY DEF AccessInv, Typed, CallType
<1>3. CASE kind[c] = "open" /\ isAdmin[c]
  <2>1. Answer(c, [d \in Docs |-> Write], FALSE)
    BY <1>3
  <2>2. doc[c] \in Docs
    BY <1>1, <1>3 DEF CallInv, Staged, Active
  <2>3. HeadsOn(c)
    <3>1. Asked(c) = {doc[c]} /\ MyDocs(c) = {doc[c]}
      BY <1>3 DEF Asked, MyDocs
    <3>2. WouldAnswer(c, doc[c]) = 2
      BY <1>3, <3>1 DEF WouldAnswer, LevelOf, Write
    <3> DEFINE L == [d \in Docs |-> Write]
    <3>3. L[doc[c]] = 2
      BY <2>2 DEF Write
    <3>4. Answer(c, L, FALSE)
      BY <2>1
    <3>5. \A d \in Asked(c) : L[d] <= WouldAnswer(c, d)
      BY <3>1, <3>2, <3>3
    <3> HIDE DEF L
    <3> QED BY <3>1, <3>4, <3>5, AnswerHeads
  <2>4. pc'[c] = "done" /\ kind'[c] = "open"
    BY <1>3, <2>1 DEF Answer, Goto, AccessInv, Typed, CallType
  <2>5. Staged(c)' /\ Undisturbed(c)'
    BY <2>4 DEF Staged, Undisturbed, Active
  <2>6. Step(c)
    BY DEF Step
  <2> HIDE DEF ReadGroups
  <2> QED BY <1>3, <2>3, <2>5, <2>6, StepInv
<1>4. CASE ~(kind[c] = "open" /\ isAdmin[c])
  <2>1. pc'[c] = IF kind[c] = "open" THEN "count" ELSE "files"
    BY <1>4 DEF Goto, AccessInv, Typed, CallType
  <2>2. UNCHANGED <<kind, user, doc, isAdmin, seen, listed, mine, moved>>
    OBVIOUS
  <2>3. HeadsOn(c)
    <3>1. ASSUME NEW d \in Docs PROVE WouldAnswer(c, d)' = WouldAnswer(c, d)
      BY <1>1, <1>2, <2>1, <2>2, ConfigKept
         DEF WouldAnswer, MyDocs, HasRules, MyRules, MyFacts, MyGroups, config
    <3>2. \A d \in Docs : WouldAnswer(c, d) \in Level
      BY LevelOfLevel DEF WouldAnswer
    <3> QED BY <2>1, <3>1, <3>2 DEF HeadsOn, Level
  <2>4. Staged(c)'
    BY <1>1, <1>4, <2>1, <2>2 DEF CallInv, Staged, Active
  <2>5. Undisturbed(c)'
    BY <1>1, <1>2, <2>1, <2>2, ConfigKept DEF CallInv, Undisturbed, Active, config
  <2> QED BY <1>1, <2>1, <2>3, <2>4, <2>5, StepInv DEF Step
<1> QED BY <1>3, <1>4

LEMMA FilesInv == ASSUME AccessInv, NEW c \in Calls, ReadFiles(c) PROVE AccessInv'
<1> USE DEF ReadFiles
<1>1. UNCHANGED config /\ CallInv(c) /\ pc[c] = "files" /\ kind[c] = "list"
  BY DEF AccessInv, Typed, CallType, CallInv, Staged
<1>2. /\ listed'[c] = present
      /\ seen'[c] = [d \in Docs |-> IF d \in present THEN InjectedFacts(d) ELSE {}]
  BY DEF AccessInv, Typed, CallType
<1>3. UNCHANGED <<kind, user, doc, isAdmin, groups, mine, moved>>
  OBVIOUS
<1>4. CASE present = {}
  <2>1. pc'[c] = "done" /\ answer'[c] = [d \in Docs |-> NoAccess]
    BY <1>4 DEF Goto, AccessInv, Typed, CallType
  <2>2. HeadsOn(c)
    <3>1. \A d \in Docs : WouldAnswer(c, d) \in Level
      BY LevelOfLevel DEF WouldAnswer
    <3> QED BY <2>1, <3>1 DEF HeadsOn, Level, NoAccess
  <2> QED BY <1>1, <1>4, <2>1, <2>2, StepInv DEF Step, Staged, Undisturbed, Active
<1>5. CASE present # {}
  <2>1. pc'[c] = "values"
    BY <1>5 DEF Goto, AccessInv, Typed, CallType
  <2>2. HeadsOn(c)
    <3>1. ASSUME NEW d \in Docs PROVE WouldAnswer(c, d)' <= WouldAnswer(c, d)
      <4>1. CASE d \in present
        <5>1. MyFacts(c, d)' = MyFacts(c, d)
          BY <1>1, <1>2, <1>3, <2>1, <4>1, ConfigKept DEF MyFacts
        <5>2. WouldAnswer(c, d)' = WouldAnswer(c, d)
          BY <1>1, <1>2, <1>3, <2>1, <4>1, <5>1, ConfigKept
             DEF WouldAnswer, MyDocs, HasRules, MyRules, MyGroups, config
        <5>3. WouldAnswer(c, d) \in Level
          BY LevelOfLevel DEF WouldAnswer
        <5> QED BY <5>2, <5>3 DEF Level
      <4>2. CASE d \notin present
        <5>1. d \notin MyDocs(c)'
          BY <1>1, <1>2, <1>3, <2>1, <4>2 DEF MyDocs
        <5>2. WouldAnswer(c, d)' = 0 /\ WouldAnswer(c, d) \in Level
          BY <5>1, LevelOfLevel DEF WouldAnswer, LevelOf, NoAccess
        <5> QED BY <5>2 DEF Level
      <4> QED BY <4>1, <4>2
    <3> QED BY <2>1, <3>1 DEF HeadsOn
  <2>3. Staged(c)'
    BY <1>1, <1>3, <2>1 DEF CallInv, Staged, Active
  <2>4. Undisturbed(c)'
    <3>1. \A d \in present : seen'[c][d] = InjectedFacts(d)
      BY <1>2 DEF AccessInv, Typed, ConfigType
    <3>2. seen'[c] = seen[c]' /\ present' = present
      BY <1>1 DEF config
    <3>3. \A d \in present' : seen[c]'[d] = InjectedFacts(d)' \cup {}
      BY <1>1, <3>1, <3>2, ConfigKept
    <3>4. listed'[c] = present'
      BY <1>2, <3>2
    <3> QED BY <1>1, <1>3, <1>5, <2>1, <3>2, <3>3, <3>4, ConfigKept
            DEF CallInv, Undisturbed, Active, config
  <2> QED BY <1>1, <2>1, <2>2, <2>3, <2>4, StepInv DEF Step
<1> QED BY <1>4, <1>5

LEMMA ValuesInv == ASSUME AccessInv, NEW c \in Calls, ReadValues(c) PROVE AccessInv'
<1> USE DEF ReadValues
<1>1. UNCHANGED config /\ CallInv(c) /\ pc[c] = "values" /\ kind[c] = "list"
  BY DEF AccessInv, Typed, CallType, CallInv, Staged
<1>2. seen'[c] = [d \in Docs |-> IF d \in listed[c] THEN seen[c][d] \cup StoredFacts(d) ELSE {}]
  BY DEF AccessInv, Typed, CallType
<1>3. UNCHANGED <<kind, user, doc, isAdmin, groups, mine, moved, listed, present>>
  BY DEF config
<1>4. Step(c)
  BY DEF Step
<1>5. listed[c] \subseteq Docs
  BY DEF AccessInv, Typed, CallType
<1>6. CASE isAdmin[c]
  <2> DEFINE L == [d \in Docs |-> Write]
  <2>1. Answer(c, L, TRUE)
    BY <1>6
  <2>2. pc'[c] = "done" /\ offer'[c] = TRUE
    BY <2>1 DEF Answer, Goto, AccessInv, Typed, CallType
  <2>3. Asked(c) = listed[c] /\ MyDocs(c) = listed[c]
    BY <1>1 DEF Asked, MyDocs
  <2>4. \A d \in Asked(c) : L[d] = 2 /\ WouldAnswer(c, d) = 2
    BY <1>5, <1>6, <2>3 DEF WouldAnswer, LevelOf, Write
  <2>5. HeadsOn(c)
    <3> HIDE DEF L
    <3>1. \A d \in Asked(c) : L[d] <= WouldAnswer(c, d)
      BY <2>4
    <3> QED BY <2>1, <2>3, <3>1, AnswerHeads
  <2>6. moved[c] = 0 => MayUpload(user[c])
    BY <1>1, <1>6 DEF CallInv, Undisturbed, Active, MayUpload
  <2>7. Staged(c)' /\ Undisturbed(c)'
    BY <1>1, <1>3, <2>2 DEF Staged, Undisturbed, Active
  <2> QED BY <1>4, <2>2, <2>5, <2>6, <2>7, StepInv
<1>7. CASE ~isAdmin[c]
  <2>1. pc'[c] = "count"
    BY <1>7 DEF Goto, AccessInv, Typed, CallType
  <2>2. HeadsOn(c)
    <3>1. ASSUME NEW d \in Docs PROVE WouldAnswer(c, d)' <= WouldAnswer(c, d)
      <4>1. CASE d \in listed[c]
        <5>1. MyFacts(c, d)' = MyFacts(c, d)
          BY <1>1, <1>2, <1>3, <2>1, <4>1 DEF MyFacts
        <5>2. WouldAnswer(c, d)' = WouldAnswer(c, d)
          BY <1>1, <1>3, <2>1, <4>1, <5>1, ConfigKept
             DEF WouldAnswer, MyDocs, HasRules, MyRules, MyGroups
        <5>3. WouldAnswer(c, d) \in Level
          BY LevelOfLevel DEF WouldAnswer
        <5> QED BY <5>2, <5>3 DEF Level
      <4>2. CASE d \notin listed[c]
        <5>1. d \notin MyDocs(c)'
          BY <1>1, <1>3, <2>1, <4>2 DEF MyDocs
        <5>2. WouldAnswer(c, d)' = 0 /\ WouldAnswer(c, d) \in Level
          BY <5>1, LevelOfLevel DEF WouldAnswer, LevelOf, NoAccess
        <5> QED BY <5>2 DEF Level
      <4> QED BY <4>1, <4>2
    <3> QED BY <2>1, <3>1 DEF HeadsOn
  <2>3. Staged(c)'
    BY <1>1, <1>3, <1>7, <2>1 DEF CallInv, Staged, Active
  <2>4. Undisturbed(c)'
    <3> SUFFICES ASSUME moved[c] = 0 PROVE Undisturbed(c)'
      BY <1>3 DEF Undisturbed
    <3>1. /\ isAdmin[c] <=> user[c] \in admins
          /\ groups[c] = GroupsOf(user[c]) /\ listed[c] = present /\ present # {}
          /\ \A d \in present : seen[c][d] = InjectedFacts(d) \cup {}
      BY <1>1 DEF CallInv, Undisturbed, Active
    <3>2. \A d \in present : seen'[c][d] = InjectedFacts(d) \cup StoredFacts(d)
      BY <1>2, <1>5, <3>1
    <3>3. \A d \in present' : seen'[c][d] = InjectedFacts(d)' \cup StoredFacts(d)'
      BY <1>1, <1>3, <3>2, ConfigKept
    <3> QED BY <1>1, <1>3, <2>1, <3>1, <3>3, ConfigKept DEF Undisturbed, Active, config
  <2> QED BY <1>4, <2>1, <2>2, <2>3, <2>4, StepInv
<1> QED BY <1>6, <1>7

LEMMA CountInv == ASSUME AccessInv, NEW c \in Calls, CountRules(c) PROVE AccessInv'
<1> USE DEF CountRules
<1>1. UNCHANGED config /\ CallInv(c) /\ pc[c] = "count" /\ kind[c] \in {"open", "list"} /\ ~isAdmin[c]
  BY DEF AccessInv, Typed, CallType, CallInv, Staged, Active
<1>2. UNCHANGED <<kind, user, doc, isAdmin, groups, mine, moved, listed, seen, present>>
  BY DEF config
<1>3. Step(c)
  BY DEF Step
<1>4. CASE LiveRules = {}
  <2> DEFINE L == [d \in Docs |-> Read]
  <2>1. Answer(c, L, FALSE)
    BY <1>4
  <2>2. pc'[c] = "done" /\ offer'[c] = FALSE
    BY <2>1 DEF Answer, Goto, AccessInv, Typed, CallType
  <2>3. Asked(c) = MyDocs(c) /\ Asked(c) \subseteq Docs
    BY <1>1 DEF Asked, MyDocs, AccessInv, Typed, CallType, CallInv, Staged, Active
  <2>4. \A d \in Asked(c) : L[d] = 1 /\ WouldAnswer(c, d) = 1
    BY <1>1, <1>4, <2>3 DEF WouldAnswer, LevelOf, HasRules, Read
  <2>5. HeadsOn(c)
    <3> HIDE DEF L
    <3>1. \A d \in Asked(c) : L[d] <= WouldAnswer(c, d)
      BY <2>4
    <3> QED BY <2>1, <2>3, <3>1, AnswerHeads
  <2>6. moved[c] = 0 => ~MayUpload(user[c])
    BY <1>1, <1>4 DEF CallInv, Undisturbed, Active, MayUpload, UserRules
  <2>7. Staged(c)' /\ Undisturbed(c)'
    BY <1>1, <1>2, <2>2 DEF Staged, Undisturbed, Active
  <2> QED BY <1>3, <2>2, <2>5, <2>6, <2>7, StepInv
<1>5. CASE LiveRules # {}
  <2>1. pc'[c] = "rules"
    BY <1>5 DEF Goto, AccessInv, Typed, CallType
  <2>2. HeadsOn(c)
    <3>1. ASSUME NEW d \in Docs PROVE WouldAnswer(c, d)' <= WouldAnswer(c, d)
      <4>1. WouldAnswer(c, d)' = WouldAnswer(c, d)
        BY <1>1, <1>2, <1>5, <2>1, ConfigKept
           DEF WouldAnswer, MyDocs, MyFacts, HasRules, MyRules, MyGroups
      <4>2. WouldAnswer(c, d) \in Level
        BY LevelOfLevel DEF WouldAnswer
      <4> QED BY <4>1, <4>2 DEF Level
    <3> QED BY <2>1, <3>1 DEF HeadsOn
  <2>3. Staged(c)'
    BY <1>1, <1>2, <2>1 DEF CallInv, Staged, Active
  <2>4. Undisturbed(c)'
    BY <1>1, <1>2, <1>5, <2>1, ConfigKept DEF CallInv, Undisturbed, Active, config
  <2> QED BY <1>3, <2>1, <2>2, <2>3, <2>4, StepInv
<1> QED BY <1>4, <1>5

LEMMA RulesInv == ASSUME AccessInv, NEW c \in Calls, ReadRules(c) PROVE AccessInv'
<1> DEFINE R == UserRules(user[c], groups[c])
           may == \E r \in R : r.type = Write
<1>1. UNCHANGED config /\ CallInv(c) /\ pc[c] = "rules" /\ kind[c] \in {"open", "list"} /\ ~isAdmin[c]
  BY DEF ReadRules, AccessInv, Typed, CallType, CallInv, Staged, Active
<1>2. UNCHANGED <<kind, user, doc, isAdmin, groups, moved, listed, seen, present>> /\ mine'[c] = R
  BY DEF ReadRules, config, AccessInv, Typed, CallType
<1>3. Step(c)
  BY DEF Step
<1>4. Asked(c) = MyDocs(c) /\ Asked(c) \subseteq Docs
  BY <1>1 DEF Asked, MyDocs, AccessInv, Typed, CallType, CallInv, Staged, Active
<1>5. \A d \in Asked(c) : WouldAnswer(c, d) = LevelIn(R, MyFacts(c, d))
  BY <1>1, <1>4 DEF WouldAnswer, LevelOf, HasRules, MyRules, MyGroups
<1>6. moved[c] = 0 => (MayUpload(user[c]) <=> may)
  BY <1>1 DEF CallInv, Undisturbed, Active, MayUpload
<1>7. CASE R = {}
  <2> DEFINE L == [d \in Docs |-> NoAccess]
  <2>1. Answer(c, L, FALSE)
    BY <1>7 DEF ReadRules
  <2>2. pc'[c] = "done" /\ offer'[c] = FALSE
    BY <2>1 DEF Answer, Goto, AccessInv, Typed, CallType
  <2>3. \A d \in Asked(c) : L[d] = 0 /\ WouldAnswer(c, d) \in Level
    BY <1>4, LevelOfLevel DEF WouldAnswer, NoAccess
  <2>4. HeadsOn(c)
    <3> HIDE DEF L
    <3>1. \A d \in Asked(c) : L[d] <= WouldAnswer(c, d)
      BY <2>3 DEF Level
    <3> QED BY <1>4, <2>1, <3>1, AnswerHeads
  <2>5. Staged(c)' /\ Undisturbed(c)'
    BY <1>1, <1>2, <2>2 DEF Staged, Undisturbed, Active
  <2> QED BY <1>3, <1>6, <1>7, <2>2, <2>4, <2>5, StepInv
<1>8. CASE R # {} /\ kind[c] = "list"
  <2> DEFINE L == [d \in Docs |-> LevelIn(R, seen[c][d])]
  <2>1. Answer(c, L, may)
    BY <1>8 DEF ReadRules
  <2>2. pc'[c] = "done" /\ offer'[c] = may
    BY <2>1 DEF Answer, Goto, AccessInv, Typed, CallType
  <2>3. \A d \in Asked(c) : L[d] = WouldAnswer(c, d) /\ WouldAnswer(c, d) \in Level
    BY <1>1, <1>4, <1>5, <1>8, LevelInLevel DEF MyFacts
  <2>4. HeadsOn(c)
    <3> HIDE DEF L, may
    <3>1. \A d \in Asked(c) : L[d] <= WouldAnswer(c, d)
      BY <2>3 DEF Level
    <3>2. may \in BOOLEAN
      BY DEF may
    <3> QED BY <1>4, <2>1, <3>1, <3>2, AnswerHeads
  <2>5. Staged(c)' /\ Undisturbed(c)'
    BY <1>1, <1>2, <2>2 DEF Staged, Undisturbed, Active
  <2> QED BY <1>3, <1>6, <2>2, <2>4, <2>5, StepInv
<1>9. CASE R # {} /\ kind[c] # "list"
  <2>1. pc'[c] = "facts"
    BY <1>9 DEF ReadRules, Goto, AccessInv, Typed, CallType
  <2>2. HeadsOn(c)
    <3>1. ASSUME NEW d \in Docs PROVE WouldAnswer(c, d)' <= WouldAnswer(c, d)
      <4>1. WouldAnswer(c, d)' = WouldAnswer(c, d)
        BY <1>1, <1>2, <1>9, <2>1, ConfigKept
           DEF WouldAnswer, MyDocs, MyFacts, HasRules, MyRules, MyGroups
      <4>2. WouldAnswer(c, d) \in Level
        BY LevelOfLevel DEF WouldAnswer
      <4> QED BY <4>1, <4>2 DEF Level
    <3> QED BY <2>1, <3>1 DEF HeadsOn
  <2>3. Staged(c)'
    BY <1>1, <1>2, <1>9, <2>1 DEF CallInv, Staged, Active
  <2>4. Undisturbed(c)'
    BY <1>1, <1>2, <1>9, <2>1, ConfigKept DEF CallInv, Undisturbed, Active, config
  <2> QED BY <1>3, <2>1, <2>2, <2>3, <2>4, StepInv
<1> QED BY <1>7, <1>8, <1>9

LEMMA FactsInv == ASSUME AccessInv, NEW c \in Calls, ReadFacts(c) PROVE AccessInv'
<1> DEFINE L == [d \in Docs |-> LevelIn(mine[c], StoredFacts(d))]
<1>1. CallInv(c) /\ pc[c] = "facts" /\ kind[c] = "open" /\ ~isAdmin[c]
  BY DEF ReadFacts, AccessInv, Typed, CallType, CallInv, Staged, Active
<1>2. Answer(c, L, FALSE) /\ UNCHANGED <<kind, doc, user, isAdmin>>
  BY DEF ReadFacts
<1>3. pc'[c] = "done"
  BY <1>2 DEF Answer, Goto, AccessInv, Typed, CallType
<1>4. Step(c)
  BY DEF Step
<1>5. Asked(c) = MyDocs(c) /\ Asked(c) \subseteq Docs
  BY <1>1 DEF Asked, MyDocs, AccessInv, Typed, CallType, CallInv, Staged, Active
<1>6. \A d \in Asked(c) : L[d] = WouldAnswer(c, d) /\ WouldAnswer(c, d) \in Level
  BY <1>1, <1>5, LevelInLevel DEF WouldAnswer, LevelOf, HasRules, MyRules, MyFacts
<1>7. HeadsOn(c)
  <2> HIDE DEF L
  <2>1. \A d \in Asked(c) : L[d] <= WouldAnswer(c, d)
    BY <1>6 DEF Level
  <2> QED BY <1>2, <1>5, <2>1, AnswerHeads
<1>8. Staged(c)' /\ Undisturbed(c)'
  BY <1>1, <1>2, <1>3 DEF Staged, Undisturbed, Active
<1> QED BY <1>1, <1>3, <1>4, <1>7, <1>8, StepInv

(***************************************************************************)
(* The first change that a call sees.  After it the call is heading for no *)
(* more than before, or for no more than what is right now.                *)
(***************************************************************************)
HeadsWell(c) ==
  \A d \in Docs : \/ WouldAnswer(c, d)' <= WouldAnswer(c, d)
                  \/ WouldAnswer(c, d)' <= LevelNow(kind[c], user[c], d)'

\* The level that is right, in the terms of what a call is heading for.
NowFacts(k, d) == IF k = "open" THEN StoredFacts(d) ELSE InjectedFacts(d) \cup StoredFacts(d)
LevelRight(k, u, d) ==
  LevelOf(k = "open" \/ d \in present, u \in admins, LiveRules # {}, UserRules(u, GroupsOf(u)),
          NowFacts(k, d))

LEMMA RightIsNow == \A k, u, d : LevelNow(k, u, d) = LevelRight(k, u, d)
<1> SUFFICES ASSUME NEW k, NEW u, NEW d PROVE LevelNow(k, u, d) = LevelRight(k, u, d)
  OBVIOUS
<1>1. StoredFacts(d) \cup InjectedFacts(d) = InjectedFacts(d) \cup StoredFacts(d)
  OBVIOUS
<1> QED BY <1>1 DEF LevelNow, LevelRight, OpenLevel, ListLevel, LevelOf, NowFacts

LEMMA RightIsNowNext == \A k, u, d : LevelNow(k, u, d)' = LevelRight(k, u, d)'
<1> SUFFICES ASSUME NEW k, NEW u, NEW d PROVE LevelNow(k, u, d)' = LevelRight(k, u, d)'
  OBVIOUS
<1>1. StoredFacts(d)' \cup InjectedFacts(d)' = InjectedFacts(d)' \cup StoredFacts(d)'
  OBVIOUS
<1> QED BY <1>1 DEF LevelNow, LevelRight, OpenLevel, ListLevel, LevelOf, NowFacts

\* A call that has not been disturbed.
Calm(c) == c \in Calls /\ Typed /\ CallInv(c) /\ Active(c) /\ moved[c] = 0 /\ UNCHANGED <<pc, local>>

LEMMA RoleHeads ==
  ASSUME NEW c, Calm(c), UNCHANGED <<member, rules, assigned, present, facts>>
  PROVE  HeadsWell(c)
<1> SUFFICES ASSUME NEW d \in Docs PROVE WouldAnswer(c, d)' <= WouldAnswer(c, d)
  BY DEF HeadsWell
<1>1. WouldAnswer(c, d)' = WouldAnswer(c, d)
  BY DEF Calm, local, WouldAnswer, MyDocs, MyFacts, HasRules, MyRules, MyGroups, LiveRules,
         GroupsOf, UserRules, StoredFacts, InjectedFacts
<1>2. WouldAnswer(c, d) \in Level
  BY LevelOfLevel DEF WouldAnswer
<1> QED BY <1>1, <1>2 DEF Level

LEMMA MemberHeads ==
  ASSUME NEW c, Calm(c), UNCHANGED <<admins, rules, assigned, present, facts>>
  PROVE  HeadsWell(c)
<1>1. CASE pc[c] = "groups"
  <2> SUFFICES ASSUME NEW d \in Docs PROVE WouldAnswer(c, d)' <= LevelRight(kind[c], user[c], d)'
    BY RightIsNowNext DEF HeadsWell
  <2>1. /\ MyRules(c)' = UserRules(user[c], GroupsOf(user[c]))'
        /\ HasRules(c)' = (LiveRules' # {})
        /\ MyFacts(c, d)' = NowFacts(kind[c], d)'
    BY <1>1 DEF Calm, local, MyRules, MyGroups, HasRules, MyFacts, NowFacts
  <2>2. isAdmin'[c] = (user[c] \in admins')
    BY DEF Calm, local, CallInv, Undisturbed, Typed, CallType
  <2>3. d \in MyDocs(c)' => kind[c] = "open" \/ d \in present'
    BY <1>1 DEF Calm, local, MyDocs
  <2>4. kind'[c] = kind[c] /\ user'[c] = user[c]
    BY DEF Calm, local
  <2> DEFINE R == UserRules(user[c], GroupsOf(user[c]))'
             F == NowFacts(kind[c], d)'
             mine2 == d \in MyDocs(c)'
             right == kind[c] = "open" \/ d \in present'
             adm == user[c] \in admins'
             live == LiveRules' # {}
  <2>5. WouldAnswer(c, d)' = LevelOf(mine2, adm, live, R, F)
    BY <2>1, <2>2 DEF WouldAnswer
  <2>6. LevelRight(kind[c], user[c], d)' = LevelOf(right, adm, live, R, F)
    BY <2>4 DEF LevelRight
  <2>7. mine2 => right
    BY <2>3
  <2> HIDE DEF R, F, mine2, right, adm, live
  <2> QED BY <2>5, <2>6, <2>7, LevelOfGrows
<1>2. CASE pc[c] # "groups"
  <2> SUFFICES ASSUME NEW d \in Docs PROVE WouldAnswer(c, d)' <= WouldAnswer(c, d)
    BY DEF HeadsWell
  <2>1. WouldAnswer(c, d)' = WouldAnswer(c, d)
    BY <1>2 DEF Calm, local, WouldAnswer, MyDocs, MyFacts, HasRules, MyRules, MyGroups, LiveRules,
           UserRules, StoredFacts, InjectedFacts
  <2>2. WouldAnswer(c, d) \in Level
    BY LevelOfLevel DEF WouldAnswer
  <2> QED BY <2>1, <2>2 DEF Level
<1> QED BY <1>1, <1>2

\* What a call reads of the documents, as long as nothing happens to them.
LEMMA DocsRight ==
  ASSUME NEW c, Calm(c), UNCHANGED <<admins, present, facts>>, NEW d \in Docs
  PROVE  /\ isAdmin'[c] = (user[c] \in admins') /\ kind'[c] = kind[c] /\ user'[c] = user[c]
         /\ d \in MyDocs(c)' => kind[c] = "open" \/ d \in present'
         /\ d \in MyDocs(c)' => MyFacts(c, d)' \subseteq NowFacts(kind[c], d)'
<1>1. isAdmin'[c] = (user[c] \in admins') /\ UNCHANGED <<pc, kind, user, doc, listed, seen>>
  BY DEF Calm, local, CallInv, Undisturbed, Typed, CallType
<1>2. kind[c] \in {"open", "list"}
  BY DEF Calm, Typed, CallType
<1>3. StoredFacts(d)' = StoredFacts(d) /\ InjectedFacts(d)' = InjectedFacts(d)
  BY DEF StoredFacts, InjectedFacts
<1>4. CASE kind[c] = "open"
  BY <1>1, <1>4 DEF MyDocs, MyFacts, NowFacts
<1>5. CASE kind[c] = "list" /\ pc[c] \in {"groups", "files"}
  BY <1>1, <1>5 DEF MyDocs, MyFacts, NowFacts
<1>6. CASE kind[c] = "list" /\ pc[c] \notin {"groups", "files"}
  <2>1. /\ listed[c] = present
        /\ \A e \in present : seen[c][e] = InjectedFacts(e) \cup
                                 (IF pc[c] = "values" THEN {} ELSE StoredFacts(e))
    BY <1>6 DEF Calm, CallInv, Undisturbed
  <2> QED BY <1>1, <1>3, <1>6, <2>1 DEF MyDocs, MyFacts, NowFacts
<1> QED BY <1>1, <1>2, <1>4, <1>5, <1>6

RightRules(c) == UserRules(user[c], GroupsOf(user[c]))

\* A change of the rules, of who they are assigned to and of the group that a
\* group's deletion takes from a user.
LEMMA RulesHead ==
  ASSUME NEW c, Calm(c), UNCHANGED <<admins, present, facts>>,
         \A G : G = GroupsOf(user[c]) => UserRules(user[c], G)' = RightRules(c)'
  PROVE  HeadsWell(c)
<1> SUFFICES ASSUME NEW d \in Docs
             PROVE  \/ WouldAnswer(c, d)' <= WouldAnswer(c, d)
                    \/ WouldAnswer(c, d)' <= LevelRight(kind[c], user[c], d)'
  BY RightIsNowNext DEF HeadsWell
<1>1. UNCHANGED <<pc, kind, user, doc, isAdmin, groups, mine, listed, seen>>
  BY DEF Calm, local
<1>2. CASE pc[c] = "facts"
  <2>1. WouldAnswer(c, d)' = WouldAnswer(c, d)
    BY <1>1, <1>2 DEF Calm, CallInv, Staged, WouldAnswer, MyDocs, MyFacts, HasRules, MyRules,
       MyGroups, LiveRules, StoredFacts, InjectedFacts
  <2>2. WouldAnswer(c, d) \in Level
    BY LevelOfLevel DEF WouldAnswer
  <2> QED BY <2>1, <2>2 DEF Level
<1>3. CASE pc[c] # "facts"
  <2>1. MyRules(c)' = RightRules(c)'
    <3>1. CASE pc[c] = "groups"
      BY <1>1, <3>1 DEF MyRules, MyGroups, RightRules
    <3>2. CASE pc[c] # "groups"
      <4>1. groups[c] = GroupsOf(user[c])
        BY <3>2 DEF Calm, CallInv, Undisturbed
      <4>2. MyRules(c)' = UserRules(user[c], groups[c])'
        BY <1>1, <1>3, <3>2 DEF MyRules, MyGroups
      <4>3. \A G : G = groups[c] => UserRules(user[c], G)' = UserRules(user[c], groups[c])'
        BY <1>1 DEF UserRules
      <4> QED BY <4>1, <4>2, <4>3
    <3> QED BY <3>1, <3>2
  <2>2. (HasRules(c)' <=> LiveRules' # {}) \/ (HasRules(c)' /\ MyRules(c)' = {})
    BY <1>1, <2>1 DEF HasRules, RightRules, UserRules
  <2>3. MyRules(c)' \subseteq UserRules(user[c], GroupsOf(user[c]))'
    BY <2>1 DEF RightRules
  <2>4. CASE d \in MyDocs(c)'
    <3> DEFINE R == MyRules(c)'
               S == UserRules(user[c], GroupsOf(user[c]))'
               F == MyFacts(c, d)'
               G == NowFacts(kind[c], d)'
               right == kind[c] = "open" \/ d \in present'
               adm == user[c] \in admins'
               live == HasRules(c)'
               live2 == LiveRules' # {}
    <3>1. WouldAnswer(c, d)' = LevelOf(TRUE, adm, live, R, F)
      BY <2>4, DocsRight DEF WouldAnswer
    <3>2. LevelRight(kind[c], user[c], d)' = LevelOf(right, adm, live2, S, G)
      BY <1>1 DEF LevelRight
    <3>3. right /\ F \subseteq G /\ R \subseteq S
      BY <2>3, <2>4, DocsRight
    <3>4. (live <=> live2) \/ (live /\ R = {})
      BY <2>2
    <3> HIDE DEF R, S, F, G, right, adm, live, live2
    <3> QED BY <3>1, <3>2, <3>3, <3>4, LevelOfGrows
  <2>5. CASE d \notin MyDocs(c)'
    BY <2>5, LevelOfLevel DEF WouldAnswer, LevelRight, LevelOf, NoAccess, Level
  <2> QED BY <2>4, <2>5
<1> QED BY <1>2, <1>3

LEMMA RulesOnly ==
  ASSUME NEW c, Calm(c), UNCHANGED <<admins, member, present, facts>>
  PROVE  HeadsWell(c)
<1>1. user'[c] = user[c] /\ GroupsOf(user[c])' = GroupsOf(user[c])
  BY DEF Calm, local, GroupsOf
<1>2. \A G : G = GroupsOf(user[c]) => UserRules(user[c], G)' = RightRules(c)'
  BY <1>1 DEF RightRules
<1> QED BY <1>2, RulesHead

\* A change of the documents.
DocsChange ==
  /\ UNCHANGED <<admins, member, rules, assigned>>
  /\ \/ \E d \in Docs, F \in SUBSET (Facts \ SystemFacts) : ChangeValues(d, F)
     \/ \E d \in Docs, F \in SUBSET SystemFacts : ChangeSystemFields(d, F) \/ AddDoc(d, F)
     \/ \E d \in Docs : RemoveDoc(d)

\* A list that is between its queries has the system fields from before the
\* change, and a change concerns only one of the two.
LEMMA DocChanges ==
  ASSUME ConfigType, DocsChange, NEW d \in present
  PROVE  \/ d \in present' /\ InjectedFacts(d)' = InjectedFacts(d)
         \/ StoredFacts(d)' \subseteq StoredFacts(d)
<1> USE DEF ConfigType, StoredFacts, InjectedFacts
<1>1. ASSUME NEW e \in Docs, NEW F \in SUBSET (Facts \ SystemFacts), ChangeValues(e, F)
      PROVE  d \in present' /\ InjectedFacts(d)' = InjectedFacts(d)
  BY <1>1 DEF ChangeValues
<1>2. ASSUME NEW e \in Docs, NEW F \in SUBSET SystemFacts, ChangeSystemFields(e, F)
      PROVE  StoredFacts(d)' \subseteq StoredFacts(d)
  BY <1>2 DEF ChangeSystemFields
<1>3. ASSUME NEW e \in Docs, NEW F \in SUBSET SystemFacts, AddDoc(e, F)
      PROVE  StoredFacts(d)' \subseteq StoredFacts(d)
  BY <1>3 DEF AddDoc
<1>4. ASSUME NEW e \in Docs, RemoveDoc(e)
      PROVE  StoredFacts(d)' \subseteq StoredFacts(d)
  BY <1>4 DEF RemoveDoc
<1> QED BY <1>1, <1>2, <1>3, <1>4 DEF DocsChange

LEMMA DocsHead ==
  ASSUME NEW c, Calm(c), DocsChange
  PROVE  HeadsWell(c)
<1> SUFFICES ASSUME NEW d \in Docs
             PROVE  \/ WouldAnswer(c, d)' <= WouldAnswer(c, d)
                    \/ WouldAnswer(c, d)' <= LevelRight(kind[c], user[c], d)'
  BY RightIsNowNext DEF HeadsWell
<1> DEFINE R == MyRules(c)
           adm == isAdmin[c]
           live == HasRules(c)
           there == d \in MyDocs(c)
           there2 == d \in MyDocs(c)'
           right == kind[c] = "open" \/ d \in present'
           F == MyFacts(c, d)
           F2 == MyFacts(c, d)'
           G == NowFacts(kind[c], d)'
<1>1. UNCHANGED <<pc, kind, user, doc, isAdmin, groups, mine, listed, seen>>
  BY DEF Calm, local
<1>2. UNCHANGED <<admins, member, rules, assigned>> /\ kind[c] \in {"open", "list"}
  BY DEF DocsChange, Calm, Typed, CallType
<1>3. /\ LiveRules' = LiveRules /\ GroupsOf(user[c])' = GroupsOf(user[c])
      /\ \A H : UserRules(user[c], H)' = UserRules(user[c], H)
  BY <1>1, <1>2 DEF LiveRules, GroupsOf, UserRules
<1>4. WouldAnswer(c, d) = LevelOf(there, adm, live, R, F)
  BY DEF WouldAnswer
<1>5. WouldAnswer(c, d)' = LevelOf(there2, adm, live, R, F2)
  BY <1>1, <1>3 DEF WouldAnswer, MyRules, MyGroups, HasRules
<1>6. LevelRight(kind[c], user[c], d)' = LevelOf(right, adm, live, R, G)
  <2>1. R = UserRules(user[c], GroupsOf(user[c]))
    BY DEF Calm, CallInv, Undisturbed, MyRules, MyGroups
  <2>2. adm = (user[c] \in admins')
    BY <1>2 DEF Calm, CallInv, Undisturbed, Typed, CallType
  <2>3. live = (LiveRules' # {})
    BY <1>3 DEF Calm, CallInv, Undisturbed, HasRules
  <2>4. R = UserRules(user[c], GroupsOf(user[c]))'
    BY <1>1, <1>3, <2>1
  <2> HIDE DEF R, adm, live, G
  <2>5. LevelRight(kind[c], user[c], d)'
          = LevelOf(right, user[c] \in admins', LiveRules' # {},
                    UserRules(user[c], GroupsOf(user[c]))', NowFacts(kind[c], d)')
    BY <1>1 DEF LevelRight
  <2> QED BY <2>2, <2>3, <2>4, <2>5 DEF G
<1>7. there2 => (right /\ F2 \subseteq G) \/ (there /\ F2 \subseteq F)
  <2>1. CASE kind[c] = "open"
    BY <1>1, <2>1 DEF MyFacts, NowFacts
  <2>2. CASE kind[c] = "list" /\ pc[c] \in {"groups", "files"}
    BY <1>1, <2>2 DEF MyDocs, MyFacts, NowFacts
  <2>3. CASE kind[c] = "list" /\ pc[c] = "values"
    <3> SUFFICES ASSUME there2
                 PROVE  (right /\ F2 \subseteq G) \/ (there /\ F2 \subseteq F)
      OBVIOUS
    <3>1. there /\ d \in present /\ seen[c][d] = InjectedFacts(d) \cup {}
      BY <1>1, <2>3 DEF MyDocs, Calm, CallInv, Undisturbed
    <3>2. F = InjectedFacts(d) \cup StoredFacts(d) /\ F2 = InjectedFacts(d) \cup StoredFacts(d)'
      BY <1>1, <2>3, <3>1 DEF MyFacts
    <3>3. G = InjectedFacts(d)' \cup StoredFacts(d)'
      BY <1>1, <2>3 DEF NowFacts
    <3>4. \/ d \in present' /\ InjectedFacts(d)' = InjectedFacts(d)
          \/ StoredFacts(d)' \subseteq StoredFacts(d)
      BY <3>1, DocChanges DEF Calm, Typed
    <3>5. CASE d \in present' /\ InjectedFacts(d)' = InjectedFacts(d)
      BY <3>2, <3>3, <3>5
    <3>6. CASE StoredFacts(d)' \subseteq StoredFacts(d)
      BY <3>1, <3>2, <3>6
    <3> QED BY <3>4, <3>5, <3>6
  <2>4. CASE kind[c] = "list" /\ pc[c] \notin {"groups", "files", "values"}
    BY <1>1, <2>4 DEF MyDocs, MyFacts
  <2> QED BY <1>2, <2>1, <2>2, <2>3, <2>4
<1> HIDE DEF R, adm, live, there, there2, right, F, F2, G
<1>8. CASE ~there2
  BY <1>5, <1>8, LevelOfLevel DEF LevelRight, LevelOf, NoAccess, Level
<1>9. CASE there2 /\ right /\ F2 \subseteq G
  BY <1>5, <1>6, <1>9, LevelOfGrows
<1>10. CASE there2 /\ there /\ F2 \subseteq F
  BY <1>4, <1>5, <1>10, LevelOfGrows
<1> QED BY <1>7, <1>8, <1>9, <1>10

\* With a group go its members and the assignments to it: the rules of the others
\* are the same whether a call has read its groups before or after.
LEMMA GroupHeads ==
  ASSUME NEW c, Calm(c), NEW g \in Groups, DeleteGroup(g)
  PROVE  HeadsWell(c)
<1>1. user[c] \in Users /\ user'[c] = user[c]
  BY DEF Calm, local, CallInv, Staged
<1>2. \A G : G = GroupsOf(user[c]) => UserRules(user[c], G)' = RightRules(c)'
  <2>1. GroupsOf(user[c])' = GroupsOf(user[c]) \ {g}
    BY <1>1 DEF GroupsOf, DeleteGroup
  <2>2. \A r : <<r, g>> \notin assigned'
    BY DEF DeleteGroup
  <2>3. \A r, G : (\E w \in {user[c]} \cup G : <<r, w>> \in assigned')
                    <=> (\E w \in {user[c]} \cup (G \ {g}) : <<r, w>> \in assigned')
    BY <2>2
  <2>4. \A G : UserRules(user[c], G)' = UserRules(user[c], G \ {g})'
    BY <1>1, <2>3 DEF UserRules
  <2>5. \A G : G = GroupsOf(user[c]) => UserRules(user[c], G \ {g})' = RightRules(c)'
    BY <1>1, <2>1 DEF RightRules
  <2> QED BY <2>4, <2>5
<1> QED BY <1>2, RulesHead DEF DeleteGroup

LEMMA ChangeHeads == ASSUME NEW c, Calm(c), Change PROVE HeadsWell(c)
<1>1. ASSUME NEW r \in Rules, NEW rule \in Rule, CreateRule(r, rule) \/ UpdateRule(r, rule)
      PROVE  HeadsWell(c)
  BY <1>1, RulesOnly DEF CreateRule, UpdateRule
<1>2. ASSUME NEW r \in Rules, DeleteRule(r) PROVE HeadsWell(c)
  BY <1>2, RulesOnly DEF DeleteRule
<1>3. ASSUME NEW r \in Rules, NEW w \in Users \cup Groups, Assign(r, w) \/ Unassign(r, w)
      PROVE  HeadsWell(c)
  BY <1>3, RulesOnly DEF Assign, Unassign
<1>4. ASSUME NEW u \in Users, NEW g \in Groups, JoinGroup(u, g) \/ LeaveGroup(u, g)
      PROVE  HeadsWell(c)
  BY <1>4, MemberHeads DEF JoinGroup, LeaveGroup
<1>5. ASSUME NEW g \in Groups, DeleteGroup(g) PROVE HeadsWell(c)
  BY <1>5, GroupHeads
<1>6. ASSUME NEW u \in Users, ChangeRole(u) PROVE HeadsWell(c)
  BY <1>6, RoleHeads DEF ChangeRole
<1>7. ASSUME NEW d \in Docs, NEW F \in SUBSET (Facts \ SystemFacts), ChangeValues(d, F)
      PROVE  HeadsWell(c)
  BY <1>7, DocsHead DEF DocsChange, ChangeValues
<1>8. ASSUME NEW d \in Docs, NEW F \in SUBSET SystemFacts, ChangeSystemFields(d, F) \/ AddDoc(d, F)
      PROVE  HeadsWell(c)
  <2>1. DocsChange
    BY <1>8 DEF DocsChange, ChangeSystemFields, AddDoc
  <2> QED BY <2>1, DocsHead
<1>9. ASSUME NEW d \in Docs, RemoveDoc(d) PROVE HeadsWell(c)
  BY <1>9, DocsHead DEF DocsChange, RemoveDoc
<1> QED BY <1>1, <1>2, <1>3, <1>4, <1>5, <1>6, <1>7, <1>8, <1>9 DEF Change

LEMMA ChangesInv == ASSUME AccessInv, Changes PROVE AccessInv'
<1>1. Typed'
  BY ChangesTyped DEF AccessInv
<1> SUFFICES ASSUME NEW c \in Calls PROVE CallInv(c)'
  BY <1>1 DEF AccessInv
<1>2. /\ CallInv(c) /\ Typed /\ Change /\ UNCHANGED <<pc, local>>
      /\ moved'[c] = (IF pc[c] # "idle" THEN moved[c] + 1 ELSE 0) /\ moved[c] \in Nat
      /\ best'[c] = IF ~Active(c) THEN best[c] ELSE
           [d \in Docs |-> Higher(best[c][d], LevelNow(kind[c], user[c], d)')]
  BY DEF AccessInv, Changes, Typed, HistoryType
<1>3. UNCHANGED <<pc, kind, user, doc, isAdmin, groups, mine, listed, seen, answer, offer>>
  BY <1>2 DEF local
<1>4. Staged(c)'
  BY <1>2, <1>3 DEF CallInv, Staged, Active
<1>5. pc[c] # "idle" => moved'[c] # 0
  BY <1>2
<1>6. Undisturbed(c)'
  BY <1>3, <1>5 DEF Undisturbed, Active
<1>7. Bounded(c)'
  <2> SUFFICES ASSUME Active(c), moved[c] = 0, NEW d \in Docs
               PROVE  WouldAnswer(c, d)' <= best'[c][d]
    BY <1>2, <1>3 DEF Bounded, Active
  <2>1. HeadsWell(c)
    BY <1>2, ChangeHeads DEF Calm
  <2>2. WouldAnswer(c, d) <= best[c][d]
    BY <1>2 DEF CallInv, Bounded
  <2>3. /\ WouldAnswer(c, d) \in Level /\ WouldAnswer(c, d)' \in Level
        /\ LevelNow(kind[c], user[c], d)' \in Level
    BY LevelOfLevel, RightIsNowNext DEF WouldAnswer, LevelRight
  <2>4. best[c][d] \in Level
    BY <1>2 DEF Typed, HistoryType
  <2>5. best'[c][d] = Higher(best[c][d], LevelNow(kind[c], user[c], d)')
    BY <1>2
  <2> QED BY <2>1, <2>2, <2>3, <2>4, <2>5 DEF HeadsWell, Higher, Level
<1>8. Answered(c)'
  BY <1>2, <1>3, <1>5 DEF CallInv, Answered, Active
<1> QED BY <1>4, <1>6, <1>7, <1>8 DEF CallInv

LEMMA AccessStep == AccessInv /\ [Next]_vars => AccessInv'
<1> SUFFICES ASSUME AccessInv, [Next]_vars PROVE AccessInv'
  OBVIOUS
<1>1. CASE UNCHANGED vars
  <2>1. Typed'
    BY <1>1 DEF AccessInv, vars, Typed, ConfigType, CallType, HistoryType, LiveRules
  <2>2. ASSUME NEW c \in Calls PROVE CallInv(c)'
    <3>1. UNCHANGED config
      BY <1>1 DEF vars, config
    <3>2. \A d \in Docs : WouldAnswer(c, d)' = WouldAnswer(c, d)
      BY <1>1, <3>1, ConfigKept
         DEF vars, WouldAnswer, MyDocs, HasRules, MyRules, MyFacts, MyGroups
    <3>3. CallInv(c)
      BY DEF AccessInv
    <3>4. Staged(c)'
      BY <1>1, <3>3 DEF vars, CallInv, Staged, Active
    <3>5. Undisturbed(c)'
      BY <1>1, <3>1, <3>3, ConfigKept DEF vars, CallInv, Undisturbed, Active
    <3>6. Bounded(c)'
      BY <1>1, <3>2, <3>3 DEF vars, CallInv, Bounded, Active
    <3>7. Answered(c)'
      BY <1>1, <3>1, <3>3, ConfigKept DEF vars, CallInv, Answered
    <3> QED BY <3>4, <3>5, <3>6, <3>7 DEF CallInv
  <2> QED BY <2>1, <2>2 DEF AccessInv
<1>2. CASE Next
  <2>1. ASSUME NEW c \in Calls, NEW u \in Users, NEW d \in Docs, Open(c, u, d) PROVE AccessInv'
    BY <2>1, OpenInv
  <2>2. ASSUME NEW c \in Calls, NEW u \in Users, List(c, u) PROVE AccessInv'
    BY <2>2, ListInv
  <2>3. ASSUME NEW c \in Calls, Step(c) PROVE AccessInv'
    BY <2>3, GroupsInv, FilesInv, ValuesInv, CountInv, RulesInv, FactsInv DEF Step
  <2>4. ASSUME Changes PROVE AccessInv'
    BY <2>4, ChangesInv
  <2> QED BY <1>2, <2>1, <2>2, <2>3, <2>4 DEF Next
<1> QED BY <1>1, <1>2

\* A call that sees one change at most answers no level above all those the user has
\* had since it began, wherever the change comes between its queries.
THEOREM TornIsSafe == Spec => []GrantedWasAllowed
<1>1. AccessInv => GrantedWasAllowed
  BY DEF AccessInv, CallInv, Answered, GrantedWasAllowed
<1> QED BY <1>1, AccessInit, AccessStep, PTL DEF Spec

\* Of an undisturbed list the flag for uploading is what
\* assertFlatDocumentWriteAccess will answer.
THEOREM OfferExact == Spec => []OfferIsExact
<1>1. AccessInv => OfferIsExact
  BY DEF AccessInv, CallInv, Answered, OfferIsExact
<1> QED BY <1>1, AccessInit, AccessStep, PTL DEF Spec

=============================================================================
