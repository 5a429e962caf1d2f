-------------------------- MODULE GenerationProofs --------------------------
(***************************************************************************)
(* The generators, for any number of accounts, cases, calls, restarts and  *)
(* failures.                                                               *)
(*                                                                         *)
(* Resets.  No DROP TABLE is refused.  The property speaks of the next     *)
(* table only; ResetInv says that all tables before it in the order of     *)
(* Reset are empty, which holds since no generator writes before the last  *)
(* DROP, and that this order has every table after those that refer to it. *)
(*                                                                         *)
(* Calls.  CallInv says that a call goes through its generators in one     *)
(* order, so that what a generator has read cannot change behind it, and   *)
(* that the counters of a process start at nought.                         *)
(*                                                                         *)
(* Cases.  LoopInv: the case loop of a command draws one number for each   *)
(* case of the shares it still has to make, so that a run after an         *)
(* interruption meets every number the one before it has stored.           *)
(*                                                                         *)
(* Threads and comments.  CoverInv: what a generator has not written yet   *)
(* is still in its work.                                                   *)
(*                                                                         *)
(* Issues.  LinkInv: the key of an issue is the rank of its case among the *)
(* escalated ones, in the order of created_at.  The generator's counter is *)
(* the rank of the case at the head of its work, so a taken key is that of *)
(* the very case it is drawn for.                                          *)
(***************************************************************************)
EXTENDS Generation, TLAPS, FiniteSetTheorems, SequenceTheorems

\* The k-th table and those after it are still to be dropped.
DroppedTo(k) ==
    /\ Len(drops) = 11 - k /\ \A i \in 1..11 - k : drops[i] = Tables[k + i - 1]
    /\ \A i \in 1..k - 1 : ~Rows(Tables[i])

TableNames == {Tables[i] : i \in 1..10}

ResetInv ==
    /\ drops \in Seq(TableNames) /\ DOMAIN threads = PerCase
    /\ drops # <<>> => \E k \in 1..10 : DroppedTo(k)

Steps == {"customers", "accounts", "contacts", "team", "cases", "caseBatch", "emails", "comments",
          "feed", "issues", "issueComments"}

\* Where a generator comes in every plan.
Turn == [step \in Steps |->
    CASE step \in {"customers", "accounts"} -> 1
      [] step = "contacts" -> 2
      [] step = "team" -> 3
      [] step \in {"cases", "caseBatch"} -> 4
      [] step = "emails" -> 5
      [] step = "comments" -> 6
      [] step = "feed" -> 7
      [] step = "issues" -> 8
      [] step = "issueComments" -> 9]

\* This generator has fetched its input and is writing.
Working(step) == todo # <<>> /\ Head(todo) = step /\ begun

Ordered(plan) == \A i, k \in DOMAIN plan : i < k => Turn[plan[i]] < Turn[plan[k]]

\* A call goes through its generators in order, and a process starts anew.
CallInv ==
    /\ todo \in Seq(Steps) /\ Ordered(todo) /\ done \subseteq Steps /\ work \in Seq(Nat)
    /\ \A d \in done, i \in DOMAIN todo : Turn[d] < Turn[todo[i]]
    /\ begun => todo # <<>> /\ Head(todo) \in RowByRow
    /\ ~begun => work = <<>>
    /\ ~running => todo = <<>> /\ drops = <<>>
    /\ running => limit \in Limits \cup Batches
    /\ ~running \/ drops # <<>> => done = {} /\ ~begun /\ nextNumber = 0 /\ ~issuesRan
    /\ drops # <<>> => disturbed
    /\ ~issuesRan => nextKey = 0
    /\ Working("issues") => issuesRan
    /\ Working("contacts") => Range(work) \subseteq 1..accounts

\* The tables, with their UNIQUE columns.
TablesInv ==
    /\ cases \in Seq(Case)
    /\ \A i, k \in DOMAIN cases : cases[i].number = cases[k].number => i = k
    /\ threads \in [PerCase -> SUBSET Nat] /\ issues \subseteq [key : Nat \ {0}, case : Nat]
    /\ issueComments \subseteq Nat

Everyone == contacted = 1..accounts

\* The case loop of a command has drawn every number up to the last.
LoopInv ==
    program = "command" =>
        /\ \A i \in DOMAIN todo : todo[i] # "caseBatch"
        /\ running => limit \in Limits
        /\ \A n \in Numbers : \E most \in Limits : n <= Asked(Segments, most)
        /\ (\E i \in DOMAIN todo : todo[i] = "cases") /\ ~Working("cases") => nextNumber = 0
        /\ Working("cases") => nextNumber + Len(work) <= Asked(segments, limit)
        /\ Working("cases") /\ clean /\ Everyone =>
              nextNumber + Len(work) = Asked(segments, limit) /\ 1..nextNumber \subseteq Numbers
        /\ "cases" \in done /\ clean /\ Everyone => 1..Asked(segments, limit) \subseteq Numbers

\* A generator that works case by case has covered the cases or still has
\* them to do.
CoverInv ==
    clean /\ jiraUsers =>
        /\ users => \A t \in PerCase :
              /\ Working(t) => Numbers \subseteq threads[t] \cup Range(work)
              /\ t \in done => Numbers \subseteq threads[t]
        /\ "issueComments" \in done => Keys \subseteq issueComments

\* A key is the place of its case among the escalated ones ...
LinkRows ==
    /\ \A j \in issues : j.key \in DOMAIN Escalated /\ j.case = Escalated[j.key].number
    /\ \A i \in DOMAIN cases : cases[i].key # 0 =>
          [key |-> cases[i].key, case |-> cases[i].number] \in issues
    /\ \A i \in DOMAIN cases, j \in issues : cases[i].number = j.case => cases[i].key = j.key

\* ... the next key is that of the next case to do ...
LinkWork ==
    Working("issues") /\ work # <<>> =>
        /\ nextKey + Len(work) = Len(Escalated)
        /\ \A m \in DOMAIN work : work[m] = Escalated[nextKey + m].number

\* ... and no case is left out.
LinkDone ==
    clean /\ jiraUsers =>
        /\ Working("issues") => \A k \in DOMAIN Escalated :
              Escalated[k].key # 0 \/ Escalated[k].number \in Range(work)
        /\ "issues" \in done => \A k \in DOMAIN Escalated : Escalated[k].key # 0

LinkInv == ~disturbed => LinkRows /\ LinkWork /\ LinkDone

GenInv == ResetInv /\ TypeOK /\ CallInv /\ TablesInv /\ LoopInv /\ CoverInv /\ LinkInv

-----------------------------------------------------------------------------
(* Rows in their order. *)

\* The rank counts the rows of a table up to a row without a gap and without
\* a repetition.
LEMMA Ranks ==
    ASSUME NEW S \in SUBSET Nat, IsFiniteSet(S)
    PROVE  [i \in S |-> Rank(S, i)] \in Bijection(S, 1..Cardinality(S))
<1> DEFINE upTo(i) == {j \in S : j <= i}
           f == [i \in S |-> Rank(S, i)]
<1>1. Cardinality(S) \in Nat
    BY FS_CardinalityType
<1>2. ASSUME NEW i \in S PROVE Rank(S, i) \in 1..Cardinality(S)
  <2>1. upTo(i) \in SUBSET S /\ i \in upTo(i)
      BY <1>2
  <2>2. IsFiniteSet(upTo(i)) /\ Cardinality(upTo(i)) <= Cardinality(S) /\ Cardinality(upTo(i)) \in Nat
      BY <2>1, FS_Subset, FS_CardinalityType
  <2>3. Cardinality(upTo(i)) # 0
      BY <2>1, <2>2, FS_EmptySet
  <2> QED
      BY <1>1, <2>2, <2>3 DEF Rank
<1>3. ASSUME NEW i \in S, NEW k \in S, Rank(S, i) = Rank(S, k), i < k PROVE FALSE
  <2>1. upTo(k) \in SUBSET S /\ upTo(i) \in SUBSET upTo(k) /\ k \in upTo(k) /\ k \notin upTo(i)
    <3>1. k \in Nat /\ \A j \in S : j \in Nat
        BY <1>3
    <3>2. \A j \in upTo(i) : j \in S /\ j <= k
        BY <1>3, <3>1
    <3>3. upTo(i) \in SUBSET upTo(k)
        BY <3>2
    <3>4. k \in upTo(k) /\ k \notin upTo(i)
        BY <1>3, <3>1
    <3> QED
        BY <3>3, <3>4
  <2>2. IsFiniteSet(upTo(k))
      BY <2>1, FS_Subset
  <2>3. Cardinality(upTo(i)) = Cardinality(upTo(k))
      BY <1>3 DEF Rank
  <2> HIDE DEF upTo
  <2> QED
      BY <2>1, <2>2, <2>3, FS_Subset
<1>4. \A i, k \in S : Rank(S, i) = Rank(S, k) => i = k
  <2> SUFFICES ASSUME NEW i \in S, NEW k \in S, Rank(S, i) = Rank(S, k) PROVE i = k
      OBVIOUS
  <2>1. i \in Nat /\ k \in Nat
      OBVIOUS
  <2> QED
      BY <1>3, <2>1
<1>5. f \in Injection(S, 1..Cardinality(S))
    BY <1>2, <1>4 DEF Injection, IsInjective
<1>6. IsFiniteSet(1..Cardinality(S)) /\ Cardinality(1..Cardinality(S)) = Cardinality(S)
    BY <1>1, FS_Interval
<1> HIDE DEF f
<1>7. f \in Surjection(S, 1..Cardinality(S))
    BY <1>5, <1>6, FS_Injection
<1> QED
    BY <1>5, <1>7 DEF Bijection, f

\* The rows in order are the rows, each at its rank.
LEMMA RowsInOrder ==
    ASSUME NEW S \in SUBSET Nat, IsFiniteSet(S)
    PROVE  /\ Cardinality(S) \in Nat
           /\ \A i \in S : Rank(S, i) \in 1..Cardinality(S) /\ InOrder(S)[Rank(S, i)] = i
           /\ \A k \in 1..Cardinality(S) : InOrder(S)[k] \in S /\ Rank(S, InOrder(S)[k]) = k
<1>1. /\ \A i \in S : Rank(S, i) \in 1..Cardinality(S)
      /\ \A i, k \in S : Rank(S, i) = Rank(S, k) => i = k
      /\ \A k \in 1..Cardinality(S) : \E i \in S : Rank(S, i) = k
  <2> DEFINE f == [i \in S |-> Rank(S, i)]
  <2>1. /\ f \in [S -> 1..Cardinality(S)]
        /\ \A i, k \in S : f[i] = f[k] => i = k
        /\ \A k \in 1..Cardinality(S) : \E i \in S : f[i] = k
      BY Ranks DEF Bijection, Injection, Surjection, IsInjective
  <2>2. \A i \in S : f[i] = Rank(S, i)
      OBVIOUS
  <2> HIDE DEF f
  <2> QED
      BY <2>1, <2>2
<1>2. ASSUME NEW k \in 1..Cardinality(S)
      PROVE  InOrder(S)[k] \in S /\ Rank(S, InOrder(S)[k]) = k
    BY <1>1 DEF InOrder
<1> QED
    BY <1>1, <1>2, FS_CardinalityType

\* Escalated is the escalated rows of cases, each once.
LEMMA EscalatedIs ==
    ASSUME cases \in Seq(Case)
    PROVE  /\ Cardinality(EscalatedRows) \in Nat
           /\ Len(Escalated) = Cardinality(EscalatedRows) /\ DOMAIN Escalated = 1..Cardinality(EscalatedRows)
           /\ \A k \in DOMAIN Escalated :
                 /\ InOrder(EscalatedRows)[k] \in DOMAIN cases
                 /\ Escalated[k] = cases[InOrder(EscalatedRows)[k]]
                 /\ Escalated[k] \in Case
                 /\ Escalated[k].escalated
           /\ \A k, m \in DOMAIN Escalated : InOrder(EscalatedRows)[k] = InOrder(EscalatedRows)[m] => k = m
           /\ \A i \in DOMAIN cases : cases[i].escalated =>
                 \E k \in DOMAIN Escalated : InOrder(EscalatedRows)[k] = i
           /\ Escalated \in Seq(Case)
<1>1. EscalatedRows \in SUBSET Nat /\ IsFiniteSet(EscalatedRows)
  <2>1. DOMAIN cases = 1..Len(cases) /\ Len(cases) \in Nat
      BY LenProperties
  <2>2. IsFiniteSet(DOMAIN cases) /\ EscalatedRows \in SUBSET DOMAIN cases
      BY <2>1, FS_Interval DEF EscalatedRows
  <2> QED
      BY <2>1, <2>2, FS_Subset
<1>2. /\ Cardinality(EscalatedRows) \in Nat
      /\ \A i \in EscalatedRows : /\ Rank(EscalatedRows, i) \in 1..Cardinality(EscalatedRows)
                                  /\ InOrder(EscalatedRows)[Rank(EscalatedRows, i)] = i
      /\ \A k \in 1..Cardinality(EscalatedRows) :
            /\ InOrder(EscalatedRows)[k] \in EscalatedRows
            /\ Rank(EscalatedRows, InOrder(EscalatedRows)[k]) = k
    BY <1>1, RowsInOrder
<1>3. ASSUME NEW k \in 1..Cardinality(EscalatedRows)
      PROVE  /\ InOrder(EscalatedRows)[k] \in DOMAIN cases
             /\ Escalated[k] = cases[InOrder(EscalatedRows)[k]]
             /\ Escalated[k] \in Case
             /\ Escalated[k].escalated
  <2>1. InOrder(EscalatedRows)[k] \in EscalatedRows
      BY <1>2, <1>3
  <2>2. Escalated[k] = cases[InOrder(EscalatedRows)[k]]
      BY <1>3 DEF Escalated
  <2>3. InOrder(EscalatedRows)[k] \in DOMAIN cases /\ cases[InOrder(EscalatedRows)[k]].escalated
      BY <2>1 DEF EscalatedRows
  <2> QED
      BY <2>2, <2>3, ElementOfSeq
<1>4. DOMAIN Escalated = 1..Cardinality(EscalatedRows)
    BY DEF Escalated
<1>5. Escalated \in Seq(Case) /\ Len(Escalated) = Cardinality(EscalatedRows)
    BY <1>2, <1>3 DEF Escalated
<1>6. ASSUME NEW i \in DOMAIN cases, cases[i].escalated
      PROVE  \E k \in DOMAIN Escalated : InOrder(EscalatedRows)[k] = i
    BY <1>2, <1>4, <1>6 DEF EscalatedRows
<1> QED
    BY <1>2, <1>3, <1>4, <1>5, <1>6
\* What a merged table is made of.
LEMMA Mergers ==
    ASSUME NEW rows, NEW numbers, NEW n,
           NEW cs \in UNION {{Merged(rows, old, draw, up) :
                                draw \in Bijection(rows \ old, numbers), up \in SUBSET (rows \ old)} :
                             old \in kSubset(n, rows)}
    PROVE  \E old \in kSubset(n, rows) : \E draw \in Bijection(rows \ old, numbers), up \in SUBSET (rows \ old) :
              cs = Merged(rows, old, draw, up)
    OBVIOUS

MergedFrom(rows, numbers, cs) ==
    \E old \in kSubset(Len(cases), rows) :
       \E draw \in Bijection(rows \ old, numbers), up \in SUBSET (rows \ old) :
          cs = Merged(rows, old, draw, up)

\* The same, of the cases there are.
LEMMA MergersOfCases ==
    ASSUME NEW rows, NEW numbers, NEW cs \in MergedTables(rows, numbers)
    PROVE  MergedFrom(rows, numbers, cs)
    BY Mergers DEF MergedTables, MergedFrom

\* Storing cases of new numbers keeps the old cases, in their order, and adds
\* cases of these numbers that have no issue.
LEMMA CasesAdded ==
    ASSUME cases \in Seq(Case), \A i, k \in DOMAIN cases : cases[i].number = cases[k].number => i = k,
           NEW numbers \in SUBSET Nat, IsFiniteSet(numbers), numbers \cap Numbers = {},
           NEW cs \in WithCases(numbers)
    PROVE  /\ cs \in Seq(Case)
           /\ \A i, k \in DOMAIN cs : cs[i].number = cs[k].number => i = k
           /\ \A i \in DOMAIN cs : (cs[i].number \in numbers /\ cs[i].key = 0) \/ \E k \in DOMAIN cases : cs[i] = cases[k]
           /\ {c.number : c \in Range(cs)} = Numbers \cup numbers
<1>1. Len(cases) \in Nat /\ Cardinality(numbers) \in Nat /\ DOMAIN cases = 1..Len(cases)
    BY LenProperties, FS_CardinalityType
<1>0. PICK total \in Nat : total = Len(cases) + Cardinality(numbers)
    BY <1>1
<1>10. PICK all : all = 1..total
    OBVIOUS
<1>2. PICK old \in kSubset(Len(cases), all) :
         \E draw \in Bijection(all \ old, numbers), up \in SUBSET (all \ old) : cs = Merged(all, old, draw, up)
  <2>1. cs \in MergedTables(all, numbers)
      BY <1>0, <1>10 DEF WithCases
  <2>2. MergedFrom(all, numbers, cs)
      BY <2>1, MergersOfCases
  <2> QED
      BY <2>2, Zenon DEF MergedFrom
<1>9. PICK draw \in Bijection(all \ old, numbers), up \in SUBSET (all \ old) : cs = Merged(all, old, draw, up)
    BY <1>2
<1>3. all \in SUBSET Nat /\ IsFiniteSet(all)
    BY <1>10, FS_Interval
<1>4. old \in SUBSET all /\ Cardinality(old) = Len(cases)
    BY <1>2 DEF kSubset
<1>5. old \in SUBSET Nat /\ IsFiniteSet(old)
    BY <1>3, <1>4, FS_Subset
<1>6. /\ \A i \in old : Rank(old, i) \in DOMAIN cases
      /\ \A i, k \in old : Rank(old, i) = Rank(old, k) => i = k
      /\ \A k \in DOMAIN cases : \E i \in old : Rank(old, i) = k
  <2>1. /\ \A i \in old : Rank(old, i) \in 1..Len(cases) /\ InOrder(old)[Rank(old, i)] = i
        /\ \A k \in 1..Len(cases) : InOrder(old)[k] \in old /\ Rank(old, InOrder(old)[k]) = k
      BY <1>4, <1>5, RowsInOrder
  <2> QED
      BY <1>1, <2>1
<1>7. /\ \A i \in all \ old : draw[i] \in numbers
      /\ \A i, k \in all \ old : draw[i] = draw[k] => i = k
      /\ \A n \in numbers : \E i \in all \ old : draw[i] = n
    BY <1>9 DEF Bijection, Injection, Surjection, IsInjective
<1>8. /\ DOMAIN cs = all
      /\ \A i \in old : cs[i] = cases[Rank(old, i)]
      /\ \A i \in all \ old : cs[i] = [number |-> draw[i], escalated |-> i \in up, key |-> 0]
    BY <1>4, <1>9 DEF Merged
<1>99. \A i \in DOMAIN cases : cases[i] \in Case /\ cases[i].number \in Numbers
    BY ElementOfSeq DEF Numbers, Range
<1>98. \A i \in old : cs[i] \in Case /\ cs[i].number \in Numbers /\ \E k \in DOMAIN cases : cs[i] = cases[k]
    BY <1>6, <1>8, <1>99
<1>11. ASSUME NEW i \in all \ old PROVE cs[i] \in Case /\ cs[i].number = draw[i] /\ cs[i].key = 0
  <2>1. cs[i] = [number |-> draw[i], escalated |-> i \in up, key |-> 0] /\ draw[i] \in Nat
      BY <1>7, <1>8, <1>11
  <2>2. CASE i \in up
    <3>1. cs[i] = [number |-> draw[i], escalated |-> TRUE, key |-> 0]
        BY <2>1, <2>2
    <3> QED
        BY <2>1, <3>1 DEF Case
  <2>3. CASE i \notin up
    <3>1. cs[i] = [number |-> draw[i], escalated |-> FALSE, key |-> 0]
      <4>1. (i \in up) = FALSE
          BY <2>3
      <4> QED
          BY <2>1, <4>1, Zenon
    <3> QED
        BY <2>1, <3>1 DEF Case
  <2> QED
      BY <2>2, <2>3
<1>12. cs \in Seq(Case)
  <2>1. \A i \in 1..total : cs[i] \in Case
      BY <1>4, <1>10, <1>98, <1>11
  <2>2. cs = [i \in 1..total |-> cs[i]]
      BY <1>9, <1>10 DEF Merged
  <2> QED
      BY <1>3, <2>1, <2>2
<1>13. ASSUME NEW i \in all, NEW k \in all, cs[i].number = cs[k].number PROVE i = k
  <2>1. CASE i \in old /\ k \in old
    <3>1. cases[Rank(old, i)].number = cases[Rank(old, k)].number
        BY <1>8, <1>13, <2>1
    <3> QED
        BY <1>6, <2>1, <3>1
  <2>2. CASE i \notin old /\ k \notin old
      BY <1>7, <1>11, <1>13, <2>2
  <2>3. CASE ~((i \in old) <=> (k \in old))
      BY <1>7, <1>98, <1>11, <1>13, <2>3
  <2> QED
      BY <2>1, <2>2, <2>3
<1>14. {c.number : c \in Range(cs)} = Numbers \cup numbers
  <2>1. ASSUME NEW n \in Numbers PROVE \E i \in all : cs[i].number = n
    <3>1. PICK k \in DOMAIN cases : cases[k].number = n
        BY DEF Numbers, Range
    <3>2. PICK i \in old : Rank(old, i) = k
        BY <1>6
    <3> QED
        BY <1>4, <1>8, <3>1, <3>2
  <2>2. ASSUME NEW n \in numbers PROVE \E i \in all : cs[i].number = n
      BY <1>7, <1>11
  <2>3. \A i \in all : cs[i].number \in Numbers \cup numbers
      BY <1>7, <1>98, <1>11
  <2>4. \A n : n \in {c.number : c \in Range(cs)} <=> \E i \in all : cs[i].number = n
      BY <1>8 DEF Range
  <2>5. ASSUME NEW n PROVE (n \in {c.number : c \in Range(cs)}) <=> (n \in Numbers \cup numbers)
    <3>1. (n \in {c.number : c \in Range(cs)}) <=> \E i \in all : cs[i].number = n
        BY <2>4
    <3>2. n \in Numbers \cup numbers => \E i \in all : cs[i].number = n
        BY <2>1, <2>2
    <3> QED
        BY <2>3, <3>1, <3>2
  <2> QED
      BY <2>5
<1> QED
    BY <1>7, <1>8, <1>98, <1>11, <1>12, <1>13, <1>14

\* Turn, one generator after the other.
LEMMA TurnIs ==
    /\ Turn["customers"] = 1 /\ Turn["accounts"] = 1 /\ Turn["contacts"] = 2 /\ Turn["team"] = 3
    /\ Turn["cases"] = 4 /\ Turn["caseBatch"] = 4 /\ Turn["emails"] = 5 /\ Turn["comments"] = 6
    /\ Turn["feed"] = 7 /\ Turn["issues"] = 8 /\ Turn["issueComments"] = 9
    /\ \A step \in Steps : Turn[step] \in 1..9
    BY DEF Turn, Steps

\* Every plan goes from the people to the cases, their threads and issues.
LEMMA Plans ==
    ASSUME NEW plan \in CommandPlans \cup PipelinePlans
    PROVE  /\ plan \in Seq(Steps) /\ Ordered(plan)
           /\ plan \in CommandPlans => \A i \in DOMAIN plan : plan[i] # "caseBatch"
<1> USE TurnIs DEF Steps, Ordered
<1>1. CASE plan = Entities
    BY <1>1 DEF Entities
<1>2. CASE plan = Interactions
    BY <1>2 DEF Interactions
<1>3. CASE plan = Entities \o Interactions
    BY <1>3 DEF Entities, Interactions
<1>41. CASE plan = Phase[1]
  <2>1. plan = <<"accounts", "contacts", "team">>
      BY <1>41 DEF Phase
  <2> QED
      BY <2>1 DEF CommandPlans, Entities, Interactions
<1>42. CASE plan = Phase[2]
  <2>1. plan = <<"caseBatch">>
      BY <1>42 DEF Phase
  <2> QED
      BY <2>1 DEF CommandPlans, Entities, Interactions
<1>43. CASE plan = Phase[3]
  <2>1. plan = <<"emails", "comments", "feed">>
      BY <1>43 DEF Phase
  <2> QED
      BY <2>1 DEF CommandPlans, Entities, Interactions
<1>44. CASE plan = Phase[4]
  <2>1. plan = <<"issues", "issueComments">>
      BY <1>44 DEF Phase
  <2> QED
      BY <2>1 DEF CommandPlans, Entities, Interactions
<1>5. CASE plan = Phase[1] \o Phase[2] \o Phase[3] \o Phase[4]
  <2>1. /\ Phase[1] = <<"accounts", "contacts", "team">> /\ Phase[2] = <<"caseBatch">>
        /\ Phase[3] = <<"emails", "comments", "feed">> /\ Phase[4] = <<"issues", "issueComments">>
      BY DEF Phase
  <2>2. /\ plan \in Seq(Steps) /\ Len(plan) = 9
        /\ plan[1] = "accounts" /\ plan[2] = "contacts" /\ plan[3] = "team" /\ plan[4] = "caseBatch"
        /\ plan[5] = "emails" /\ plan[6] = "comments" /\ plan[7] = "feed" /\ plan[8] = "issues"
        /\ plan[9] = "issueComments"
      BY <1>5, <2>1
  <2> QED
      BY <2>2 DEF CommandPlans, Entities, Interactions
<1>7. Range(Phase) \subseteq {Phase[1], Phase[2], Phase[3], Phase[4]}
    BY DEF Phase, Range
<1> QED
    BY <1>1, <1>2, <1>3, <1>41, <1>42, <1>43, <1>44, <1>5, <1>7 DEF CommandPlans, PipelinePlans
-----------------------------------------------------------------------------
\* Every table comes after the ones that refer to it.
LEMMA ReferringFirst ==
    ASSUME NEW k \in 1..10, NEW other \in Referring(Tables[k])
    PROVE  \E i \in 1..k - 1 : other = Tables[i]
<1>1. CASE k \in {1, 3, 4, 5, 6}
    BY <1>1 DEF Tables, Referring
<1>2. CASE k = 2
    BY <1>2 DEF Tables, Referring
<1>3. CASE k = 7
    BY <1>3 DEF Tables, Referring
<1>4. CASE k = 8
    BY <1>4 DEF Tables, Referring
<1>5. CASE k = 9
    BY <1>5 DEF Tables, Referring
<1>6. CASE k = 10
    BY <1>6 DEF Tables, Referring
<1> QED
    BY <1>1, <1>2, <1>3, <1>4, <1>5, <1>6

\* A DROP TABLE empties its table and fills none.
LEMMA DropEmpties ==
    ASSUME ResetInv, Drop, NEW k \in 1..10,
           Tables[k] = Head(drops) \/ ~Rows(Tables[k])
    PROVE  ~Rows(Tables[k])'
<1>1. CASE k = 1
    BY <1>1 DEF Tables, Drop, Rows, Emptied
<1>2. CASE k = 2
    BY <1>2 DEF Tables, Drop, Rows, Emptied
<1>3. CASE k = 3
    BY <1>3 DEF Tables, Drop, Rows, Emptied
<1>4. CASE k = 4
    BY <1>4 DEF Tables, Drop, Rows, Emptied, ResetInv, PerCase
<1>5. CASE k = 5
    BY <1>5 DEF Tables, Drop, Rows, Emptied, ResetInv, PerCase
<1>6. CASE k = 6
    BY <1>6 DEF Tables, Drop, Rows, Emptied, ResetInv, PerCase
<1>7. CASE k = 7
    BY <1>7 DEF Tables, Drop, Rows, Emptied
<1>8. CASE k = 8
    BY <1>8 DEF Tables, Drop, Rows, Emptied
<1>9. CASE k = 9
    BY <1>9 DEF Tables, Drop, Rows, Emptied
<1>10. CASE k = 10
    BY <1>10 DEF Tables, Drop, Rows, Emptied
<1> QED
    BY <1>1, <1>2, <1>3, <1>4, <1>5, <1>6, <1>7, <1>8, <1>9, <1>10

\* A DROP TABLE moves the reset on by one table.
LEMMA DropStep ==
    ASSUME ResetInv, Drop
    PROVE  ResetInv'
<1>1. drops \in Seq(TableNames) /\ drops # <<>> /\ drops' = Tail(drops)
    BY DEF ResetInv, Drop
<1>2. drops' \in Seq(TableNames) /\ Len(drops') = Len(drops) - 1
    BY <1>1
<1>3. DOMAIN threads' = PerCase
    BY DEF ResetInv, Drop
<1>4. PICK k \in 1..10 : DroppedTo(k)
    BY <1>1 DEF ResetInv
<1>5. Head(drops) = Tables[k]
    BY <1>1, <1>4 DEF DroppedTo
<1>6. ASSUME drops' # <<>> PROVE k + 1 \in 1..10 /\ DroppedTo(k + 1)'
  <2>1. k + 1 \in 1..10
      BY <1>1, <1>2, <1>4, <1>6 DEF DroppedTo
  <2>2. Len(drops') = 11 - (k + 1) /\ \A i \in 1..11 - (k + 1) : drops'[i] = Tables[(k + 1) + i - 1]
      BY <1>1, <1>2, <1>4 DEF DroppedTo
  <2>3. \A i \in 1..(k + 1) - 1 : ~Rows(Tables[i])'
    <3> SUFFICES ASSUME NEW i \in 1..k PROVE ~Rows(Tables[i])'
        OBVIOUS
    <3>1. i \in 1..10 /\ (Tables[i] = Head(drops) \/ ~Rows(Tables[i]))
        BY <1>4, <1>5 DEF DroppedTo
    <3> QED
        BY <3>1, DropEmpties
  <2> QED
      BY <2>1, <2>2, <2>3 DEF DroppedTo
<1> QED
    BY <1>2, <1>3, <1>6 DEF ResetInv

\* What the other actions do to the reset: they begin it, end it, or leave it
\* and every table as they are.
LEMMA OtherSteps ==
    ASSUME ResetInv, Next \/ UNCHANGED vars, ~Drop
    PROVE  /\ DOMAIN threads' = PerCase
           /\ \/ drops' = Tables \/ drops' = <<>>
              \/ UNCHANGED <<drops, peopleVars, rowVars>>
<1> USE DEF ResetInv, vars, fixedVars, rowVars, peopleVars
<1>1. ASSUME NEW plan, NEW reset \in BOOLEAN, Start(plan, reset) \/ CallAgain(plan)
      PROVE  UNCHANGED threads /\ (drops' \in {Tables, <<>>} \/ UNCHANGED <<drops, peopleVars, rowVars>>)
    BY <1>1 DEF Start, CallAgain
<1>2. ASSUME NEW step, At(step) PROVE drops = <<>>
    BY <1>2 DEF At
<1>3. ASSUME GenerateCustomers \/ SkipCustomers \/ GenerateAccounts \/ SkipAccounts \/ GenerateUsers
             \/ SkipUsers \/ GenerateCases \/ SkipCases \/ CasesFail \/ GenerateIssueComments \/ SkipIssueComments
             \/ BatchFails \/ NoUsers
      PROVE  UNCHANGED <<threads, drops>> /\ drops = <<>>
    BY <1>2, <1>3 DEF GenerateCustomers, SkipCustomers, GenerateAccounts,
       SkipAccounts, GenerateUsers, SkipUsers, GenerateCases, SkipCases, CasesFail,
       GenerateIssueComments, SkipIssueComments, BatchFails, NoUsers, Fail
<1>4. ASSUME NEW step, Begin(step) \/ RowFails(step) \/ RowsDone(step)
      PROVE  UNCHANGED <<threads, drops>> /\ drops = <<>>
    BY <1>2, <1>4 DEF Begin, RowFails, RowsDone, Item
<1>5. ASSUME InsertContact \/ InsertCase \/ CaseConflict \/ NoContact \/ InsertIssue \/ IssueConflict
      PROVE  UNCHANGED <<threads, drops>> /\ drops = <<>>
    BY <1>2, <1>5 DEF InsertContact, InsertCase, CaseConflict, NoContact,
       InsertIssue, IssueConflict, Item
<1>6. ASSUME NEW t \in PerCase, InsertThread(t)
      PROVE  DOMAIN threads' = PerCase /\ UNCHANGED drops /\ drops = <<>>
    BY <1>2, <1>6 DEF InsertThread, Item
<1>7. CASE End
    BY <1>7 DEF End
<1> QED
    BY <1>1, <1>3, <1>4, <1>5, <1>6, <1>7 DEF Next

\* Every step of the pipeline and its resets keeps the order.
LEMMA ResetStep ==
    ASSUME ResetInv, Next \/ UNCHANGED vars
    PROVE  ResetInv'
<1>1. CASE Drop
    BY <1>1, DropStep
<1>2. CASE ~Drop /\ UNCHANGED <<drops, peopleVars, rowVars>>
  <2>1. \A k : DroppedTo(k)' <=> DroppedTo(k)
      BY <1>2 DEF DroppedTo, Rows, rowVars
  <2> QED
      BY <1>2, <2>1 DEF ResetInv, rowVars
<1>3. CASE ~Drop /\ drops' = Tables
  <2>1. Tables \in Seq(TableNames) /\ Len(Tables) = 10
    <3>1. Len(Tables) = 10
        BY DEF Tables
    <3>2. \A i \in 1..10 : Tables[i] \in TableNames
        BY DEF TableNames
    <3>3. Tables = [i \in 1..10 |-> Tables[i]]
        BY DEF Tables
    <3>4. Tables \in Seq(TableNames)
        BY <3>2, <3>3
    <3> QED
        BY <3>1, <3>4
  <2>2. DroppedTo(1)'
      BY <1>3, <2>1 DEF DroppedTo
  <2> QED
      BY <1>3, <2>1, <2>2, OtherSteps DEF ResetInv
<1>4. CASE ~Drop /\ drops' = <<>>
    BY <1>4, OtherSteps DEF ResetInv
<1> QED
    BY <1>1, <1>2, <1>3, <1>4, OtherSteps

\* Whenever a reset is under way, the tables before the next one are empty.
THEOREM ResetInvariance == Spec => []ResetInv
<1>1. Init => ResetInv
    BY DEF Init, ResetInv
<1>2. ResetInv /\ [Next]_vars => ResetInv'
    BY ResetStep
<1> QED
    BY <1>1, <1>2, PTL DEF Spec

\* No DROP TABLE is refused for a row that refers to the table, wherever the
\* runs and resets before were cut off.
THEOREM NoDropRefused == Spec => []ResetNeverRefused
<1>1. ASSUME ResetInv PROVE ResetNeverRefused
  <2> SUFFICES ASSUME drops # <<>>, NEW other \in Referring(Head(drops))
               PROVE  ~Rows(other)
      BY DEF ResetNeverRefused
  <2>1. PICK k \in 1..10 : DroppedTo(k)
      BY <1>1 DEF ResetInv
  <2>2. Head(drops) = Tables[k]
      BY <1>1, <2>1 DEF DroppedTo
  <2> QED
      BY <2>1, <2>2, ReferringFirst DEF DroppedTo
<1> QED
    BY ResetInvariance, <1>1, PTL
-----------------------------------------------------------------------------
(* The generators of a call. *)

\* A generator that has come to its end leaves those after it to do.
LEMMA FinishKeepsCall ==
    ASSUME CallInv, running, drops = <<>>, todo # <<>>, Finish,
           UNCHANGED <<running, drops, limit, issuesRan, nextKey>>
    PROVE  CallInv'
<1>1. todo' = Tail(todo) /\ begun' = FALSE /\ work' = <<>> /\ done' = done \cup {Head(todo)}
    BY DEF Finish
<1>2. todo \in Seq(Steps) /\ Len(todo) \in Nat \ {0} /\ DOMAIN todo = 1..Len(todo) /\ Head(todo) = todo[1]
    BY DEF CallInv
<1>3. todo' \in Seq(Steps) /\ DOMAIN todo' = 1..Len(todo) - 1 /\ \A i \in DOMAIN todo' : todo'[i] = todo[i + 1]
    BY <1>1, <1>2
<1>4. Ordered(todo)'
  <2>1. \A i, k \in DOMAIN todo' : i < k => i + 1 \in DOMAIN todo /\ k + 1 \in DOMAIN todo /\ i + 1 < k + 1
      BY <1>2, <1>3
  <2>2. \A i, k \in DOMAIN todo : i < k => Turn[todo[i]] < Turn[todo[k]]
      BY DEF CallInv, Ordered
  <2> QED
      BY <1>3, <2>1, <2>2 DEF Ordered
<1>5. done' \subseteq Steps /\ todo[1] \in Steps
    BY <1>1, <1>2 DEF CallInv
<1>6. \A d \in done', i \in DOMAIN todo' : Turn[d] < Turn[todo'[i]]
  <2> SUFFICES ASSUME NEW d \in done', NEW i \in DOMAIN todo' PROVE Turn[d] < Turn[todo[i + 1]]
      BY <1>3
  <2>1. i + 1 \in DOMAIN todo /\ 1 \in DOMAIN todo /\ 1 < i + 1
      BY <1>2, <1>3
  <2>2. CASE d \in done
      BY <2>1, <2>2 DEF CallInv
  <2>3. CASE d = todo[1]
    <3>1. \A k, m \in DOMAIN todo : k < m => Turn[todo[k]] < Turn[todo[m]]
        BY DEF CallInv, Ordered
    <3> QED
        BY <2>1, <2>3, <3>1
  <2> QED
      BY <1>1, <1>2, <2>2, <2>3
<1> QED
    BY <1>1, <1>3, <1>4, <1>5, <1>6 DEF CallInv, Working

\* A generator that fails ends the call.
LEMMA FailKeepsCall ==
    ASSUME CallInv, running, drops = <<>>, Fail, UNCHANGED <<issuesRan, nextKey>>
    PROVE  CallInv'
<1>1. todo' = <<>> /\ begun' = FALSE /\ work' = <<>> /\ UNCHANGED <<running, limit, done, drops>>
    BY DEF Fail
<1>2. Ordered(todo)' /\ todo' \in Seq(Steps) /\ DOMAIN todo' = {}
    BY <1>1 DEF Ordered
<1> QED
    BY <1>1, <1>2 DEF CallInv, Working

\* A generator that is through with a row stays at work on the others.
LEMMA RowKeepsCall ==
    ASSUME CallInv, NEW step, Item(step),
           UNCHANGED <<todo, begun, done, running, drops, limit, issuesRan, accounts>>,
           nextKey' = nextKey \/ step = "issues"
    PROVE  CallInv'
<1>1. work \in Seq(Nat) /\ work # <<>> /\ work' = Tail(work) /\ running /\ drops = <<>> /\ Working(step) /\ begun
    BY DEF CallInv, Item, At, Working
<1>2. work' \in Seq(Nat) /\ Range(work') \subseteq Range(work)
    BY <1>1 DEF Range
<1>3. Ordered(todo)' <=> Ordered(todo)
    BY DEF Ordered
<1>4. \A s : Working(s)' <=> Working(s)
    BY DEF Working
<1> QED
    BY <1>1, <1>2, <1>3, <1>4 DEF CallInv

\* The shares of some segments are no more than those of all.
LEMMA AskedBounds ==
    ASSUME NEW some, NEW n \in Nat
    PROVE  Asked(some, n) \in Nat /\ Asked(Segments, n) \in Nat /\ Asked(some, n) <= Asked(Segments, n)
<1>1. n \div 5 \in Nat /\ (2 * n) \div 5 \in Nat
    OBVIOUS
<1>2. ASSUME NEW segment PROVE Share(segment, n) \in Nat
    BY <1>1 DEF Share
<1>3. ASSUME NEW segment \in Segments
      PROVE  Part(segment, some, n) \in {0, Share(segment, n)} /\ Part(segment, Segments, n) = Share(segment, n)
    BY <1>3 DEF Part
<1>4. "Enterprise" \in Segments /\ "Mid-Market" \in Segments /\ "SMB" \in Segments
    BY DEF Segments
<1> QED
    BY <1>2, <1>3, <1>4 DEF Asked

\* The rows a generator works on are known by numbers.
LEMMA Fetched ==
    ASSUME TypeOK, CallInv, TablesInv, NEW step \in RowByRow, step = "cases" => limit \in Nat
    PROVE  Fetch(step) \in Seq(Nat)
<1>1. step \in {"contacts", "cases", "emails", "comments", "feed", "issues"}
    BY DEF RowByRow, PerCase
<1>2. accounts \in Nat
    BY DEF TypeOK
<1>3. ASSUME NEW s \in Seq(Case) PROVE [i \in DOMAIN s |-> s[i].number] \in Seq(Nat)
  <2>1. Len(s) \in Nat /\ DOMAIN s = 1..Len(s) /\ \A i \in 1..Len(s) : s[i] \in Case
      BY LenProperties, ElementOfSeq
  <2>2. \A i \in 1..Len(s) : s[i].number \in Nat
      BY <2>1 DEF Case
  <2> QED
      BY <2>1, <2>2
<1>4. [i \in DOMAIN cases |-> cases[i].number] \in Seq(Nat)
    BY <1>3 DEF TablesInv
<1>5. [i \in DOMAIN Escalated |-> Escalated[i].number] \in Seq(Nat)
    BY <1>3, EscalatedIs DEF TablesInv
<1>6. <<>> \in Seq(Nat)
    OBVIOUS
<1>7. CASE step = "contacts"
    BY <1>2, <1>7 DEF Fetch
<1>8. CASE step = "cases"
    BY <1>8, AskedBounds DEF Fetch
<1>9. CASE step = "emails"
    BY <1>4, <1>9 DEF Fetch
<1>10. CASE step \in {"comments", "feed"}
    BY <1>4, <1>6, <1>10 DEF Fetch
<1>11. CASE step = "issues"
    BY <1>5, <1>6, <1>11 DEF Fetch
<1> QED
    BY <1>1, <1>7, <1>8, <1>9, <1>10, <1>11

\* Every step goes on with the call.
LEMMA CallStep ==
    ASSUME GenInv, Next \/ UNCHANGED vars
    PROVE  CallInv'
<1> USE DEF fixedVars, counterVars, peopleVars
<1>0. CallInv /\ TypeOK /\ TablesInv /\ ResetInv
    BY DEF GenInv
<1>1. ASSUME NEW plan \in CommandPlans \cup PipelinePlans, NEW reset \in BOOLEAN,
             Start(plan, reset) \/ CallAgain(plan)
      PROVE  CallInv'
  <2>1. todo' = plan /\ begun' = FALSE /\ work' = <<>> /\ done' = {} /\ running' = TRUE
      BY <1>1 DEF Start, CallAgain, Call
  <2>2. plan \in Seq(Steps) /\ Ordered(plan)
      BY Plans
  <2>3. Ordered(todo)'
      BY <2>1, <2>2 DEF Ordered
  <2>4. CASE Start(plan, reset)
    <3>1. limit' \in Limits \cup Batches /\ UNCHANGED <<counterVars, issuesRan, accounts>> /\ ~running
        BY <2>4 DEF Start
    <3>2. drops' # <<>> => disturbed'
        BY <2>4 DEF Start
    <3> QED
        BY <1>0, <2>1, <2>2, <2>3, <3>1, <3>2 DEF CallInv, Working
  <2>5. CASE CallAgain(plan)
    <3>1. running /\ program = "pipeline" /\ UNCHANGED <<counterVars, issuesRan, accounts, limit, drops, disturbed>>
        BY <2>5 DEF CallAgain
    <3> QED
        BY <1>0, <2>1, <2>2, <2>3, <3>1 DEF CallInv, Working
  <2> QED
      BY <1>1, <2>4, <2>5
<1>2. CASE End
  <2>1. /\ running' = FALSE /\ nextNumber' = 0 /\ nextKey' = 0 /\ todo' = <<>> /\ begun' = FALSE /\ work' = <<>>
        /\ drops' = <<>> /\ issuesRan' = FALSE /\ done' = {}
      BY <1>2 DEF End, CountersLost
  <2>2. Ordered(todo)' /\ todo' \in Seq(Steps)
      BY <2>1 DEF Ordered
  <2> QED
      BY <2>1, <2>2 DEF CallInv, Working
<1>3. CASE Drop
  <2>1. drops # <<>> /\ drops' = Tail(drops) /\ UNCHANGED <<counterVars, callVars, limit, running, issuesRan>>
        /\ disturbed' = (Len(drops) > 1)
      BY <1>3 DEF Drop
  <2>2. drops' # <<>> => disturbed'
    <3>1. drops \in Seq(TableNames) /\ Len(drops) \in Nat /\ (drops' # <<>> => Len(drops) > 1)
        BY <1>0, <2>1 DEF ResetInv
    <3> QED
        BY <2>1, <3>1
  <2>3. Ordered(todo)' <=> Ordered(todo)
      BY <2>1 DEF Ordered, callVars
  <2>4. running /\ begun = FALSE /\ begun' = FALSE /\ done = {}
      BY <1>0, <2>1 DEF CallInv, callVars, TypeOK
  <2> QED
      BY <1>0, <2>1, <2>2, <2>3, <2>4 DEF CallInv, Working, callVars
<1>4. CASE GenerateCustomers \/ SkipCustomers \/ GenerateAccounts \/ SkipAccounts \/ GenerateUsers \/ SkipUsers
           \/ GenerateCases \/ SkipCases \/ GenerateIssueComments \/ SkipIssueComments \/ \E step \in RowByRow : RowsDone(step)
  <2>1. running /\ drops = <<>> /\ todo # <<>> /\ Finish /\ UNCHANGED <<running, drops, limit, issuesRan, nextKey>>
      BY <1>4 DEF GenerateCustomers, SkipCustomers, GenerateAccounts, SkipAccounts, GenerateUsers, SkipUsers, GenerateCases,
         SkipCases, GenerateIssueComments, SkipIssueComments, RowsDone, At
  <2> QED
      BY <1>0, <2>1, FinishKeepsCall
<1>5. CASE CasesFail \/ BatchFails \/ NoUsers
  <2>1. running /\ drops = <<>> /\ Fail /\ UNCHANGED <<issuesRan, nextKey>>
      BY <1>5 DEF CasesFail, BatchFails, NoUsers, At
  <2> QED
      BY <1>0, <2>1, FailKeepsCall
<1>6. ASSUME NEW step \in RowByRow, Begin(step) PROVE CallInv'
  <2>1. /\ running /\ drops = <<>> /\ todo # <<>> /\ Head(todo) = step
        /\ begun' = TRUE /\ work' = Fetch(step) /\ issuesRan' = (issuesRan \/ step = "issues")
        /\ UNCHANGED <<peopleVars, rowVars, counterVars, fixedVars, todo, clean, done>>
      BY <1>6 DEF Begin, At
  <2>2. limit \in Nat
      BY <1>0, <2>1, ConstantsAssumption DEF CallInv
  <2>3. work' \in Seq(Nat)
      BY <1>0, <2>1, <2>2, Fetched
  <2>4. Ordered(todo)' <=> Ordered(todo)
      BY <2>1 DEF Ordered
  <2>5. step = "contacts" => Range(work') \subseteq 1..accounts
      BY <2>1 DEF Fetch, Range
  <2> QED
      BY <1>0, <2>1, <2>3, <2>4, <2>5 DEF CallInv, Working
<1>7. ASSUME NEW step \in RowByRow, RowFails(step) PROVE CallInv'
  <2>1. Item(step) /\ UNCHANGED <<todo, begun, done, running, drops, limit, issuesRan, accounts>>
        /\ (nextKey' = nextKey \/ step = "issues")
      BY <1>7 DEF RowFails
  <2> QED
      BY <1>0, <2>1, RowKeepsCall
<1>8. CASE InsertContact \/ InsertCase \/ CaseConflict \/ NoContact \/ InsertIssue \/ IssueConflict
  <2>1. \E step \in {"contacts", "cases", "issues"} :
           /\ Item(step) /\ UNCHANGED <<todo, begun, done, running, drops, limit, issuesRan, accounts>>
           /\ (nextKey' = nextKey \/ step = "issues")
      BY <1>8 DEF InsertContact, InsertCase, CaseConflict, NoContact, InsertIssue, IssueConflict
  <2> QED
      BY <1>0, <2>1, RowKeepsCall
<1>9. ASSUME NEW t \in PerCase, InsertThread(t) PROVE CallInv'
  <2>1. Item(t) /\ UNCHANGED <<todo, begun, done, running, drops, limit, issuesRan, accounts, nextKey>>
      BY <1>9 DEF InsertThread
  <2> QED
      BY <1>0, <2>1, RowKeepsCall
<1>10. CASE UNCHANGED vars
  <2>1. Ordered(todo)' <=> Ordered(todo)
      BY <1>10 DEF Ordered, vars, callVars
  <2> QED
      BY <1>0, <1>10, <2>1 DEF CallInv, Working, vars, callVars
<1> QED
    BY <1>1, <1>2, <1>3, <1>4, <1>5, <1>6, <1>7, <1>8, <1>9, <1>10 DEF Next
-----------------------------------------------------------------------------
(* The tables. *)

\* The numbers a step that stores cases gives them.
NewNumbers == IF Head(todo) = "cases" THEN {nextNumber + 1} ELSE Drawn

\* Storing cases keeps the cases there are and adds some without an issue.
LEMMA CasesStored ==
    ASSUME GenInv, InsertCase \/ GenerateCases
    PROVE  /\ NewNumbers \in SUBSET Nat
           /\ cases' \in Seq(Case)
           /\ \A i, k \in DOMAIN cases' : cases'[i].number = cases'[k].number => i = k
           /\ \A i \in DOMAIN cases' : cases'[i].key = 0 \/ \E k \in DOMAIN cases : cases'[i] = cases[k]
           /\ Numbers' = Numbers \cup NewNumbers
<1>1. cases \in Seq(Case) /\ \A i, k \in DOMAIN cases : cases[i].number = cases[k].number => i = k
    BY DEF GenInv, TablesInv
<1>2. nextNumber \in Nat /\ (running => limit \in Nat)
    BY ConstantsAssumption DEF GenInv, TypeOK, CallInv
<1>3. NewNumbers \in SUBSET Nat /\ IsFiniteSet(NewNumbers) /\ NewNumbers \cap Numbers = {} /\ cases' \in WithCases(NewNumbers)
  <2>1. CASE InsertCase
    <3>1. NewNumbers = {nextNumber + 1} /\ nextNumber + 1 \notin Numbers /\ cases' \in WithCases({nextNumber + 1})
        BY <2>1 DEF InsertCase, Item, At, NewNumbers
    <3>2. IsFiniteSet({nextNumber + 1})
        BY FS_Singleton
    <3> QED
        BY <1>2, <3>1, <3>2
  <2>2. CASE GenerateCases
    <3>1. NewNumbers = Drawn /\ Drawn \cap Numbers = {} /\ cases' \in WithCases(Drawn) /\ running
        BY <2>2 DEF GenerateCases, At, NewNumbers
    <3>2. Drawn \in SUBSET Nat /\ IsFiniteSet(Drawn)
        BY <1>2, <3>1, FS_Interval DEF Drawn
    <3> QED
        BY <3>1, <3>2
  <2> QED
      BY <2>1, <2>2
<1>4. PICK new : new = NewNumbers
    OBVIOUS
<1>5. PICK cs : cs = cases'
    OBVIOUS
<1>6. /\ cs \in Seq(Case)
      /\ \A i, k \in DOMAIN cs : cs[i].number = cs[k].number => i = k
      /\ \A i \in DOMAIN cs : (cs[i].number \in new /\ cs[i].key = 0) \/ \E k \in DOMAIN cases : cs[i] = cases[k]
      /\ {c.number : c \in Range(cs)} = Numbers \cup new
  <2>1. new \in SUBSET Nat /\ IsFiniteSet(new) /\ new \cap Numbers = {} /\ cs \in WithCases(new)
      BY <1>3, <1>4, <1>5
  <2> HIDE DEF Numbers, WithCases
  <2> QED
      BY <1>1, <2>1, CasesAdded, SMTT(30)
<1>7. Numbers' = {c.number : c \in Range(cs)}
    BY <1>5 DEF Numbers, Range
<1> QED
    BY <1>3, <1>4, <1>5, <1>6, <1>7

\* Storing an issue changes the key of its case and nothing else.
LEMMA IssueStored ==
    ASSUME GenInv, InsertIssue
    PROVE  /\ cases' \in Seq(Case) /\ DOMAIN cases' = DOMAIN cases
           /\ \A i \in DOMAIN cases :
                 /\ cases'[i].number = cases[i].number /\ cases'[i].escalated = cases[i].escalated
                 /\ cases'[i].key = IF cases[i].number = Head(work) THEN nextKey + 1 ELSE cases[i].key
           /\ Head(work) \in Nat
<1>1. cases \in Seq(Case) /\ nextKey + 1 \in Nat /\ work \in Seq(Nat) /\ work # <<>>
    BY DEF GenInv, TablesInv, TypeOK, CallInv, InsertIssue, Item
<1>2. cases' = [i \in DOMAIN cases |-> IF cases[i].number = Head(work)
                                      THEN [cases[i] EXCEPT !.key = nextKey + 1] ELSE cases[i]]
    BY DEF InsertIssue
<1>3. Len(cases) \in Nat /\ DOMAIN cases = 1..Len(cases) /\ \A i \in DOMAIN cases : cases[i] \in Case
    BY <1>1, LenProperties, ElementOfSeq
<1>4. ASSUME NEW i \in DOMAIN cases
      PROVE  /\ cases'[i] \in Case
             /\ cases'[i].number = cases[i].number /\ cases'[i].escalated = cases[i].escalated
             /\ cases'[i].key = IF cases[i].number = Head(work) THEN nextKey + 1 ELSE cases[i].key
  <2>1. cases[i] \in [number : Nat, escalated : BOOLEAN, key : Nat]
      BY <1>3, <1>4 DEF Case
  <2>2. [cases[i] EXCEPT !.key = nextKey + 1] \in [number : Nat, escalated : BOOLEAN, key : Nat]
      BY <1>1, <2>1, ZenonT(40)
  <2>3. cases'[i] = IF cases[i].number = Head(work) THEN [cases[i] EXCEPT !.key = nextKey + 1] ELSE cases[i]
      BY <1>2, <1>4
  <2>4. cases'[i] \in Case
      BY <2>1, <2>2, <2>3, Zenon DEF Case
  <2> QED
      BY <2>1, <2>3, <2>4
<1>5. cases' \in Seq(Case)
    BY <1>2, <1>3, <1>4
<1> QED
    BY <1>1, <1>2, <1>4, <1>5

\* The steps that write to the tables of cases, threads and issues.
LEMMA OtherTables ==
    ASSUME Next \/ UNCHANGED vars,
           ~(Drop \/ InsertCase \/ GenerateCases \/ InsertIssue \/ GenerateIssueComments \/ SkipIssueComments
             \/ \E t \in PerCase : InsertThread(t))
    PROVE  UNCHANGED rowVars
<1>1. CASE \/ \E plan, reset : Start(plan, reset) \/ CallAgain(plan)
           \/ End \/ GenerateCustomers \/ SkipCustomers \/ GenerateAccounts \/ SkipAccounts \/ GenerateUsers
           \/ SkipUsers \/ SkipCases \/ CasesFail \/ BatchFails \/ NoUsers
    BY <1>1 DEF Start, CallAgain, End, GenerateCustomers, SkipCustomers, GenerateAccounts, SkipAccounts, GenerateUsers,
       SkipUsers, SkipCases, CasesFail, BatchFails, NoUsers, Fail
<1>2. CASE \/ \E step : Begin(step) \/ RowFails(step) \/ RowsDone(step)
           \/ InsertContact \/ CaseConflict \/ NoContact \/ IssueConflict
    BY <1>2 DEF Begin, RowFails, RowsDone, InsertContact, CaseConflict, NoContact, IssueConflict
<1> QED
    BY <1>1, <1>2 DEF Next, vars

\* Every step keeps the columns of the tables and their UNIQUE.
LEMMA TablesStep ==
    ASSUME GenInv, Next \/ UNCHANGED vars
    PROVE  TablesInv'
<1>0. TablesInv /\ TypeOK /\ CallInv
    BY DEF GenInv
<1>1. CASE Drop
  <2>1. /\ cases' \in {cases, <<>>} /\ issues' \in {issues, {}} /\ issueComments' \in {issueComments, {}}
        /\ threads' = [threads EXCEPT !["feed"] = Emptied(Head(drops), "feed_items", @, {}),
                                      !["comments"] = Emptied(Head(drops), "case_comments", @, {}),
                                      !["emails"] = Emptied(Head(drops), "email_messages", @, {})]
      BY <1>1 DEF Drop, Emptied
  <2>2. ASSUME NEW name, NEW s \in SUBSET Nat PROVE Emptied(Head(drops), name, s, {}) \in SUBSET Nat
      BY <2>2 DEF Emptied
  <2>3. threads \in [PerCase -> SUBSET Nat]
      BY <1>0 DEF TablesInv
  <2>4. threads' \in [PerCase -> SUBSET Nat]
      BY <2>1, <2>2, <2>3 DEF PerCase
  <2>5. cases' \in Seq(Case) /\ \A i, k \in DOMAIN cases' : cases'[i].number = cases'[k].number => i = k
    <3>1. CASE cases' = cases
        BY <1>0, <3>1 DEF TablesInv
    <3>2. CASE cases' = <<>>
        BY <3>2
    <3> QED
        BY <2>1, <3>1, <3>2
  <2>6. issues' \subseteq [key : Nat \ {0}, case : Nat] /\ issueComments' \subseteq Nat
      BY <1>0, <2>1 DEF TablesInv
  <2> QED
      BY <2>4, <2>5, <2>6 DEF TablesInv
<1>2. CASE InsertCase \/ GenerateCases
  <2>1. UNCHANGED <<threads, issues, issueComments>>
      BY <1>2 DEF InsertCase, GenerateCases
  <2> QED
      BY <1>0, <1>2, <2>1, CasesStored DEF TablesInv
<1>3. CASE InsertIssue
  <2>1. issues' = issues \cup {[key |-> nextKey + 1, case |-> Head(work)]} /\ UNCHANGED <<threads, issueComments>>
      BY <1>3 DEF InsertIssue
  <2>2. nextKey + 1 \in Nat \ {0}
      BY <1>0 DEF TypeOK
  <2>3. issues' \subseteq [key : Nat \ {0}, case : Nat]
      BY <1>0, <1>3, <2>1, <2>2, IssueStored DEF TablesInv
  <2> QED
      BY <1>0, <1>3, <2>1, <2>3, IssueStored DEF TablesInv
<1>4. CASE GenerateIssueComments \/ SkipIssueComments
    BY <1>0, <1>4 DEF TablesInv, GenerateIssueComments, SkipIssueComments, Keys
<1>5. ASSUME NEW t \in PerCase, InsertThread(t) PROVE TablesInv'
  <2>1. Head(work) \in Nat
      BY <1>0, <1>5 DEF InsertThread, Item, CallInv
  <2> QED
      BY <1>0, <1>5, <2>1 DEF TablesInv, InsertThread
<1>6. CASE UNCHANGED rowVars
    BY <1>0, <1>6 DEF TablesInv, rowVars
<1> QED
    BY <1>1, <1>2, <1>3, <1>4, <1>5, <1>6, OtherTables

\* What TypeOK says of the people and of the process.
PeopleTyped ==
    /\ segments \subseteq Segments /\ accounts \in Nat /\ contacted \subseteq 1..accounts
    /\ users \in BOOLEAN /\ jiraUsers \in BOOLEAN

ProcessTyped ==
    /\ program \in {"command", "pipeline"}
    /\ running \in BOOLEAN /\ begun \in BOOLEAN /\ clean \in BOOLEAN /\ issuesRan \in BOOLEAN
    /\ disturbed \in BOOLEAN
    /\ limit \in Limits \cup Batches \cup {0} /\ events \in 0..MaxEvent /\ nextNumber \in Nat /\ nextKey \in Nat

\* No step makes a contact of an account that is not there, nor drops the
\* accounts before the contacts.
LEMMA PeopleStep ==
    ASSUME GenInv, Next \/ UNCHANGED vars
    PROVE  PeopleTyped'
<1>0. PeopleTyped /\ CallInv
    BY DEF GenInv, TypeOK, PeopleTyped
<1>1. ASSUME NEW n \in Nat, NEW made, made \subseteq accounts + 1..accounts + n
      PROVE  contacted \cup made \subseteq 1..accounts + n /\ accounts + n \in Nat
    BY <1>0, <1>1 DEF PeopleTyped
<1>2. NAccounts \in Nat /\ Profile \subseteq Segments
    BY ConstantsAssumption
<1>3. CASE GenerateCustomers
    BY <1>0, <1>1, <1>2, <1>3 DEF GenerateCustomers, NewAccounts, PeopleTyped
<1>4. CASE SkipCustomers
  <2>1. UNCHANGED <<users, jiraUsers>> /\ \E made \in SUBSET Profile : segments' = segments \cup made
      BY <1>4 DEF SkipCustomers
  <2>2. segments' \subseteq Segments
      BY <1>0, <1>2, <2>1 DEF PeopleTyped
  <2>3. PICK n \in 0..NAccounts : /\ accounts' = accounts + n
                                 /\ \E made \in SUBSET (accounts + 1..accounts + n) : contacted' = contacted \cup made
      BY <1>4 DEF SkipCustomers
  <2>5. PICK made \in SUBSET (accounts + 1..accounts + n) : contacted' = contacted \cup made
      BY <2>3
  <2>6. n \in Nat
      BY <1>2
  <2>4. accounts' \in Nat /\ contacted' \subseteq 1..accounts'
      BY <1>1, <2>3, <2>5, <2>6
  <2> QED
      BY <1>0, <2>1, <2>2, <2>4 DEF PeopleTyped
<1>5. CASE GenerateAccounts \/ SkipAccounts
  <2>1. PICK n \in Nat : accounts' = accounts + n
      BY <1>2, <1>5 DEF GenerateAccounts, SkipAccounts
  <2>2. contacted \cup {} \subseteq 1..accounts + n /\ accounts + n \in Nat
      BY <1>1
  <2> QED
      BY <1>0, <1>5, <2>1, <2>2 DEF GenerateAccounts, SkipAccounts, PeopleTyped
<1>6. CASE GenerateUsers \/ SkipUsers
    BY <1>0, <1>6 DEF GenerateUsers, SkipUsers, PeopleTyped
<1>7. CASE InsertContact
  <2>1. Head(work) \in 1..accounts
      BY <1>0, <1>7 DEF InsertContact, Item, At, CallInv, Working, Range
  <2> QED
      BY <1>0, <1>7, <2>1 DEF InsertContact, PeopleTyped
<1>8. CASE Drop
  <2>1. accounts' # accounts => contacted = {}
    <3>1. accounts' # accounts => Head(drops) = "accounts"
        BY <1>8 DEF Drop, Emptied
    <3>2. Head(drops) = "accounts" => ~Rows("contacts")
        BY <1>8 DEF Drop, Referring
    <3> QED
        BY <3>1, <3>2 DEF Rows
  <2>2. segments' \in {segments, {}} /\ contacted' \in {contacted, {}} /\ accounts' \in {accounts, 0} /\ users' \in {users, FALSE} /\ jiraUsers' \in {jiraUsers, FALSE}
      BY <1>8 DEF Drop, Emptied
  <2>3. accounts' \in Nat /\ contacted' \subseteq 1..accounts'
      BY <1>0, <2>1, <2>2 DEF PeopleTyped
  <2>4. users' \in BOOLEAN /\ jiraUsers' \in BOOLEAN /\ segments' \subseteq Segments
      BY <1>0, <2>2 DEF PeopleTyped
  <2> QED
      BY <2>3, <2>4 DEF PeopleTyped
<1>9. CASE UNCHANGED peopleVars
    BY <1>0, <1>9 DEF PeopleTyped, peopleVars
<1>10. ~(GenerateCustomers \/ SkipCustomers \/ GenerateAccounts \/ SkipAccounts \/ GenerateUsers \/ SkipUsers
        \/ InsertContact \/ Drop)
         => UNCHANGED peopleVars
  <2>1. CASE \/ \E plan, reset : Start(plan, reset) \/ CallAgain(plan)
             \/ End \/ GenerateCases \/ SkipCases \/ CasesFail \/ BatchFails \/ NoUsers
             \/ GenerateIssueComments \/ SkipIssueComments
      BY <2>1 DEF Start, CallAgain, End, GenerateCases, SkipCases, CasesFail, BatchFails, NoUsers, Fail,
         GenerateIssueComments, SkipIssueComments
  <2>2. CASE \/ \E step : Begin(step) \/ RowFails(step) \/ RowsDone(step)
             \/ InsertCase \/ CaseConflict \/ NoContact \/ InsertIssue \/ IssueConflict
             \/ \E t \in PerCase : InsertThread(t)
      BY <2>2 DEF Begin, RowFails, RowsDone, InsertCase, CaseConflict, NoContact, InsertIssue, IssueConflict, InsertThread
  <2> QED
      BY <2>1, <2>2 DEF Next, vars
<1> QED
    BY <1>3, <1>4, <1>5, <1>6, <1>7, <1>8, <1>9, <1>10

\* A process is of one program, and goes wrong at most so often.
LEMMA ProcessProgram ==
    ASSUME GenInv, Next \/ UNCHANGED vars
    PROVE  program' = program /\ events' \in 0..MaxEvent
<1>0. ProcessTyped
    BY DEF GenInv, TypeOK, ProcessTyped
<1>1. MaxEvent \in Nat
    BY ConstantsAssumption
<1>2. Event => events' \in 0..MaxEvent
    BY <1>0, <1>1 DEF Event, ProcessTyped
<1>3. CASE \E plan, reset : Start(plan, reset) \/ CallAgain(plan)
    BY <1>2, <1>3 DEF Start, CallAgain, Call
<1>4. CASE \/ SkipCustomers \/ SkipAccounts \/ SkipUsers \/ SkipIssueComments \/ BatchFails \/ \E step : RowFails(step)
    BY <1>2, <1>4 DEF SkipCustomers, SkipAccounts, SkipUsers, SkipIssueComments, BatchFails, RowFails, Fail
<1>5. CASE CasesFail
    BY <1>0, <1>2, <1>5 DEF CasesFail, Fail, ProcessTyped
<1>6. CASE \/ End \/ Drop \/ GenerateCustomers \/ GenerateAccounts \/ GenerateUsers \/ GenerateCases \/ SkipCases
           \/ GenerateIssueComments \/ NoUsers
    BY <1>0, <1>6 DEF End, Drop, GenerateCustomers, GenerateAccounts, GenerateUsers, GenerateCases, SkipCases,
       GenerateIssueComments, NoUsers, Fail, fixedVars, ProcessTyped
<1>7. CASE \/ \E step : Begin(step) \/ RowsDone(step)
           \/ InsertContact \/ InsertCase \/ CaseConflict \/ NoContact \/ InsertIssue \/ IssueConflict
           \/ \E t \in PerCase : InsertThread(t)
    BY <1>0, <1>7 DEF Begin, RowsDone, InsertContact, InsertCase, CaseConflict, NoContact, InsertIssue, IssueConflict,
       InsertThread, fixedVars, ProcessTyped
<1>8. CASE UNCHANGED vars
    BY <1>0, <1>8 DEF vars, fixedVars, ProcessTyped
<1> QED
    BY <1>3, <1>4, <1>5, <1>6, <1>7, <1>8 DEF Next

\* The fixed part of a step of a generator, and what it does to the flags.
LEMMA ProcessStep ==
    ASSUME GenInv, Next \/ UNCHANGED vars
    PROVE  ProcessTyped'
<1>0. ProcessTyped /\ CallInv
    BY DEF GenInv, TypeOK, ProcessTyped
<1>1. Limits \cup Batches \subseteq Nat
    BY ConstantsAssumption
<1>3. program' = program /\ events' \in 0..MaxEvent
    BY ProcessProgram
<1>4. /\ running' \in BOOLEAN /\ begun' \in BOOLEAN /\ clean' \in BOOLEAN
      /\ limit' \in Limits \cup Batches \cup {0} /\ nextNumber' \in Nat /\ nextKey' \in Nat
  <2> USE <1>0 DEF ProcessTyped, counterVars, callVars, fixedVars
  <2>1. CASE \E plan, reset : Start(plan, reset) \/ CallAgain(plan)
      BY <2>1 DEF Start, CallAgain, Call
  <2>2. CASE End \/ Drop
    <3>1. CASE End
        BY <3>1 DEF End, CountersLost
    <3>2. CASE Drop
        BY <3>2 DEF Drop
    <3> QED
        BY <2>2, <3>1, <3>2
  <2>3. CASE GenerateCustomers \/ SkipCustomers \/ GenerateAccounts \/ SkipAccounts \/ GenerateUsers \/ SkipUsers
      BY <2>3 DEF GenerateCustomers, SkipCustomers, GenerateAccounts, SkipAccounts, GenerateUsers, SkipUsers, Finish
  <2>4. CASE GenerateCases \/ SkipCases \/ CasesFail
    <3>1. limit \in Nat
        BY <1>1
    <3>2. CASE GenerateCases
      <4>1. nextNumber + limit \in Nat
          BY <3>1
      <4> QED
          BY <3>2, <4>1 DEF GenerateCases, Finish
    <3>3. CASE SkipCases
        BY <3>3 DEF SkipCases, Finish
    <3>4. CASE CasesFail
      <4>1. nextNumber + limit \in Nat
          BY <3>1
      <4> QED
          BY <3>4, <4>1 DEF CasesFail, Fail
    <3> QED
        BY <2>4, <3>2, <3>3, <3>4
  <2>5. CASE GenerateIssueComments \/ SkipIssueComments \/ BatchFails \/ NoUsers
      BY <2>5 DEF GenerateIssueComments, SkipIssueComments, BatchFails, NoUsers, Finish, Fail
  <2>6. CASE \E step : Begin(step) \/ RowFails(step) \/ RowsDone(step)
    <3>1. CASE \E step : Begin(step)
        BY <3>1 DEF Begin
    <3>2. CASE \E step : RowFails(step)
      <4>1. nextNumber + 1 \in Nat /\ nextKey + 1 \in Nat
          OBVIOUS
      <4>2. nextNumber' \in {nextNumber, nextNumber + 1} /\ nextKey' \in {nextKey, nextKey + 1}
          BY <3>2 DEF RowFails
      <4>3. nextNumber' \in Nat /\ nextKey' \in Nat
          BY <4>1, <4>2
      <4> QED
          BY <3>2, <4>3 DEF RowFails
    <3>3. CASE \E step : RowsDone(step)
        BY <3>3 DEF RowsDone, Finish
    <3> QED
        BY <2>6, <3>1, <3>2, <3>3
  <2>7. CASE InsertContact \/ InsertCase \/ CaseConflict \/ NoContact
      BY <2>7 DEF InsertContact, InsertCase, CaseConflict, NoContact
  <2>8. CASE InsertIssue \/ IssueConflict \/ \E t \in PerCase : InsertThread(t)
      BY <2>8 DEF InsertIssue, IssueConflict, InsertThread
  <2>9. CASE UNCHANGED vars
      BY <2>9 DEF vars
  <2> QED
      BY <2>1, <2>2, <2>3, <2>4, <2>5, <2>6, <2>7, <2>8, <2>9 DEF Next
<1>6. issuesRan' \in BOOLEAN /\ disturbed' \in BOOLEAN
  <2>1. issuesRan \in BOOLEAN /\ disturbed \in BOOLEAN
      BY <1>0 DEF ProcessTyped
  <2>2. \/ issuesRan' = issuesRan \/ issuesRan' = FALSE \/ \E step : issuesRan' = (issuesRan \/ step = "issues")
    <3>1. CASE \/ \E plan, reset : Start(plan, reset) \/ CallAgain(plan)
               \/ End \/ Drop \/ GenerateCustomers \/ SkipCustomers \/ GenerateAccounts \/ SkipAccounts
               \/ GenerateUsers \/ SkipUsers \/ GenerateCases \/ SkipCases \/ CasesFail \/ BatchFails \/ NoUsers
               \/ GenerateIssueComments \/ SkipIssueComments
        BY <3>1 DEF Start, CallAgain, End, Drop, GenerateCustomers, SkipCustomers, GenerateAccounts, SkipAccounts,
           GenerateUsers, SkipUsers, GenerateCases, SkipCases, CasesFail, BatchFails, NoUsers, GenerateIssueComments,
           SkipIssueComments
    <3>2. CASE \/ \E step : Begin(step) \/ RowFails(step) \/ RowsDone(step)
               \/ InsertContact \/ InsertCase \/ CaseConflict \/ NoContact \/ InsertIssue \/ IssueConflict
               \/ \E t \in PerCase : InsertThread(t)
        BY <3>2 DEF Begin, RowFails, RowsDone, InsertContact, InsertCase, CaseConflict, NoContact, InsertIssue,
           IssueConflict, InsertThread
    <3> QED
        BY <3>1, <3>2 DEF Next, vars
  <2>3. \/ disturbed' = disturbed
        \/ \E p \in BOOLEAN : disturbed' = (disturbed \/ p) \/ disturbed' = p
    <3>1. CASE \E plan, reset : Start(plan, reset) \/ CallAgain(plan)
        BY <3>1, Zenon DEF Start, CallAgain
    <3>2. CASE Drop
      <4>1. (Len(drops) > 1) \in BOOLEAN
          BY SMT
      <4>2. disturbed' = (Len(drops) > 1)
          BY <3>2 DEF Drop
      <4> QED
          BY <4>1, <4>2, Zenon
    <3>3. CASE InsertCase \/ GenerateCases
        BY <3>3, Zenon DEF InsertCase, GenerateCases
    <3>4. CASE \E step : Begin(step)
        BY <3>4, Zenon DEF Begin
    <3>5. CASE \/ End \/ GenerateCustomers \/ SkipCustomers \/ GenerateAccounts \/ SkipAccounts \/ GenerateUsers
               \/ SkipUsers \/ SkipCases \/ CasesFail \/ BatchFails \/ NoUsers \/ GenerateIssueComments \/ SkipIssueComments
        BY <3>5 DEF End, GenerateCustomers, SkipCustomers, GenerateAccounts, SkipAccounts, GenerateUsers, SkipUsers, SkipCases,
           CasesFail, BatchFails, NoUsers, Fail, GenerateIssueComments, SkipIssueComments
    <3>6. CASE \/ \E step : RowFails(step) \/ RowsDone(step)
               \/ InsertContact \/ CaseConflict \/ NoContact \/ InsertIssue \/ IssueConflict
               \/ \E t \in PerCase : InsertThread(t)
        BY <3>6 DEF RowFails, RowsDone, InsertContact, CaseConflict, NoContact, InsertIssue, IssueConflict, InsertThread
    <3> QED
        BY <3>1, <3>2, <3>3, <3>4, <3>5, <3>6 DEF Next, vars
  <2>4. \A p, q : (p \/ q) \in BOOLEAN
      BY Zenon
  <2> QED
      BY <2>1, <2>2, <2>3, <2>4, Zenon
<1>5. program' \in {"command", "pipeline"}
    BY <1>0, <1>3 DEF ProcessTyped
<1> QED
    BY <1>3, <1>4, <1>5, <1>6 DEF ProcessTyped

\* The values the variables may take follow from the parts of the invariant.
LEMMA TypesStep ==
    ASSUME GenInv, Next \/ UNCHANGED vars
    PROVE  TypeOK'
<1>0. PeopleTyped' /\ ProcessTyped' /\ CallInv' /\ TablesInv' /\ ResetInv'
    BY PeopleStep, ProcessStep, CallStep, TablesStep, ResetStep DEF GenInv
<1>1. Range(cases') \subseteq Case
    BY <1>0, ElementOfSeq DEF TablesInv, Range
<1>2. Range(drops') \subseteq Range(Tables)
  <2>1. Range(drops') \subseteq TableNames
      BY <1>0, ElementOfSeq DEF ResetInv, Range
  <2>2. TableNames \subseteq Range(Tables)
      BY DEF TableNames, Range, Tables
  <2> QED
      BY <2>1, <2>2
<1>3. Range(todo') \subseteq Steps /\ done' \subseteq Steps /\ Range(work') \subseteq Nat
    BY <1>0, ElementOfSeq DEF CallInv, Range
<1>4. {users', jiraUsers', running', begun', clean', issuesRan', disturbed'} \subseteq BOOLEAN
    BY <1>0 DEF PeopleTyped, ProcessTyped
<1>5. issues' \subseteq [key : Nat, case : Nat]
    BY <1>0 DEF TablesInv
<1> QED
    BY <1>0, <1>1, <1>2, <1>3, <1>4, <1>5 DEF PeopleTyped, ProcessTyped, TablesInv, TypeOK, Steps, PerCase
-----------------------------------------------------------------------------
(* The case loop of a command. *)

\* The case loop has no part in the step: its numbers stay as they are, and
\* it has not come to an end after a change of the people.
LEMMA LoopKept ==
    ASSUME LoopInv, UNCHANGED <<program, nextNumber, limit>>,
           ~Working("cases"), ~Working("cases")',
           \A i \in DOMAIN todo' : \E k \in DOMAIN todo : todo'[i] = todo[k],
           Numbers' = Numbers \/ (Numbers' \subseteq Numbers /\ "cases" \notin done'),
           clean' => clean, running' => running,
           "cases" \in done' => "cases" \in done /\ UNCHANGED <<accounts, segments, contacted>>
    PROVE  LoopInv'
    BY DEF LoopInv, Everyone

\* The part of the call that is still to come only gets shorter.
LEMMA TodoShrinks ==
    ASSUME CallInv, todo' \in {todo, Tail(todo), <<>>}, todo # <<>>
    PROVE  \A i \in DOMAIN todo' : \E k \in DOMAIN todo : todo'[i] = todo[k]
<1>1. todo \in Seq(Steps) /\ Len(todo) \in Nat \ {0} /\ DOMAIN todo = 1..Len(todo)
    BY DEF CallInv
<1>2. CASE todo' = Tail(todo)
  <2>1. DOMAIN todo' = 1..Len(todo) - 1 /\ \A i \in DOMAIN todo' : todo'[i] = todo[i + 1]
      BY <1>1, <1>2
  <2>2. \A i \in 1..Len(todo) - 1 : i + 1 \in DOMAIN todo
      BY <1>1
  <2> QED
      BY <2>1, <2>2
<1>3. CASE todo' \in {todo, <<>>}
    BY <1>3
<1> QED
    BY <1>2, <1>3

\* What a generator that is at work or to come says of those that are done.
LEMMA DoneBefore ==
    ASSUME CallInv, NEW step, At(step), NEW d, Turn[d] \in Nat, Turn[step] \in Nat, Turn[step] <= Turn[d]
    PROVE  d \notin done
<1>1. todo \in Seq(Steps) /\ 1 \in DOMAIN todo /\ todo[1] = step
    BY DEF CallInv, At
<1> QED
    BY <1>1 DEF CallInv

\* A step of a generator other than the case loop.
LEMMA LoopNotAtWork ==
    ASSUME GenInv, NEW step \in Steps \ {"cases"}, At(step),
           UNCHANGED <<program, nextNumber, limit>>, Numbers' = Numbers,
           (todo' = todo /\ done' = done) \/ Finish \/ (todo' = <<>> /\ done' = done),
           clean' => clean,
           Turn[step] <= 3 \/ UNCHANGED <<accounts, segments, contacted>>
    PROVE  LoopInv'
<1>1. LoopInv /\ CallInv
    BY DEF GenInv
<1>2. running /\ todo # <<>> /\ Head(todo) = step
    BY DEF At
<1>3. ~Working("cases")
    BY <1>2 DEF Working
<1>4. todo' \in {todo, Tail(todo), <<>>} /\ ("cases" \in done' => "cases" \in done)
    BY <1>2 DEF Finish
<1>5. ~Working("cases")'
    BY <1>2 DEF Finish, Working
<1>6. Turn[step] <= 3 => "cases" \notin done
    BY <1>1, TurnIs, DoneBefore
<1> QED
    BY <1>1, <1>2, <1>3, <1>4, <1>5, <1>6, LoopKept, TodoShrinks

\* A step of the case loop itself.
LEMMA LoopAtWork ==
    ASSUME GenInv, program = "command",
           \/ Begin("cases") \/ RowFails("cases") \/ RowsDone("cases") \/ InsertCase \/ CaseConflict \/ NoContact
    PROVE  LoopInv'
<1>0. LoopInv /\ CallInv /\ TypeOK
    BY DEF GenInv
<1>1. /\ At("cases") /\ running /\ todo # <<>> /\ Head(todo) = "cases" /\ limit \in Nat \ {0} /\ limit \in Limits
      /\ todo \in Seq(Steps) /\ 1 \in DOMAIN todo /\ todo[1] = "cases"
  <2>1. At("cases")
      BY DEF Begin, RowFails, RowsDone, InsertCase, CaseConflict, NoContact, Item
  <2>2. running /\ todo # <<>> /\ Head(todo) = "cases"
      BY <2>1 DEF At
  <2>3. limit \in Limits /\ limit \in Nat \ {0}
      BY <1>0, <2>2, ConstantsAssumption DEF LoopInv
  <2>4. todo \in Seq(Steps) /\ 1 \in DOMAIN todo /\ todo[1] = "cases"
      BY <1>0, <2>2 DEF CallInv
  <2> QED
      BY <2>1, <2>2, <2>3, <2>4
<1>2. /\ work \in Seq(Nat) /\ nextNumber \in Nat /\ accounts \in Nat /\ contacted \subseteq 1..accounts
      /\ \A n \in Numbers : \E most \in Limits : n <= Asked(Segments, most)
      /\ \A i \in DOMAIN todo : todo[i] # "caseBatch"
    BY <1>0 DEF TypeOK, CallInv, LoopInv
<1>3. UNCHANGED <<accounts, segments, contacted, limit, running>> /\ (clean' => clean)
    BY DEF Begin, RowFails, RowsDone, InsertCase, CaseConflict, NoContact, peopleVars, fixedVars
<1>13. PICK asked \in Nat : asked = Asked(segments, limit) /\ asked <= Asked(Segments, limit)
    BY <1>1, AskedBounds
<1>14. asked = Asked(segments', limit')
    BY <1>3, <1>13
<1>4. CASE Begin("cases")
  <2>1. begun = FALSE /\ UNCHANGED <<nextNumber, todo, done, cases>> /\ work' = Fetch("cases")
      BY <1>0, <1>4 DEF Begin, counterVars, rowVars, TypeOK
  <2>2. nextNumber = 0
      BY <1>0, <1>1, <2>1 DEF LoopInv, Working
  <2>3. Len(work') = asked
      BY <1>13, <2>1 DEF Fetch
  <2>4. "cases" \notin done
      BY <1>0, <1>1, TurnIs, DoneBefore
  <2>5. Working("cases")' /\ Numbers' = Numbers
      BY <1>1, <1>4, <2>1 DEF Working, Begin, Numbers
  <2> QED
      BY <1>0, <1>1, <1>2, <1>3, <1>14, <2>1, <2>2, <2>3, <2>4, <2>5 DEF LoopInv, Everyone
<1>5. CASE RowsDone("cases")
  <2>1. work = <<>> /\ begun /\ Finish /\ UNCHANGED <<nextNumber, cases>>
      BY <1>5 DEF RowsDone, counterVars, rowVars
  <2>2. Working("cases") /\ Len(work) = 0
      BY <1>1, <2>1 DEF Working
  <2>3. DOMAIN todo' = 1..Len(todo) - 1 /\ Len(todo) \in Nat /\ \A i \in DOMAIN todo' : todo'[i] = todo[i + 1]
      BY <1>1, <2>1 DEF Finish
  <2>4. \A i \in DOMAIN todo' : i + 1 \in DOMAIN todo /\ 1 < i + 1
      BY <1>1, <2>3
  <2>5. \A i \in DOMAIN todo' : todo'[i] # "cases"
      BY <1>0, <1>1, <2>3, <2>4, TurnIs DEF CallInv, Ordered
  <2>6. ~Working("cases")' /\ Numbers' = Numbers
      BY <2>1 DEF Working, Finish, Numbers
  <2>7. clean /\ Everyone => 1..asked \subseteq Numbers
      BY <1>0, <1>1, <1>2, <1>13, <2>2 DEF LoopInv
  <2> QED
      BY <1>1, <1>2, <1>3, <1>14, <2>3, <2>4, <2>5, <2>6, <2>7 DEF LoopInv, Everyone
<1>6. CASE RowFails("cases") \/ InsertCase \/ CaseConflict \/ NoContact
  <2>1. Item("cases") /\ UNCHANGED <<todo, begun, done>>
      BY <1>6 DEF RowFails, InsertCase, CaseConflict, NoContact
  <2>2. Working("cases") /\ Working("cases")'
      BY <1>1, <2>1 DEF Item, Working
  <2>3. Len(work') = Len(work) - 1 /\ Len(work) \in Nat \ {0}
      BY <1>2, <2>1 DEF Item
  <2>4. "cases" \notin done'
      BY <1>0, <1>1, <2>1, TurnIs, DoneBefore
  <2>5. nextNumber + Len(work) <= asked
      BY <1>0, <1>13, <2>2 DEF LoopInv
  <2>6. clean /\ Everyone => nextNumber + Len(work) = asked /\ 1..nextNumber \subseteq Numbers
      BY <1>0, <1>13, <2>2 DEF LoopInv
  <2>7. \/ nextNumber' = nextNumber + 1
        \/ nextNumber' = nextNumber /\ ~Everyone
    <3>1. CASE NoContact
      <4>1. Cardinality(contacted) < accounts /\ nextNumber' = nextNumber
          BY <3>1 DEF NoContact, counterVars
      <4>2. accounts \in Nat => Cardinality(1..accounts) = accounts
          BY FS_Interval
      <4> QED
          BY <1>2, <4>1, <4>2 DEF Everyone
    <3>2. CASE RowFails("cases") \/ InsertCase \/ CaseConflict
        BY <3>2 DEF RowFails, InsertCase, CaseConflict
    <3> QED
        BY <1>6, <3>1, <3>2
  <2>8. \/ Numbers' = Numbers \cup {nextNumber + 1}
        \/ Numbers' = Numbers /\ (clean' => ~Everyone \/ nextNumber + 1 \in Numbers)
    <3>1. CASE InsertCase
        BY <1>1, <3>1, CasesStored DEF NewNumbers
    <3>2. CASE CaseConflict
        BY <3>2 DEF CaseConflict, Numbers, rowVars
    <3>3. CASE RowFails("cases")
        BY <3>3 DEF RowFails, Numbers, rowVars
    <3>4. CASE NoContact
      <4>1. Cardinality(contacted) < accounts /\ Numbers' = Numbers
          BY <3>4 DEF NoContact, rowVars, Numbers
      <4>2. accounts \in Nat => Cardinality(1..accounts) = accounts
          BY FS_Interval
      <4> QED
          BY <1>2, <4>1, <4>2 DEF Everyone
    <3> QED
        BY <1>6, <3>1, <3>2, <3>3, <3>4
  <2>9. \A n \in Numbers' : \E most \in Limits : n <= Asked(Segments, most)
    <3>1. Asked(Segments, limit) \in Nat /\ nextNumber + 1 <= Asked(Segments, limit)
        BY <1>1, <1>2, <1>13, <2>3, <2>5, AskedBounds
    <3> QED
        BY <1>1, <1>2, <2>8, <3>1
  <2>10. nextNumber' + Len(work') <= asked
      BY <1>1, <1>2, <2>3, <2>5, <2>7
  <2>11. clean' /\ Everyone => nextNumber' + Len(work') = asked /\ 1..nextNumber' \subseteq Numbers'
    <3> SUFFICES ASSUME clean', Everyone
                 PROVE  nextNumber' + Len(work') = asked /\ 1..nextNumber' \subseteq Numbers'
        OBVIOUS
    <3>1. nextNumber + Len(work) = asked /\ 1..nextNumber \subseteq Numbers /\ nextNumber' = nextNumber + 1
        BY <1>3, <2>6, <2>7
    <3>2. Numbers \subseteq Numbers' /\ nextNumber + 1 \in Numbers'
        BY <2>8
    <3>3. \A n \in 1..nextNumber + 1 : n \in 1..nextNumber \/ n = nextNumber + 1
        BY <1>2
    <3>4. nextNumber' + Len(work') = asked
        BY <1>2, <2>3, <3>1
    <3>5. 1..nextNumber' \subseteq Numbers'
      <4> SUFFICES ASSUME NEW n \in 1..nextNumber + 1 PROVE n \in Numbers'
          BY <3>1
      <4> QED
          BY <3>1, <3>2, <3>3
    <3> QED
        BY <3>4, <3>5
  <2> QED
      BY <1>1, <1>2, <1>3, <1>14, <2>1, <2>2, <2>4, <2>9, <2>10, <2>11 DEF LoopInv, Everyone
<1> QED
    BY <1>4, <1>5, <1>6

\* Every step keeps the case loop to its numbers.
LEMMA LoopStep ==
    ASSUME GenInv, Next \/ UNCHANGED vars
    PROVE  LoopInv'
<1>0. LoopInv /\ CallInv /\ TypeOK /\ TablesInv
    BY DEF GenInv
<1> SUFFICES ASSUME program = "command", program' = program PROVE LoopInv'
  <2>1. program' = program
      BY ProcessProgram
  <2> QED
      BY <2>1 DEF LoopInv
<1>1. ASSUME NEW plan \in CommandPlans, NEW reset \in BOOLEAN, Start(plan, reset) PROVE LoopInv'
  <2>1. /\ ~running /\ todo' = plan /\ begun' = FALSE /\ done' = {} /\ nextNumber' = nextNumber /\ cases' = cases
        /\ limit' \in Limits
      BY <1>1 DEF Start, Call, counterVars, rowVars
  <2>2. nextNumber = 0
      BY <1>0, <2>1 DEF CallInv
  <2>3. \A i \in DOMAIN todo' : todo'[i] # "caseBatch"
      BY <2>1, Plans
  <2>4. Numbers' = Numbers /\ ~Working("cases")'
      BY <2>1 DEF Numbers, Working
  <2> QED
      BY <1>0, <2>1, <2>2, <2>3, <2>4 DEF LoopInv
<1>2. ASSUME NEW plan, CallAgain(plan) PROVE FALSE
    BY <1>2 DEF CallAgain
<1>3. CASE End
  <2>1. todo' = <<>> /\ begun' = FALSE /\ done' = {} /\ cases' = cases /\ running' = FALSE
      BY <1>3 DEF End, rowVars
  <2>2. Numbers' = Numbers /\ ~Working("cases")' /\ DOMAIN todo' = {}
      BY <2>1 DEF Numbers, Working
  <2> QED
      BY <1>0, <2>1, <2>2 DEF LoopInv
<1>4. CASE Drop
  <2>1. UNCHANGED <<todo, done, begun, nextNumber, limit, clean, running>> /\ cases' \in {cases, <<>>} /\ drops # <<>>
      BY <1>4 DEF Drop, callVars, counterVars, Emptied
  <2>2. done = {} /\ begun = FALSE
      BY <1>0, <2>1 DEF CallInv, TypeOK
  <2>3. Numbers' \subseteq Numbers
      BY <2>1 DEF Numbers, Range
  <2> QED
      BY <1>0, <2>1, <2>2, <2>3, LoopKept DEF Working
<1>5. CASE GenerateCases \/ SkipCases \/ CasesFail
  <2>1. At("caseBatch")
      BY <1>5 DEF GenerateCases, SkipCases, CasesFail
  <2>2. todo \in Seq(Steps) /\ 1 \in DOMAIN todo /\ todo[1] = "caseBatch"
      BY <1>0, <2>1 DEF CallInv, At
  <2> QED
      BY <1>0, <2>2 DEF LoopInv
<1>6. CASE GenerateCustomers \/ SkipCustomers \/ GenerateAccounts \/ SkipAccounts \/ GenerateUsers \/ SkipUsers
           \/ GenerateIssueComments \/ SkipIssueComments \/ BatchFails
  <2>1. PICK step \in {"customers", "accounts", "team", "issueComments"} :
          /\ At(step) /\ UNCHANGED <<nextNumber, limit, cases>> /\ (clean' => clean)
          /\ Finish \/ (todo' = <<>> /\ done' = done)
          /\ step # "issueComments" \/ UNCHANGED <<accounts, segments, contacted>>
      BY <1>6 DEF GenerateCustomers, SkipCustomers, GenerateAccounts, SkipAccounts, GenerateUsers, SkipUsers,
         GenerateIssueComments,
         SkipIssueComments, BatchFails, Fail, counterVars, rowVars, fixedVars, peopleVars
  <2>2. Numbers' = Numbers /\ step \in Steps \ {"cases"} /\ (step # "issueComments" => Turn[step] <= 3)
      BY <2>1, TurnIs DEF Numbers, Steps
  <2> QED
      BY <2>1, <2>2, LoopNotAtWork
<1>7. CASE NoUsers
  <2>1. todo' = <<>> /\ clean' = FALSE /\ UNCHANGED <<nextNumber, limit, cases, done, running>>
      BY <1>7 DEF NoUsers, Fail, counterVars, rowVars
  <2>2. Numbers' = Numbers /\ DOMAIN todo' = {} /\ ~Working("cases")'
      BY <2>1 DEF Numbers, Working
  <2> QED
      BY <1>0, <2>1, <2>2 DEF LoopInv
<1>8. ASSUME NEW step \in RowByRow \ {"cases"}, Begin(step) \/ RowFails(step) \/ RowsDone(step) PROVE LoopInv'
  <2>1. /\ At(step) /\ UNCHANGED <<nextNumber, limit, cases, accounts, segments, contacted>> /\ (clean' => clean)
        /\ Finish \/ (todo' = todo /\ done' = done)
      BY <1>8 DEF Begin, RowFails, RowsDone, Item, counterVars, rowVars, fixedVars, peopleVars
  <2>2. Numbers' = Numbers /\ step \in Steps \ {"cases"}
      BY <2>1 DEF Numbers, Steps, RowByRow, PerCase
  <2> QED
      BY <2>1, <2>2, LoopNotAtWork
<1>9. CASE Begin("cases") \/ RowFails("cases") \/ RowsDone("cases") \/ InsertCase \/ CaseConflict \/ NoContact
    BY <1>9, LoopAtWork
<1>10. CASE InsertContact \/ IssueConflict \/ \E t \in PerCase : InsertThread(t)
  <2>1. PICK step \in {"contacts", "issues", "emails", "comments", "feed"} :
          /\ At(step) /\ UNCHANGED <<nextNumber, limit, cases, clean, todo, done>>
          /\ step = "contacts" \/ UNCHANGED <<accounts, segments, contacted>>
      BY <1>10 DEF InsertContact, IssueConflict, InsertThread, Item, counterVars, rowVars, fixedVars, peopleVars, PerCase
  <2>2. Numbers' = Numbers /\ step \in Steps \ {"cases"} /\ (step = "contacts" => Turn[step] <= 3)
      BY <2>1, TurnIs DEF Numbers, Steps
  <2> QED
      BY <2>1, <2>2, LoopNotAtWork
<1>11. CASE InsertIssue
  <2>1. At("issues") /\ UNCHANGED <<nextNumber, limit, clean, todo, done, accounts, segments, contacted>>
      BY <1>11 DEF InsertIssue, Item, fixedVars, peopleVars
  <2>2. Numbers' = Numbers
      BY <1>11, IssueStored DEF Numbers, Range
  <2>3. "issues" \in Steps \ {"cases"}
      BY DEF Steps
  <2> QED
      BY <2>1, <2>2, <2>3, LoopNotAtWork
<1>12. CASE UNCHANGED vars
    BY <1>0, <1>12 DEF vars, counterVars, callVars, rowVars, peopleVars, fixedVars, LoopInv, Numbers, Working, Everyone
<1> QED
    BY <1>1, <1>2, <1>3, <1>4, <1>5, <1>6, <1>7, <1>8, <1>9, <1>10, <1>11, <1>12 DEF Next
-----------------------------------------------------------------------------
(* The threads of the cases, and the comments of the issues. *)

\* Before the threads nothing is covered yet.
LEMMA CoverNotBegun ==
    ASSUME GenInv, NEW step \in Steps, At(step), Turn[step] <= 4,
           (todo' = todo /\ done' = done) \/ Finish
    PROVE  CoverInv'
<1>1. CallInv
    BY DEF GenInv
<1>2. \A d \in PerCase \cup {"issueComments"} : d \in Steps /\ Turn[d] > 4 /\ Turn[d] \in Nat
    BY TurnIs DEF PerCase, Steps
<1>3. \A d \in PerCase \cup {"issueComments"} : d \notin done /\ d # step
    BY <1>1, <1>2, TurnIs, DoneBefore
<1>4. todo # <<>> /\ Head(todo) = step
    BY DEF At
<1>5. \A d \in PerCase \cup {"issueComments"} : d \notin done'
    BY <1>3, <1>4 DEF Finish
<1>6. \A t \in PerCase : ~Working(t)'
    BY <1>3, <1>4 DEF Working, Finish
<1> QED
    BY <1>5, <1>6 DEF CoverInv

\* Every step keeps what the generators have covered.
LEMMA CoverStep ==
    ASSUME GenInv, Next \/ UNCHANGED vars
    PROVE  CoverInv'
<1>0. CoverInv /\ CallInv /\ TypeOK /\ TablesInv
    BY DEF GenInv
<1>1. ASSUME done' = {}, begun' = FALSE PROVE CoverInv'
    BY <1>1 DEF CoverInv, Working
<1>2. ASSUME clean' = FALSE PROVE CoverInv'
    BY <1>2 DEF CoverInv
<1>3. CASE (\E plan, reset : Start(plan, reset) \/ CallAgain(plan)) \/ End
    BY <1>1, <1>3 DEF Start, CallAgain, Call, End
<1>4. CASE Drop
  <2>1. UNCHANGED <<done, begun>> /\ drops # <<>>
      BY <1>4 DEF Drop, callVars
  <2>2. done = {} /\ begun = FALSE
      BY <1>0, <2>1 DEF CallInv, TypeOK
  <2> QED
      BY <1>1, <2>1, <2>2
<1>5. CASE \/ SkipCustomers \/ SkipAccounts \/ SkipUsers \/ SkipIssueComments \/ BatchFails \/ NoUsers \/ CasesFail
           \/ \E step : RowFails(step)
    BY <1>2, <1>5 DEF SkipCustomers, SkipAccounts, SkipUsers, SkipIssueComments, BatchFails, NoUsers, CasesFail, Fail, RowFails
<1>6. CASE \/ GenerateCustomers \/ GenerateAccounts \/ GenerateUsers \/ GenerateCases \/ SkipCases
           \/ InsertContact \/ InsertCase \/ CaseConflict \/ NoContact
           \/ \E step \in {"contacts", "cases"} : Begin(step) \/ RowsDone(step)
  <2>1. PICK step \in {"customers", "accounts", "team", "caseBatch", "contacts", "cases"} :
          At(step) /\ ((todo' = todo /\ done' = done) \/ Finish)
      BY <1>6 DEF GenerateCustomers, GenerateAccounts, GenerateUsers, GenerateCases, SkipCases, InsertContact, InsertCase,
         CaseConflict, NoContact, Begin, RowsDone, Item
  <2>2. step \in Steps /\ Turn[step] <= 4
      BY TurnIs DEF Steps
  <2> QED
      BY <2>1, <2>2, CoverNotBegun
<1>7. ASSUME NEW t \in PerCase, Begin(t) PROVE CoverInv'
  <2>1. /\ At(t) /\ UNCHANGED <<users, jiraUsers, cases, threads, issues, issueComments, todo, clean, done>>
        /\ work' = Fetch(t)
      BY <1>7 DEF Begin, peopleVars, rowVars
  <2>2. users => work' = [i \in DOMAIN cases |-> cases[i].number]
      BY <2>1 DEF Fetch, PerCase
  <2>3. users => Range(work') = Numbers
      BY <2>2 DEF Range, Numbers
  <2>4. Numbers' = Numbers /\ Keys' = Keys /\ \A u \in PerCase : Working(u)' => u = t
      BY <2>1 DEF Numbers, Keys, Working, At
  <2> QED
      BY <1>0, <2>1, <2>3, <2>4 DEF CoverInv
<1>8. ASSUME NEW t \in PerCase, InsertThread(t) PROVE CoverInv'
  <2>1. /\ Item(t) /\ UNCHANGED <<users, jiraUsers, cases, issues, issueComments, todo, begun, clean, done>>
        /\ threads' = [threads EXCEPT ![t] = @ \cup {Head(work)}] /\ work \in Seq(Nat) /\ work # <<>>
        /\ threads \in [PerCase -> SUBSET Nat]
      BY <1>0, <1>8 DEF InsertThread, Item, peopleVars, fixedVars, CallInv, TablesInv
  <2>2. Range(work) \subseteq {Head(work)} \cup Range(work')
    <3>1. ASSUME NEW i \in DOMAIN work PROVE work[i] = Head(work) \/ \E k \in DOMAIN work' : work'[k] = work[i]
      <4>1. i = 1 \/ (i - 1 \in DOMAIN work' /\ work'[i - 1] = work[i])
          BY <2>1, <3>1 DEF Item
      <4> QED
          BY <2>1, <4>1
    <3> QED
        BY <3>1 DEF Range
  <2>3. \A u \in PerCase : threads[u] \subseteq threads'[u] /\ Head(work) \in threads'[t]
      BY <2>1
  <2>4. Numbers' = Numbers /\ Keys' = Keys /\ \A u \in PerCase : (Working(u)' <=> Working(u)) /\ (Working(u) => u = t)
      BY <2>1 DEF Numbers, Keys, Working, Item, At
  <2> QED
      BY <1>0, <1>8, <2>1, <2>2, <2>3, <2>4 DEF CoverInv
<1>9. ASSUME NEW t \in PerCase, RowsDone(t) PROVE CoverInv'
  <2>1. /\ At(t) /\ begun /\ work = <<>> /\ Finish /\ UNCHANGED <<users, jiraUsers, rowVars, clean>>
      BY <1>9 DEF RowsDone, peopleVars
  <2>2. Working(t) /\ Range(work) = {} /\ done' = done \cup {t} /\ begun' = FALSE
      BY <2>1 DEF Working, At, Range, Finish
  <2>3. Numbers' = Numbers /\ Keys' = Keys /\ UNCHANGED <<threads, issueComments>> /\ t # "issueComments"
      BY <2>1 DEF Numbers, Keys, rowVars, PerCase
  <2> QED
      BY <1>0, <2>1, <2>2, <2>3 DEF CoverInv, Working
<1>10. CASE InsertIssue \/ IssueConflict \/ Begin("issues") \/ RowsDone("issues")
  <2>1. /\ At("issues") /\ UNCHANGED <<users, jiraUsers, threads, clean>>
        /\ ((todo' = todo /\ done' = done) \/ Finish)
      BY <1>10 DEF InsertIssue, IssueConflict, Begin, RowsDone, Item, peopleVars, rowVars
  <2>2. "issueComments" \notin done
      BY <1>0, <2>1, TurnIs, DoneBefore
  <2>3. Numbers' = Numbers
    <3>1. CASE InsertIssue
        BY <3>1, IssueStored DEF Numbers, Range
    <3>2. CASE IssueConflict \/ Begin("issues") \/ RowsDone("issues")
        BY <3>2 DEF IssueConflict, Begin, RowsDone, rowVars, Numbers
    <3> QED
        BY <1>10, <3>1, <3>2
  <2>4. "issueComments" \notin done' /\ (\A t \in PerCase : (t \in done' => t \in done) /\ ~Working(t)')
      BY <2>1, <2>2 DEF At, Finish, PerCase, Working
  <2> QED
      BY <1>0, <2>1, <2>3, <2>4 DEF CoverInv
<1>11. CASE GenerateIssueComments
  <2>1. /\ At("issueComments") /\ UNCHANGED <<users, jiraUsers, threads, clean, cases, issues>>
        /\ Finish /\ (jiraUsers => issueComments' = Keys)
      BY <1>11 DEF GenerateIssueComments, peopleVars
  <2>2. Numbers' = Numbers /\ Keys' = Keys /\ \A t \in PerCase : (t \in done' => t \in done) /\ ~Working(t)'
      BY <2>1 DEF At, Finish, PerCase, Working, Numbers, Keys
  <2> QED
      BY <1>0, <2>1, <2>2 DEF CoverInv
<1>12. CASE UNCHANGED vars
    BY <1>0, <1>12 DEF vars, callVars, rowVars, peopleVars, CoverInv, Numbers, Keys, Working
<1>13. RowByRow = {"contacts", "cases", "issues"} \cup PerCase
    BY DEF RowByRow
<1> QED
    BY <1>3, <1>4, <1>5, <1>6, <1>7, <1>8, <1>9, <1>10, <1>11, <1>12, <1>13 DEF Next
-----------------------------------------------------------------------------
(* The links between cases and issues. *)

\* No two escalated cases have one number.
LEMMA EscalatedNumbers ==
    ASSUME TablesInv, NEW k \in DOMAIN Escalated, NEW m \in DOMAIN Escalated,
           Escalated[k].number = Escalated[m].number
    PROVE  k = m
<1>1. cases \in Seq(Case)
    BY DEF TablesInv
<1>2. cases[InOrder(EscalatedRows)[k]].number = cases[InOrder(EscalatedRows)[m]].number
    BY <1>1, EscalatedIs
<1>3. InOrder(EscalatedRows)[k] = InOrder(EscalatedRows)[m]
    BY <1>1, <1>2, EscalatedIs DEF TablesInv
<1> QED
    BY <1>1, <1>3, EscalatedIs

\* A step that leaves cases and issues alone and is none of the issue
\* generator's.
LEMMA LinkIdle ==
    ASSUME GenInv, disturbed => disturbed', UNCHANGED <<cases, issues>>, ~Working("issues")',
           clean' /\ jiraUsers' /\ "issues" \in done' => clean /\ jiraUsers /\ "issues" \in done
    PROVE  LinkInv'
<1>1. EscalatedRows' = EscalatedRows
    BY DEF EscalatedRows
<1>2. Escalated' = Escalated
    BY <1>1 DEF Escalated
<1>3. LinkRows' <=> LinkRows
    BY <1>2 DEF LinkRows
<1> QED
    BY <1>2, <1>3 DEF GenInv, LinkInv, LinkWork, LinkDone

\* The generator fetches the escalated cases, all with their keys to come.
LEMMA LinkBegin ==
    ASSUME GenInv, Begin("issues")
    PROVE  LinkInv'
<1> SUFFICES ASSUME ~disturbed' PROVE LinkInv'
    BY DEF LinkInv
<1>1. TypeOK /\ CallInv /\ TablesInv /\ LinkInv
    BY DEF GenInv
<1>2. /\ ~disturbed /\ ~issuesRan /\ begun' /\ todo # <<>> /\ Head(todo) = "issues" /\ work' = Fetch("issues")
      /\ UNCHANGED <<cases, issues, jiraUsers, nextKey, todo, clean, done>>
    BY DEF Begin, At, peopleVars, rowVars, counterVars
<1>3. nextKey = 0 /\ LinkRows /\ LinkDone
    BY <1>1, <1>2 DEF CallInv, LinkInv
<1>4. "issues" \notin done
    BY <1>1, TurnIs, DoneBefore DEF Begin
<1>5. EscalatedRows' = EscalatedRows
    BY <1>2 DEF EscalatedRows
<1>6. Escalated' = Escalated
    BY <1>2, <1>5 DEF Escalated
<1>7. LinkRows'
    BY <1>2, <1>3, <1>6 DEF LinkRows
<1>8. Len(Escalated) \in Nat /\ DOMAIN Escalated = 1..Len(Escalated)
    BY <1>1, EscalatedIs DEF TablesInv
<1>9. IF jiraUsers THEN work' = [i \in DOMAIN Escalated |-> Escalated[i].number] ELSE work' = <<>>
    BY <1>2 DEF Fetch
<1>10. LinkWork'
  <2> SUFFICES ASSUME work' # <<>>
               PROVE  /\ nextKey' + Len(work') = Len(Escalated)
                      /\ \A m \in DOMAIN work' : work'[m] = Escalated[nextKey' + m].number
      BY <1>6 DEF LinkWork
  <2>1. work' = [i \in 1..Len(Escalated) |-> Escalated[i].number]
      BY <1>8, <1>9
  <2>2. Len(work') = Len(Escalated) /\ DOMAIN work' = 1..Len(Escalated)
      BY <1>8, <2>1
  <2> QED
      BY <1>2, <1>3, <1>8, <2>1, <2>2
<1>11. LinkDone'
    BY <1>2, <1>4, <1>6, <1>9 DEF LinkDone, Range
<1> QED
    BY <1>7, <1>10, <1>11 DEF LinkInv

\* The head of the work of the issue generator is the case of the next key.
LEMMA NextIssue ==
    ASSUME GenInv, ~disturbed, Item("issues")
    PROVE  /\ LinkRows /\ LinkDone /\ Working("issues") /\ "issues" \notin done
           /\ nextKey \in Nat /\ work \in Seq(Nat) /\ Len(work) \in Nat \ {0} /\ DOMAIN work = 1..Len(work)
           /\ DOMAIN work' = 1..Len(work) - 1 /\ Len(work') = Len(work) - 1
           /\ \A m \in DOMAIN work' : m + 1 \in DOMAIN work /\ work'[m] = work[m + 1]
           /\ nextKey + 1 \in DOMAIN Escalated /\ Head(work) = Escalated[nextKey + 1].number
           /\ (nextKey + 1) + Len(work') = Len(Escalated)
           /\ \A m \in DOMAIN work' : work'[m] = Escalated[(nextKey + 1) + m].number
           /\ \A n \in Range(work) : n = Head(work) \/ n \in Range(work')
<1>1. TypeOK /\ CallInv /\ TablesInv /\ LinkRows /\ LinkWork /\ LinkDone
    BY DEF GenInv, LinkInv
<1>2. Working("issues") /\ work # <<>> /\ work' = Tail(work) /\ At("issues")
    BY DEF Item, At, Working
<1>3. nextKey \in Nat /\ work \in Seq(Nat)
    BY <1>1 DEF TypeOK, CallInv
<1>4. /\ Len(work) \in Nat \ {0} /\ DOMAIN work = 1..Len(work) /\ Head(work) = work[1]
      /\ DOMAIN work' = 1..Len(work) - 1 /\ Len(work') = Len(work) - 1
      /\ \A m \in DOMAIN work' : work'[m] = work[m + 1]
    BY <1>2, <1>3
<1>5. nextKey + Len(work) = Len(Escalated) /\ \A m \in DOMAIN work : work[m] = Escalated[nextKey + m].number
    BY <1>1, <1>2 DEF LinkWork
<1>6. DOMAIN Escalated = 1..Len(Escalated)
    BY <1>1, EscalatedIs DEF TablesInv
<1>7. nextKey + 1 \in DOMAIN Escalated /\ Head(work) = Escalated[nextKey + 1].number
  <2>1. 1 \in DOMAIN work
      BY <1>4
  <2> QED
      BY <1>3, <1>4, <1>5, <1>6, <2>1
<1>8. ASSUME NEW m \in DOMAIN work' PROVE m + 1 \in DOMAIN work /\ work'[m] = Escalated[(nextKey + 1) + m].number
  <2>1. m + 1 \in DOMAIN work /\ nextKey + (m + 1) = (nextKey + 1) + m
      BY <1>3, <1>4, <1>8
  <2>2. work[m + 1] = Escalated[nextKey + (m + 1)].number
      BY <1>5, <2>1
  <2> QED
      BY <1>4, <1>8, <2>1, <2>2
<1>9. ASSUME NEW n \in Range(work) PROVE n = Head(work) \/ n \in Range(work')
  <2>1. PICK i \in DOMAIN work : work[i] = n
      BY <1>9 DEF Range
  <2>2. i = 1 \/ (i - 1 \in DOMAIN work' /\ work'[i - 1] = n)
    <3>1. i = 1 \/ i - 1 \in DOMAIN work'
        BY <1>4
    <3>2. i - 1 \in DOMAIN work' => work'[i - 1] = work[(i - 1) + 1]
        BY <1>4
    <3>3. (i - 1) + 1 = i
        BY <1>4
    <3> QED
        BY <2>1, <3>1, <3>2, <3>3
  <2> QED
      BY <1>4, <2>1, <2>2 DEF Range
<1>10. "issues" \notin done
    BY <1>1, <1>2, TurnIs, DoneBefore
<1>11. (nextKey + 1) + Len(work') = Len(Escalated)
  <2>1. Len(work') = Len(work) - 1 /\ nextKey + Len(work) = Len(Escalated)
      BY <1>4, <1>5
  <2>2. nextKey \in Int /\ Len(work) \in Int
      BY <1>3, <1>4
  <2> QED
      BY <2>1, <2>2
<1> QED
    BY <1>1, <1>2, <1>3, <1>4, <1>7, <1>8, <1>9, <1>10, <1>11

\* A failure draws the key of the case it leaves out, a taken key is that of
\* this very case.
LEMMA LinkSkip ==
    ASSUME GenInv, RowFails("issues") \/ IssueConflict
    PROVE  LinkInv'
<1> SUFFICES ASSUME ~disturbed' PROVE LinkInv'
    BY DEF LinkInv
<1>1. /\ Item("issues") /\ nextKey' = nextKey + 1
      /\ UNCHANGED <<cases, issues, jiraUsers, todo, begun, done, disturbed>>
    BY DEF RowFails, IssueConflict, peopleVars, rowVars
<1>2. /\ LinkRows /\ LinkDone /\ Working("issues") /\ "issues" \notin done
      /\ Head(work) = Escalated[nextKey + 1].number
      /\ (nextKey + 1) + Len(work') = Len(Escalated)
      /\ \A m \in DOMAIN work' : work'[m] = Escalated[(nextKey + 1) + m].number
      /\ \A n \in Range(work) : n = Head(work) \/ n \in Range(work')
    BY <1>1, NextIssue
<1>3. EscalatedRows' = EscalatedRows
    BY <1>1 DEF EscalatedRows
<1>4. Escalated' = Escalated
    BY <1>1, <1>3 DEF Escalated
<1>5. LinkRows' /\ LinkWork'
    BY <1>1, <1>2, <1>4 DEF LinkRows, LinkWork
<1>6. LinkDone'
  <2>1. CASE RowFails("issues")
      BY <2>1 DEF RowFails, LinkDone
  <2>2. CASE IssueConflict
    <3>1. TablesInv
        BY DEF GenInv
    <3>2. PICK j \in issues : j.key = nextKey + 1
        BY <2>2 DEF IssueConflict, Keys
    <3>3. j.case = Head(work) /\ j.key # 0
        BY <1>2, <3>1, <3>2 DEF LinkRows, TablesInv
    <3>4. ASSUME NEW k \in DOMAIN Escalated, Escalated[k].number = Head(work) PROVE Escalated[k].key # 0
      <4>1. InOrder(EscalatedRows)[k] \in DOMAIN cases /\ Escalated[k] = cases[InOrder(EscalatedRows)[k]]
          BY <3>1, <3>4, EscalatedIs DEF TablesInv
      <4> QED
          BY <1>2, <3>3, <3>4, <4>1 DEF LinkRows
    <3>5. clean' = clean
        BY <2>2 DEF IssueConflict
    <3> QED
        BY <1>1, <1>2, <1>4, <3>4, <3>5 DEF LinkDone, Working
  <2> QED
      BY <2>1, <2>2
<1> QED
    BY <1>5, <1>6 DEF LinkInv

\* An issue and its case get the same key, which no other has.
LEMMA LinkInsert ==
    ASSUME GenInv, InsertIssue
    PROVE  LinkInv'
<1> SUFFICES ASSUME ~disturbed' PROVE LinkInv'
    BY DEF LinkInv
<1>0. TablesInv /\ cases \in Seq(Case)
    BY DEF GenInv, TablesInv
<1>1. /\ Item("issues") /\ nextKey' = nextKey + 1 /\ nextKey + 1 \notin Keys
      /\ issues' = issues \cup {[key |-> nextKey + 1, case |-> Head(work)]}
      /\ UNCHANGED <<jiraUsers, todo, begun, clean, done, disturbed>>
    BY DEF InsertIssue, peopleVars
<1>2. /\ LinkRows /\ LinkDone /\ Working("issues") /\ "issues" \notin done /\ nextKey \in Nat
      /\ nextKey + 1 \in DOMAIN Escalated /\ Head(work) = Escalated[nextKey + 1].number
      /\ (nextKey + 1) + Len(work') = Len(Escalated)
      /\ \A m \in DOMAIN work' : work'[m] = Escalated[(nextKey + 1) + m].number
      /\ \A m \in DOMAIN work' : m + 1 \in DOMAIN work
      /\ \A n \in Range(work) : n = Head(work) \/ n \in Range(work')
      /\ DOMAIN work' = 1..Len(work) - 1 /\ Len(work) \in Nat \ {0} /\ Len(work') = Len(work) - 1
    BY <1>1, NextIssue
<1>3. /\ cases' \in Seq(Case) /\ DOMAIN cases' = DOMAIN cases
      /\ \A i \in DOMAIN cases :
            /\ cases'[i].number = cases[i].number /\ cases'[i].escalated = cases[i].escalated
            /\ cases'[i].key = IF cases[i].number = Head(work) THEN nextKey + 1 ELSE cases[i].key
    BY IssueStored
<1>4. EscalatedRows' = EscalatedRows
    BY <1>3 DEF EscalatedRows
<1>5. DOMAIN Escalated' = DOMAIN Escalated /\ Len(Escalated') = Len(Escalated)
  <2>1. PICK n \in Nat : n = Cardinality(EscalatedRows)
      BY <1>0, EscalatedIs
  <2>2. Cardinality(EscalatedRows') = n
      BY <1>4, <2>1
  <2>3. /\ Escalated = [k \in 1..n |-> cases[InOrder(EscalatedRows)[k]]]
        /\ Escalated' = [k \in 1..n |-> cases'[InOrder(EscalatedRows')[k]]]
      BY <2>1, <2>2 DEF Escalated
  <2> QED
      BY <2>3
<1>6. ASSUME NEW k \in DOMAIN Escalated
      PROVE  /\ Escalated'[k].number = Escalated[k].number
             /\ Escalated'[k].key = IF Escalated[k].number = Head(work) THEN nextKey + 1 ELSE Escalated[k].key
  <2>1. InOrder(EscalatedRows)[k] \in DOMAIN cases /\ Escalated[k] = cases[InOrder(EscalatedRows)[k]]
      BY <1>0, <1>6, EscalatedIs
  <2>2. Escalated'[k] = cases'[InOrder(EscalatedRows)[k]]
      BY <1>4, <1>5, <1>6 DEF Escalated
  <2> QED
      BY <1>3, <2>1, <2>2
<1>7. ASSUME NEW j \in issues PROVE j.case # Head(work) /\ j.key # nextKey + 1
  <2>1. j.key # nextKey + 1
      BY <1>1, <1>7 DEF Keys
  <2>2. j.key \in DOMAIN Escalated /\ j.case = Escalated[j.key].number
      BY <1>2, <1>7 DEF LinkRows
  <2> QED
      BY <1>0, <1>2, <2>1, <2>2, EscalatedNumbers
<1>8. LinkRows'
  <2>1. ASSUME NEW j \in issues' PROVE j.key \in DOMAIN Escalated' /\ j.case = Escalated'[j.key].number
      BY <1>1, <1>2, <1>5, <1>6, <2>1 DEF LinkRows
  <2>2. ASSUME NEW i \in DOMAIN cases', cases'[i].key # 0
        PROVE  [key |-> cases'[i].key, case |-> cases'[i].number] \in issues'
      BY <1>1, <1>2, <1>3, <2>2 DEF LinkRows
  <2>3. ASSUME NEW i \in DOMAIN cases', NEW j \in issues', cases'[i].number = j.case
        PROVE  cases'[i].key = j.key
    <3>1. CASE j \in issues
        BY <1>2, <1>3, <1>7, <2>3, <3>1 DEF LinkRows
    <3>2. CASE j = [key |-> nextKey + 1, case |-> Head(work)]
        BY <1>3, <2>3, <3>2
    <3> QED
        BY <1>1, <2>3, <3>1, <3>2
  <2> QED
      BY <2>1, <2>2, <2>3 DEF LinkRows
<1>9. LinkWork'
  <2>1. DOMAIN Escalated = 1..Len(Escalated)
      BY <1>0, EscalatedIs
  <2>2. ASSUME NEW m \in DOMAIN work' PROVE (nextKey + 1) + m \in DOMAIN Escalated
      BY <1>2, <2>1, <2>2
  <2> QED
      BY <1>1, <1>2, <1>5, <1>6, <2>2 DEF LinkWork
<1>10. LinkDone'
  <2> SUFFICES ASSUME clean, jiraUsers, NEW k \in DOMAIN Escalated
               PROVE  Escalated'[k].key # 0 \/ Escalated'[k].number \in Range(work')
      BY <1>1, <1>2, <1>5 DEF LinkDone
  <2>1. Escalated[k].key # 0 \/ Escalated[k].number \in Range(work)
      BY <1>2 DEF LinkDone
  <2>2. nextKey + 1 # 0
      BY <1>2
  <2> QED
      BY <1>2, <1>6, <2>1, <2>2
<1> QED
    BY <1>8, <1>9, <1>10 DEF LinkInv

\* Cases are stored, in whatever order, while there is no issue yet.
LEMMA LinkStore ==
    ASSUME GenInv, InsertCase \/ GenerateCases
    PROVE  LinkInv'
<1> SUFFICES ASSUME ~disturbed' PROVE LinkInv'
    BY DEF LinkInv
<1>1. issues = {} /\ issues' = {} /\ ~disturbed
    BY DEF InsertCase, GenerateCases
<1>2. TablesInv /\ CallInv /\ LinkRows
    BY <1>1 DEF GenInv, LinkInv
<1>3. \A i \in DOMAIN cases : cases[i].key = 0
    BY <1>1, <1>2 DEF LinkRows
<1>4. \A i \in DOMAIN cases' : cases'[i].key = 0
    BY <1>3, CasesStored
<1>5. At("cases") \/ At("caseBatch")
    BY DEF InsertCase, GenerateCases, Item
<1>6. "issues" \notin done
    BY <1>2, <1>5, TurnIs, DoneBefore
<1>7. "issues" \notin done' /\ ~Working("issues")'
    BY <1>5, <1>6 DEF InsertCase, GenerateCases, Finish, At, Working, Item
<1>8. LinkRows'
    BY <1>1, <1>4 DEF LinkRows
<1> QED
    BY <1>7, <1>8 DEF LinkInv, LinkWork, LinkDone

\* After the last DROP there is nothing.
LEMMA LinkDrop ==
    ASSUME GenInv, Drop
    PROVE  LinkInv'
<1> SUFFICES ASSUME ~disturbed' PROVE LinkInv'
    BY DEF LinkInv
<1>1. CallInv /\ TypeOK /\ ResetInv
    BY DEF GenInv
<1>2. drops # <<>> /\ ~(Len(drops) > 1) /\ drops \in Seq(TableNames)
    BY <1>1 DEF Drop, ResetInv
<1>3. PICK k \in 1..10 : DroppedTo(k)
    BY <1>1, <1>2 DEF ResetInv
<1>4. k = 10
    BY <1>2, <1>3 DEF DroppedTo
<1>5. ~Rows(Tables[7]) /\ ~Rows(Tables[2])
    BY <1>3, <1>4 DEF DroppedTo
<1>6. cases = <<>> /\ issues = {}
    BY <1>5 DEF Tables, Rows
<1>7. cases' = <<>> /\ issues' = {}
    BY <1>6 DEF Drop, Emptied
<1>8. done' = {} /\ begun' = FALSE
    BY <1>1, <1>2 DEF Drop, CallInv, callVars, TypeOK
<1>9. LinkRows'
    BY <1>7 DEF LinkRows
<1> QED
    BY <1>8, <1>9 DEF LinkInv, LinkWork, LinkDone, Working

\* Every step keeps the links.
LEMMA LinkStep ==
    ASSUME GenInv, Next \/ UNCHANGED vars
    PROVE  LinkInv'
<1>0. CallInv /\ TypeOK
    BY DEF GenInv
<1>1. CASE (\E plan, reset : Start(plan, reset) \/ CallAgain(plan)) \/ End
  <2>1. (disturbed => disturbed') /\ UNCHANGED <<cases, issues>> /\ begun' = FALSE /\ done' = {}
    <3>1. disturbed => disturbed'
        BY <1>1, Zenon DEF Start, CallAgain, End
    <3> QED
        BY <1>1, <3>1 DEF Start, CallAgain, Call, End, rowVars
  <2> QED
      BY <2>1, LinkIdle DEF Working
<1>2. CASE SkipCustomers \/ SkipAccounts \/ SkipUsers \/ SkipIssueComments \/ BatchFails \/ NoUsers \/ CasesFail
  <2>1. UNCHANGED <<disturbed, cases, issues>> /\ begun' = FALSE /\ clean' = FALSE
      BY <1>2 DEF SkipCustomers, SkipAccounts, SkipUsers, SkipIssueComments, BatchFails, NoUsers, CasesFail, Finish, Fail, rowVars
  <2> QED
      BY <2>1, LinkIdle DEF Working
<1>3. CASE \/ GenerateCustomers \/ GenerateAccounts \/ GenerateUsers \/ SkipCases \/ InsertContact \/ CaseConflict
           \/ NoContact
  <2>1. PICK step \in {"customers", "accounts", "team", "caseBatch", "contacts", "cases"} :
           /\ At(step) /\ UNCHANGED <<disturbed, cases, issues>>
           /\ ((todo' = todo /\ done' = done) \/ Finish)
      BY <1>3 DEF GenerateCustomers, GenerateAccounts, GenerateUsers, SkipCases, InsertContact, CaseConflict, NoContact,
         Item, rowVars
  <2>2. "issues" \notin done
      BY <1>0, <2>1, TurnIs, DoneBefore
  <2>3. "issues" \notin done' /\ ~Working("issues")'
      BY <2>1, <2>2 DEF Finish, At, Working
  <2> QED
      BY <2>1, <2>3, LinkIdle
<1>4. CASE GenerateIssueComments \/ \E t \in PerCase : InsertThread(t)
  <2>1. PICK step \in {"issueComments", "emails", "comments", "feed"} :
           /\ At(step) /\ UNCHANGED <<disturbed, cases, issues, clean, jiraUsers>>
           /\ ((todo' = todo /\ done' = done) \/ Finish)
      BY <1>4 DEF GenerateIssueComments, InsertThread, Item, PerCase, peopleVars
  <2>2. ("issues" \in done' => "issues" \in done) /\ ~Working("issues")'
      BY <2>1 DEF Finish, At, Working
  <2> QED
      BY <2>1, <2>2, LinkIdle
<1>5. ASSUME NEW step \in RowByRow \ {"issues"}, Begin(step) \/ RowFails(step) \/ RowsDone(step) PROVE LinkInv'
  <2>1. /\ At(step) /\ UNCHANGED <<cases, issues, jiraUsers>> /\ (clean' => clean) /\ (disturbed => disturbed')
        /\ ((todo' = todo /\ done' = done) \/ Finish)
    <3>1. disturbed => disturbed'
      <4>1. CASE Begin(step)
          BY <4>1, Zenon DEF Begin
      <4>2. CASE RowFails(step) \/ RowsDone(step)
          BY <4>2, Zenon DEF RowFails, RowsDone
      <4> QED
          BY <1>5, <4>1, <4>2
    <3> QED
        BY <1>5, <3>1 DEF Begin, RowFails, RowsDone, Item, peopleVars, rowVars
  <2>2. ("issues" \in done' => "issues" \in done) /\ ~Working("issues")'
      BY <2>1 DEF Finish, At, Working
  <2> QED
      BY <2>1, <2>2, LinkIdle
<1>6. CASE RowsDone("issues")
  <2> SUFFICES ASSUME ~disturbed' PROVE LinkInv'
      BY DEF LinkInv
  <2>1. /\ At("issues") /\ begun /\ work = <<>> /\ Finish
        /\ UNCHANGED <<disturbed, cases, issues, clean, jiraUsers>>
      BY <1>6 DEF RowsDone, peopleVars, rowVars
  <2>2. Working("issues") /\ Range(work) = {} /\ LinkRows /\ LinkDone /\ begun' = FALSE
      BY <2>1 DEF At, Working, Range, Finish, GenInv, LinkInv
  <2>3. EscalatedRows' = EscalatedRows
      BY <2>1 DEF EscalatedRows
  <2>4. Escalated' = Escalated
      BY <2>1, <2>3 DEF Escalated
  <2>5. LinkRows' /\ LinkWork'
      BY <2>1, <2>2, <2>4 DEF LinkRows, LinkWork, Working
  <2>6. LinkDone'
      BY <2>1, <2>2, <2>4 DEF LinkDone, Working
  <2> QED
      BY <2>5, <2>6 DEF LinkInv
<1>7. CASE UNCHANGED vars
  <2>1. EscalatedRows' = EscalatedRows
      BY <1>7 DEF EscalatedRows, vars, rowVars
  <2>2. Escalated' = Escalated
      BY <1>7, <2>1 DEF Escalated, vars, rowVars
  <2> QED
      BY <1>7, <2>2 DEF GenInv, LinkInv, LinkRows, LinkWork, LinkDone, Working, vars, rowVars, callVars, peopleVars,
         counterVars
<1> QED
    BY <1>1, <1>2, <1>3, <1>4, <1>5, <1>6, <1>7, LinkBegin, LinkSkip, LinkInsert, LinkStore, LinkDrop DEF Next

-----------------------------------------------------------------------------
(* The invariant and what follows from it. *)

\* An empty database and no process.
LEMMA GenInit ==
    ASSUME Init
    PROVE  GenInv
<1> USE DEF Init
<1>1. ResetInv
    BY DEF ResetInv
<1>2. TypeOK
  <2>1. Range(cases) = {} /\ Range(drops) = {} /\ Range(todo) = {} /\ Range(work) = {}
      BY DEF Range
  <2>2. {users, jiraUsers, running, begun, clean, issuesRan, disturbed} \subseteq BOOLEAN
      OBVIOUS
  <2>3. threads \in [PerCase -> SUBSET Nat]
      OBVIOUS
  <2> QED
      BY <2>1, <2>2, <2>3, ConstantsAssumption DEF TypeOK
<1>3. CallInv
    BY DEF CallInv, Working, Ordered
<1>4. TablesInv
    BY DEF TablesInv
<1>5. LoopInv /\ CoverInv
    BY DEF LoopInv, CoverInv, Working, Numbers, Keys, Range
<1>6. LinkRows /\ LinkWork /\ LinkDone
    BY DEF LinkRows, LinkWork, LinkDone, Working
<1> QED
    BY <1>1, <1>2, <1>3, <1>4, <1>5, <1>6 DEF GenInv, LinkInv

\* The invariant of the generators.
THEOREM GenerationInvariance == Spec => []GenInv
<1>1. GenInv /\ [Next]_vars => GenInv'
  <2> SUFFICES ASSUME GenInv, Next \/ UNCHANGED vars PROVE GenInv'
      OBVIOUS
  <2>1. ResetInv'
      BY ResetStep DEF GenInv
  <2> QED
      BY <2>1, TypesStep, CallStep, TablesStep, LoopStep, CoverStep, LinkStep DEF GenInv
<1> QED
    BY <1>1, GenInit, PTL DEF Spec

\* The values of the variables; each contact is that of an account there is.
THEOREM GenerationTyped == Spec => []TypeOK
<1>1. GenInv => TypeOK
    BY DEF GenInv
<1> QED
    BY <1>1, GenerationInvariance, PTL

\* However often a command was cut off and run again, a case loop that ran to
\* its end without a failure leaves every case of the shares of the segments
\* that have accounts: not the number it was told, which the shares need not
\* add up to.
THEOREM LoopCompletes == Spec => []CasesComplete
<1>1. GenInv => CasesComplete
    BY DEF GenInv, LoopInv, Everyone, CasesComplete
<1> QED
    BY <1>1, GenerationInvariance, PTL

\* A case and its issue name each other, and no case has two issues, unless a
\* reset was cut off, a case was stored after the first issue, or the issue
\* generator ran twice in one process.
THEOREM IssuesLinked == Spec => []LinkedBothWays
<1>1. ASSUME GenInv PROVE LinkedBothWays
  <2> SUFFICES ASSUME ~disturbed PROVE LinkedBothWays
      BY DEF LinkedBothWays
  <2>1. LinkRows /\ TablesInv
      BY <1>1 DEF GenInv, LinkInv
  <2>2. ASSUME NEW i \in DOMAIN cases, NEW j \in issues, cases[i].key = j.key PROVE j.case = cases[i].number
    <3>1. j.key # 0
        BY <2>1 DEF TablesInv
    <3>2. [key |-> cases[i].key, case |-> cases[i].number] \in issues
        BY <2>1, <2>2, <3>1 DEF LinkRows
    <3>3. cases[i].number = Escalated[cases[i].key].number
        BY <2>1, <3>2 DEF LinkRows
    <3>4. j.case = Escalated[j.key].number
        BY <2>1 DEF LinkRows
    <3> QED
        BY <2>2, <3>3, <3>4
  <2>3. ASSUME NEW i \in DOMAIN cases PROVE cases[i].key \in Keys \cup {0}
    <3>1. CASE cases[i].key # 0
      <4>1. PICK j \in issues : j = [key |-> cases[i].key, case |-> cases[i].number]
          BY <2>1, <3>1 DEF LinkRows
      <4> QED
          BY <4>1 DEF Keys
    <3> QED
        BY <3>1
  <2> QED
      BY <2>1, <2>2, <2>3 DEF LinkedBothWays, LinkRows, Range
<1> QED
    BY <1>1, GenerationInvariance, PTL

\* A generator that ran to its end without a failure has covered every case,
\* or issue, and no escalated case is left without an issue.
THEOREM EveryCaseCovered == Spec => []StepsCover
<1>1. ASSUME GenInv PROVE StepsCover
  <2>1. CoverInv /\ LinkInv /\ cases \in Seq(Case)
      BY <1>1 DEF GenInv, TablesInv
  <2>2. EscalationsHaveIssues
      BY <2>1 DEF EscalationsHaveIssues, LinkInv, LinkDone, Range
  <2> QED
      BY <2>1, <2>2 DEF StepsCover, CoverInv
<1> QED
    BY <1>1, GenerationInvariance, PTL
=============================================================================
