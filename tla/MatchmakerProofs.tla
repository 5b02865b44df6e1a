-------------------------- MODULE MatchmakerProofs --------------------------
(***************************************************************************)
(* Proofs about the search for a match: MatchmakerQueue for all sets of    *)
(* players, queues, teams and Search objects, and StableMarriage for any   *)
(* number of searches, all their qualities and every order of ratings.     *)
(***************************************************************************)
EXTENDS MatchmakerQueue, StableMarriage, FiniteSums, FiniteSetTheorems, TLAPS

-----------------------------------------------------------------------------
(* The invariant *)

\* The types of what the registry and the tasks are about
RegistryTypeOK ==
    /\ registry \in [Players -> [Queues -> Ids \cup {NoSearch}]]
    /\ obj \in [Ids -> [queue : Queues \cup {NoQueue}, players : SUBSET Players]]
    /\ fut \in [Ids -> {"none", "pending", "matched", "cancelled"}]
    /\ task \in [Ids -> {"none", "new", "waiting"}]
    /\ queued \in [Queues -> SUBSET Ids]
    /\ snapshot \subseteq Ids

\* All players of a search that can still be matched find it in the registry
PendingInv ==
    \A i \in Ids : fut[i] = "pending" =>
        /\ obj[i].queue \in Queues
        /\ obj[i].players # {}
        /\ \A p \in obj[i].players : registry[p][obj[i].queue] = i

\* What a player finds there can still be matched, and is theirs
EntryInv ==
    \A p \in Players, q \in Queues : registry[p][q] # NoSearch =>
        /\ fut[registry[p][q]] = "pending"
        /\ obj[registry[p][q]].queue = q
        /\ p \in obj[registry[p][q]].players

\* A Search has a task until it is over, and exists as long as its task, its
\* queue or the executor refers to it
TaskInv ==
    \A i \in Ids :
        /\ task[i] = "none" => fut[i] # "pending"
        /\ task[i] # "none" => fut[i] # "none"
        /\ i \in snapshot => fut[i] # "none"
        /\ \A q \in Queues : i \in queued[q] => task[i] = "waiting" /\ obj[i].queue = q

\* After graceful_shutdown nothing can be matched
ClosedInv == ~open => \A i \in Ids : fut[i] # "pending"

RegistryInv == RegistryTypeOK /\ PendingInv /\ EntryInv /\ TaskInv /\ ClosedInv

\* The executor works for the queue that holds the lock, on searches of that
\* queue.  None of them is matched before it is done: only find_matches
\* matches, and the queue waits until the last matches have left it.
ExecutorInv ==
    /\ pop \in [Queues -> {"timer", "lock", "executor", "stopped"}]
    /\ lock \in Queues \cup {NoQueue}
    /\ \A q \in Queues : pop[q] = "executor" => lock = q
    /\ \A i \in snapshot : fut[i] # "matched" /\ obj[i].queue = lock
    /\ \A q \in Queues : \A i \in queued[q] :
         fut[i] = "matched" => pop[q] \in {"timer", "stopped"}

QueueInv == TypeOK /\ RegistryInv /\ ExecutorInv

-----------------------------------------------------------------------------
(* The registry *)

\* _clear_search removes a search from the entries of all its players
LEMMA ClearedEntries ==
    ASSUME RegistryTypeOK, PendingInv, EntryInv,
           NEW K \in SUBSET Ids, \A i \in K : fut[i] = "pending"
    PROVE  /\ Cleared(K) \in [Players -> [Queues -> Ids \cup {NoSearch}]]
           /\ \A p \in Players, q \in Queues :
                Cleared(K)[p][q] = IF registry[p][q] \in K THEN NoSearch
                                   ELSE registry[p][q]
<1>1. ASSUME NEW p \in Players, NEW q \in Queues
      PROVE  (\E i \in K : obj[i].queue = q /\ p \in obj[i].players)
               <=> registry[p][q] \in K
  <2>1. ASSUME NEW i \in K, obj[i].queue = q, p \in obj[i].players
        PROVE  registry[p][q] = i
    BY <2>1 DEF PendingInv
  <2>2. ASSUME registry[p][q] \in K
        PROVE  /\ obj[registry[p][q]].queue = q
               /\ p \in obj[registry[p][q]].players
    BY <2>2, QueueAssumption DEF EntryInv
  <2> QED
    BY <2>1, <2>2
<1>2. Cleared(K) \in [Players -> [Queues -> Ids \cup {NoSearch}]]
  BY DEF Cleared, RegistryTypeOK
<1>3. ASSUME NEW p \in Players, NEW q \in Queues
      PROVE  Cleared(K)[p][q] = IF registry[p][q] \in K THEN NoSearch
                                ELSE registry[p][q]
  BY <1>1 DEF Cleared
<1> QED
  BY <1>2, <1>3

\* Searches that are over leave the registry and the others stay
LEMMA SettledKeeps ==
    ASSUME RegistryTypeOK, PendingInv, EntryInv,
           NEW K \in SUBSET Ids,
           \A p \in Players, q \in Queues :
               registry'[p][q] = IF registry[p][q] \in K THEN NoSearch
                                 ELSE registry[p][q],
           \A i \in K : fut'[i] # "pending",
           \A i \in Ids \ K : fut'[i] = "pending" <=> fut[i] = "pending",
           \A i \in Ids : fut'[i] = "pending" => obj'[i] = obj[i]
    PROVE  PendingInv' /\ EntryInv'
<1>1. ASSUME NEW i \in Ids, fut'[i] = "pending"
      PROVE  /\ obj'[i].queue \in Queues /\ obj'[i].players # {}
             /\ \A p \in obj'[i].players : registry'[p][obj'[i].queue] = i
  <2>1. i \notin K /\ fut[i] = "pending" /\ obj'[i] = obj[i]
    BY <1>1
  <2>2. /\ obj[i].queue \in Queues /\ obj[i].players # {}
        /\ \A p \in obj[i].players : p \in Players /\ registry[p][obj[i].queue] = i
    BY <2>1 DEF PendingInv, RegistryTypeOK
  <2> QED
    BY <2>1, <2>2
<1>2. ASSUME NEW p \in Players, NEW q \in Queues, registry'[p][q] # NoSearch
      PROVE  /\ fut'[registry'[p][q]] = "pending"
             /\ obj'[registry'[p][q]].queue = q
             /\ p \in obj'[registry'[p][q]].players
  <2>1. registry'[p][q] = registry[p][q] /\ registry[p][q] \notin K
    BY <1>2
  <2>2. registry[p][q] \in Ids
    BY <1>2, <2>1 DEF RegistryTypeOK
  <2>3. /\ fut[registry[p][q]] = "pending" /\ obj[registry[p][q]].queue = q
        /\ p \in obj[registry[p][q]].players
    BY <1>2, <2>1 DEF EntryInv
  <2>4. fut'[registry[p][q]] = "pending"
    BY <2>1, <2>2, <2>3
  <2>5. obj'[registry[p][q]] = obj[registry[p][q]]
    BY <2>2, <2>4
  <2> QED
    BY <2>1, <2>3, <2>4, <2>5
<1> QED
  BY <1>1, <1>2, Zenon DEF PendingInv, EntryInv

\* What players search can be matched
LEMMA SearchesArePending ==
    ASSUME RegistryTypeOK, EntryInv, NEW p \in Players, NEW Q \in SUBSET Queues
    PROVE  /\ SearchesOf(p, Q) \subseteq Ids
           /\ \A i \in SearchesOf(p, Q) : fut[i] = "pending"
BY DEF SearchesOf, EntryInv, RegistryTypeOK

\* Search.cancel of searches that can be matched
LEMMA CancelledAre ==
    ASSUME RegistryTypeOK, NEW K \in SUBSET Ids, \A i \in K : fut[i] = "pending"
    PROVE  /\ CancelledFutures(K) \in [Ids -> {"none", "pending", "matched", "cancelled"}]
           /\ \A i \in Ids : CancelledFutures(K)[i] = IF i \in K THEN "cancelled" ELSE fut[i]
BY DEF CancelledFutures, RegistryTypeOK

\* Searches of the registry K are cancelled
LEMMA CancelKeeps ==
    ASSUME RegistryInv, NEW K \in SUBSET Ids, \A i \in K : fut[i] = "pending",
           registry' = Cleared(K), fut' = CancelledFutures(K),
           UNCHANGED <<obj, task, queued, snapshot>>,
           open' = open \/ K = {i \in Ids : fut[i] = "pending"}
    PROVE  RegistryInv'
<1> USE DEF RegistryInv
<1>1. /\ registry' \in [Players -> [Queues -> Ids \cup {NoSearch}]]
      /\ \A p \in Players, q \in Queues :
           registry'[p][q] = IF registry[p][q] \in K THEN NoSearch ELSE registry[p][q]
  BY ClearedEntries
<1>2. /\ fut' \in [Ids -> {"none", "pending", "matched", "cancelled"}]
      /\ \A i \in Ids : fut'[i] = IF i \in K THEN "cancelled" ELSE fut[i]
  BY CancelledAre
<1>3. RegistryTypeOK'
  BY <1>1, <1>2 DEF RegistryTypeOK
<1>4. PendingInv' /\ EntryInv'
  BY <1>1, <1>2, SettledKeeps
<1>5. TaskInv'
  BY <1>2 DEF TaskInv
<1>6. ClosedInv'
  BY <1>2 DEF ClosedInv
<1> QED
  BY <1>3, <1>4, <1>5, <1>6

-----------------------------------------------------------------------------
(* The steps *)

\* A search is registered exactly as long as it can be matched
LEMMA RegisteredFromInv ==
    ASSUME RegistryTypeOK, PendingInv, EntryInv
    PROVE  RegisteredIsPending
<1>1. ASSUME NEW i \in Ids, i \in Registered
      PROVE  fut[i] = "pending"
  BY <1>1, QueueAssumption DEF Registered, EntryInv
<1>2. ASSUME NEW i \in Ids, fut[i] = "pending"
      PROVE  i \in Registered
  <2>1. PICK p \in obj[i].players : TRUE
    BY <1>2 DEF PendingInv
  <2>2. p \in Players
    BY <2>1 DEF RegistryTypeOK
  <2> QED
    BY <1>2, <2>1, <2>2 DEF PendingInv, Registered
<1> QED
  BY <1>1, <1>2 DEF RegisteredIsPending

\* start_search: the searches it replaces are cancelled, and no other search
\* of these players is in the way
LEMMA SearchKeeps ==
    ASSUME RegistryInv, NEW T \in Teams, NEW q \in Queues, Search(T, q)
    PROVE  RegistryInv'
<1> DEFINE C == UNION {SearchesOf(p, {q}) : p \in T}
<1> USE DEF RegistryInv
<1>1. T \subseteq Players /\ T # {} /\ open /\ open' = open
  BY QueueAssumption DEF Search, playerVars
<1>2. C \subseteq Ids /\ \A j \in C : fut[j] = "pending"
  <2>1. ASSUME NEW p \in T
        PROVE  /\ SearchesOf(p, {q}) \subseteq Ids
               /\ \A j \in SearchesOf(p, {q}) : fut[j] = "pending"
    BY <1>1, SearchesArePending
  <2> QED
    BY <2>1
<1>3. PICK i \in Ids :
        /\ fut[i] = "none"
        /\ obj' = [obj EXCEPT ![i] = [queue |-> q, players |-> T]]
        /\ fut' = [CancelledFutures(C) EXCEPT ![i] = "pending"]
        /\ task' = [task EXCEPT ![i] = "new"]
        /\ registry' = [p \in Players |->
                          IF p \in T THEN [Cleared(C)[p] EXCEPT ![q] = i]
                          ELSE Cleared(C)[p]]
  BY DEF Search
<1>4. UNCHANGED <<queued, snapshot>>
  BY DEF Search, queueVars
<1>5. /\ Cleared(C) \in [Players -> [Queues -> Ids \cup {NoSearch}]]
      /\ \A p \in Players, r \in Queues :
           Cleared(C)[p][r] = IF registry[p][r] \in C THEN NoSearch
                              ELSE registry[p][r]
  <2> HIDE DEF C
  <2> QED
    BY <1>2, ClearedEntries
<1>6. /\ CancelledFutures(C) \in [Ids -> {"none", "pending", "matched", "cancelled"}]
      /\ \A j \in Ids : CancelledFutures(C)[j] = IF j \in C THEN "cancelled" ELSE fut[j]
  <2> HIDE DEF C
  <2> QED
    BY <1>2, CancelledAre
<1>7. ASSUME NEW p \in T, registry[p][q] # NoSearch
      PROVE  registry[p][q] \in C
  BY <1>7 DEF SearchesOf
<1> HIDE DEF C
<1>8. \A p \in Players, r \in Queues :
        registry'[p][r] = IF p \in T /\ r = q THEN i
                          ELSE IF registry[p][r] \in C THEN NoSearch
                          ELSE registry[p][r]
  BY <1>3, <1>5
<1>9. \A j \in Ids : fut'[j] = IF j = i THEN "pending"
                               ELSE IF j \in C THEN "cancelled" ELSE fut[j]
  BY <1>3, <1>6
<1>10. \A j \in Ids : obj'[j] = IF j = i THEN [queue |-> q, players |-> T] ELSE obj[j]
  BY <1>3 DEF RegistryTypeOK
<1>11. \A j \in Ids : task'[j] = IF j = i THEN "new" ELSE task[j]
  BY <1>3 DEF RegistryTypeOK
<1>12. RegistryTypeOK'
  <2>1. registry' \in [Players -> [Queues -> Ids \cup {NoSearch}]]
    BY <1>3, <1>5
  <2>2. fut' \in [Ids -> {"none", "pending", "matched", "cancelled"}]
    BY <1>3, <1>6
  <2>3. obj' \in [Ids -> [queue : Queues \cup {NoQueue}, players : SUBSET Players]]
    BY <1>1, <1>3 DEF RegistryTypeOK
  <2>4. task' \in [Ids -> {"none", "new", "waiting"}]
    BY <1>3 DEF RegistryTypeOK
  <2> QED
    BY <1>4, <2>1, <2>2, <2>3, <2>4 DEF RegistryTypeOK
<1>13. PendingInv'
  <2>1. ASSUME NEW j \in Ids, fut'[j] = "pending"
        PROVE  /\ obj'[j].queue \in Queues /\ obj'[j].players # {}
               /\ \A p \in obj'[j].players : registry'[p][obj'[j].queue] = j
    <3>1. CASE j = i
      BY <1>1, <1>8, <1>10, <3>1
    <3>2. CASE j # i
      <4>1. j \notin C /\ fut[j] = "pending" /\ obj'[j] = obj[j]
        BY <1>9, <1>10, <2>1, <3>2
      <4>2. /\ obj[j].queue \in Queues /\ obj[j].players # {}
            /\ \A p \in obj[j].players : p \in Players /\ registry[p][obj[j].queue] = j
        BY <4>1 DEF PendingInv, RegistryTypeOK
      <4>3. ASSUME NEW p \in obj[j].players
            PROVE  ~(p \in T /\ obj[j].queue = q)
        BY <1>7, <4>1, <4>2, QueueAssumption
      <4> QED
        BY <1>8, <4>1, <4>2, <4>3
    <3> QED
      BY <3>1, <3>2
  <2> QED
    BY <2>1, Zenon DEF PendingInv
<1>14. EntryInv'
  <2>1. ASSUME NEW p \in Players, NEW r \in Queues, registry'[p][r] # NoSearch
        PROVE  /\ fut'[registry'[p][r]] = "pending"
               /\ obj'[registry'[p][r]].queue = r
               /\ p \in obj'[registry'[p][r]].players
    <3>1. CASE p \in T /\ r = q
      BY <1>8, <1>9, <1>10, <3>1
    <3>2. CASE ~(p \in T /\ r = q)
      <4>1. registry'[p][r] = registry[p][r] /\ registry[p][r] \notin C
        BY <1>8, <2>1, <3>2
      <4>2. registry[p][r] \in Ids
        BY <2>1, <4>1 DEF RegistryTypeOK
      <4>3. /\ fut[registry[p][r]] = "pending" /\ obj[registry[p][r]].queue = r
            /\ p \in obj[registry[p][r]].players
        BY <2>1, <4>1 DEF EntryInv
      <4>4. registry[p][r] # i
        BY <1>3, <4>3
      <4> QED
        BY <1>9, <1>10, <4>1, <4>2, <4>3, <4>4
    <3> QED
      BY <3>1, <3>2
  <2> QED
    BY <2>1, Zenon DEF EntryInv
<1>15. TaskInv'
  <2>1. task[i] = "none" /\ i \notin snapshot /\ \A r \in Queues : i \notin queued[r]
    <3>1. task[i] = "none" /\ i \notin snapshot
      BY <1>3 DEF TaskInv
    <3> QED
      BY <3>1 DEF TaskInv
  <2>2. ASSUME NEW j \in Ids
        PROVE  /\ task'[j] = "none" => fut'[j] # "pending"
               /\ task'[j] # "none" => fut'[j] # "none"
               /\ j \in snapshot' => fut'[j] # "none"
               /\ \A r \in Queues : j \in queued'[r] =>
                    task'[j] = "waiting" /\ obj'[j].queue = r
    <3>1. CASE j = i
      BY <1>4, <1>9, <1>11, <2>1, <3>1
    <3>2. CASE j # i
      BY <1>4, <1>9, <1>10, <1>11, <3>2 DEF TaskInv
    <3> QED
      BY <3>1, <3>2
  <2> QED
    BY <2>2, Zenon DEF TaskInv
<1>16. ClosedInv'
  BY <1>1 DEF ClosedInv
<1> QED
  BY <1>12, <1>13, <1>14, <1>15, <1>16

\* What does not touch the registry, the searches or the queues
LEMMA OthersKeep ==
    ASSUME RegistryInv, UNCHANGED <<registry, obj, fut, task, queued, snapshot, open>>
    PROVE  RegistryInv'
BY DEF RegistryInv, RegistryTypeOK, PendingInv, EntryInv, TaskInv, ClosedInv

\* A task that starts while its search can be matched puts it into the queue
LEMMA PushKeeps ==
    ASSUME RegistryInv, NEW i \in Ids, task[i] = "new", fut[i] = "pending",
           task' = [task EXCEPT ![i] = "waiting"],
           queued' = [queued EXCEPT ![obj[i].queue] = @ \cup {i}],
           UNCHANGED <<registry, obj, fut, snapshot, open>>
    PROVE  RegistryInv'
<1> USE DEF RegistryInv
<1>1. obj[i].queue \in Queues
  BY DEF PendingInv
<1>2. RegistryTypeOK'
  BY <1>1 DEF RegistryTypeOK
<1>3. PendingInv' /\ EntryInv' /\ ClosedInv'
  BY DEF PendingInv, EntryInv, ClosedInv
<1>4. \A j \in Ids : task'[j] = IF j = i THEN "waiting" ELSE task[j]
  BY DEF RegistryTypeOK
<1>5. \A r \in Queues : queued'[r] = IF r = obj[i].queue THEN queued[r] \cup {i}
                                     ELSE queued[r]
  BY DEF RegistryTypeOK
<1>6. TaskInv'
  <2>1. ASSUME NEW j \in Ids
        PROVE  /\ task'[j] = "none" => fut'[j] # "pending"
               /\ task'[j] # "none" => fut'[j] # "none"
               /\ j \in snapshot' => fut'[j] # "none"
               /\ \A r \in Queues : j \in queued'[r] =>
                    task'[j] = "waiting" /\ obj'[j].queue = r
    <3>1. CASE j = i
      BY <1>4, <1>5, <3>1 DEF TaskInv
    <3>2. CASE j # i
      BY <1>4, <1>5, <3>2 DEF TaskInv
    <3> QED
      BY <3>1, <3>2
  <2> QED
    BY <2>1, Zenon DEF TaskInv
<1> QED
  BY <1>2, <1>3, <1>6

\* A task whose search is over ends, and drops it unless the executor has it
LEMMA EndKeeps ==
    ASSUME RegistryInv, NEW i \in Ids, task[i] # "none", fut[i] # "pending",
           task' = [task EXCEPT ![i] = "none"],
           Drop({i} \ snapshot),
           \A r \in Queues : i \notin queued'[r] /\ queued'[r] \subseteq queued[r],
           queued' \in [Queues -> SUBSET Ids],
           UNCHANGED <<registry, snapshot, open>>
    PROVE  RegistryInv'
<1> USE DEF RegistryInv
<1>1. \A j \in Ids : /\ obj'[j] = IF j = i /\ i \notin snapshot THEN NoObject ELSE obj[j]
                     /\ fut'[j] = IF j = i /\ i \notin snapshot THEN "none" ELSE fut[j]
                     /\ task'[j] = IF j = i THEN "none" ELSE task[j]
  BY DEF Drop, RegistryTypeOK
<1>2. RegistryTypeOK'
  <2>1. obj' \in [Ids -> [queue : Queues \cup {NoQueue}, players : SUBSET Players]]
    BY DEF Drop, RegistryTypeOK, NoObject
  <2>2. fut' \in [Ids -> {"none", "pending", "matched", "cancelled"}]
    BY DEF Drop, RegistryTypeOK
  <2>3. task' \in [Ids -> {"none", "new", "waiting"}]
    BY DEF RegistryTypeOK
  <2> QED
    BY <2>1, <2>2, <2>3 DEF RegistryTypeOK
<1>3. PendingInv' /\ EntryInv'
  <2>1. \A p \in Players, q \in Queues :
          registry'[p][q] = IF registry[p][q] \in {} THEN NoSearch ELSE registry[p][q]
    OBVIOUS
  <2>2. \A j \in {} : fut'[j] # "pending"
    OBVIOUS
  <2>3. \A j \in Ids \ {} : fut'[j] = "pending" <=> fut[j] = "pending"
    BY <1>1
  <2>4. \A j \in Ids : fut'[j] = "pending" => obj'[j] = obj[j]
    BY <1>1
  <2>5. {} \in SUBSET Ids
    OBVIOUS
  <2> QED
    BY <2>1, <2>2, <2>3, <2>4, <2>5, SettledKeeps
<1>4. TaskInv'
  <2>1. ASSUME NEW j \in Ids
        PROVE  /\ task'[j] = "none" => fut'[j] # "pending"
               /\ task'[j] # "none" => fut'[j] # "none"
               /\ j \in snapshot' => fut'[j] # "none"
               /\ \A r \in Queues : j \in queued'[r] =>
                    task'[j] = "waiting" /\ obj'[j].queue = r
    <3>1. CASE j = i
      BY <1>1, <3>1 DEF TaskInv
    <3>2. CASE j # i
      BY <1>1, <3>2 DEF TaskInv
    <3> QED
      BY <3>1, <3>2
  <2> QED
    BY <2>1, Zenon DEF TaskInv
<1>5. ClosedInv'
  BY <1>1 DEF ClosedInv
<1> QED
  BY <1>2, <1>3, <1>4, <1>5

\* What the executor proposes is taken from the snapshot, and the searches that
\* match lets pass can still be matched
LEMMA MatchedArePending ==
    ASSUME RegistryInv, ExecutorInv, NEW q \in Queues, NEW Ms \in SUBSET Proposals(q)
    PROVE  \A i \in UNION {UNION M : M \in {P \in Ms : Matches(P)}} :
             i \in snapshot /\ fut[i] = "pending" /\ task[i] # "none"
<1> SUFFICES ASSUME NEW M \in Ms, Matches(M), NEW A \in M, NEW i \in A
             PROVE  i \in snapshot /\ fut[i] = "pending" /\ task[i] # "none"
  OBVIOUS
<1>1. i \in snapshot
  BY DEF Proposals
<1>2. i \in Ids /\ fut[i] # "none"
  BY <1>1 DEF RegistryInv, TaskInv, RegistryTypeOK
<1>3. fut[i] # "cancelled"
  BY DEF Matches
<1>4. fut[i] # "matched"
  BY <1>1 DEF ExecutorInv
<1>5. fut[i] = "pending"
  BY <1>2, <1>3, <1>4 DEF RegistryInv, RegistryTypeOK
<1> QED
  BY <1>1, <1>2, <1>5 DEF RegistryInv, TaskInv

\* on_match_found: the matched searches and what else their players search
\* leave the registry together
LEMMA ApplyKeeps ==
    ASSUME RegistryInv, ExecutorInv, NEW q \in Queues,
           NEW Ms \in SUBSET Proposals(q), ApplyMatches(q, Ms)
    PROVE  RegistryInv'
<1> DEFINE S == UNION {UNION M : M \in {P \in Ms : Matches(P)}}
           C == (UNION {SearchesOf(p, Queues) : p \in PlayersOf(S)}) \ S
           D == {i \in snapshot : task[i] = "none"}
<1> USE DEF RegistryInv
<1>1. /\ S \subseteq Ids
      /\ \A i \in S : i \in snapshot /\ fut[i] = "pending" /\ task[i] # "none"
  <2>1. \A i \in S : i \in snapshot /\ fut[i] = "pending" /\ task[i] # "none"
    BY MatchedArePending
  <2> HIDE DEF S
  <2> QED
    BY <2>1 DEF RegistryTypeOK
<1>2. /\ obj' = [i \in Ids |-> IF i \in D THEN NoObject ELSE obj[i]]
      /\ fut' = [i \in Ids |-> IF i \in D THEN "none"
                              ELSE IF i \in S THEN "matched"
                              ELSE CancelledFutures(C)[i]]
      /\ queued' = [queued EXCEPT ![q] = IF TeamSize[q] = 1 THEN @ \ S ELSE @]
      /\ registry' = Cleared(C \cup S)
      /\ snapshot' = {} /\ task' = task /\ open' = open
  BY DEF ApplyMatches, playerVars
<1> HIDE DEF S
<1>3. C \subseteq Ids /\ \A i \in C : fut[i] = "pending"
  <2>1. PlayersOf(S) \subseteq Players
    BY <1>1 DEF PlayersOf, RegistryTypeOK
  <2>2. ASSUME NEW p \in PlayersOf(S)
        PROVE  /\ SearchesOf(p, Queues) \subseteq Ids
               /\ \A i \in SearchesOf(p, Queues) : fut[i] = "pending"
    BY <2>1, SearchesArePending
  <2> QED
    BY <2>2
<1> HIDE DEF C
<1>4. \A i \in Ids : i \in D <=> i \in snapshot /\ task[i] = "none"
  OBVIOUS
<1> HIDE DEF D
<1>5. /\ Cleared(C \cup S) \in [Players -> [Queues -> Ids \cup {NoSearch}]]
      /\ \A p \in Players, r \in Queues :
           Cleared(C \cup S)[p][r] = IF registry[p][r] \in C \cup S THEN NoSearch
                                    ELSE registry[p][r]
  BY <1>1, <1>3, ClearedEntries
<1>6. /\ CancelledFutures(C) \in [Ids -> {"none", "pending", "matched", "cancelled"}]
      /\ \A j \in Ids : CancelledFutures(C)[j] = IF j \in C THEN "cancelled" ELSE fut[j]
  BY <1>3, CancelledAre
<1>7. \A i \in Ids : /\ obj'[i] = IF i \in D THEN NoObject ELSE obj[i]
                     /\ fut'[i] = IF i \in D THEN "none"
                                  ELSE IF i \in S THEN "matched"
                                  ELSE IF i \in C THEN "cancelled" ELSE fut[i]
  BY <1>2, <1>6
<1>8. \A r \in Queues : queued'[r] \subseteq queued[r]
  BY <1>2 DEF RegistryTypeOK
<1>9. RegistryTypeOK'
  <2>1. registry' \in [Players -> [Queues -> Ids \cup {NoSearch}]]
    BY <1>2, <1>5
  <2>2. fut' \in [Ids -> {"none", "pending", "matched", "cancelled"}]
    BY <1>2, <1>6
  <2>3. obj' \in [Ids -> [queue : Queues \cup {NoQueue}, players : SUBSET Players]]
    BY <1>2 DEF RegistryTypeOK, NoObject
  <2>4. queued' \in [Queues -> SUBSET Ids]
    BY <1>2 DEF RegistryTypeOK
  <2> QED
    BY <1>2, <2>1, <2>2, <2>3, <2>4 DEF RegistryTypeOK
<1>10. \A i \in Ids : i \in D => fut[i] # "pending"
  BY <1>4 DEF TaskInv
<1>11. PendingInv' /\ EntryInv'
  <2> DEFINE K == C \cup S
  <2>1. K \in SUBSET Ids
    BY <1>1, <1>3
  <2>2. \A p \in Players, r \in Queues :
          registry'[p][r] = IF registry[p][r] \in K THEN NoSearch ELSE registry[p][r]
    BY <1>2, <1>5
  <2>3. \A i \in K : fut'[i] # "pending"
    BY <1>1, <1>3, <1>7
  <2>4. \A i \in Ids \ K : fut'[i] = "pending" <=> fut[i] = "pending"
    BY <1>7, <1>10
  <2>5. \A i \in Ids : fut'[i] = "pending" => obj'[i] = obj[i]
    BY <1>7
  <2> HIDE DEF K
  <2> QED
    BY <2>1, <2>2, <2>3, <2>4, <2>5, SettledKeeps
<1>12. TaskInv'
  <2>1. ASSUME NEW j \in Ids
        PROVE  /\ task'[j] = "none" => fut'[j] # "pending"
               /\ task'[j] # "none" => fut'[j] # "none"
               /\ j \in snapshot' => fut'[j] # "none"
               /\ \A r \in Queues : j \in queued'[r] =>
                    task'[j] = "waiting" /\ obj'[j].queue = r
    BY <1>1, <1>2, <1>4, <1>7, <1>8 DEF TaskInv
  <2> QED
    BY <2>1, Zenon DEF TaskInv
<1>13. ClosedInv'
  BY <1>1, <1>2, <1>3, <1>7 DEF ClosedInv
<1> QED
  BY <1>9, <1>11, <1>12, <1>13

\* Every action keeps the registry and the searches in step
LEMMA RegistryStep ==
    ASSUME RegistryInv, ExecutorInv, [Next]_vars
    PROVE  RegistryInv'
<1>1. ASSUME NEW T \in Teams, NEW q \in Queues, Search(T, q)
      PROVE  RegistryInv'
  BY <1>1, SearchKeeps
<1>2. ASSUME NEW p \in Players, NEW Q \in SUBSET Queues, CancelSearch(p, Q),
             UNCHANGED <<obj, task, queueVars, open>>
      PROVE  RegistryInv'
  <2> DEFINE K == SearchesOf(p, Q)
  <2>1. K \in SUBSET Ids /\ \A i \in K : fut[i] = "pending"
    BY SearchesArePending DEF RegistryInv
  <2>2. registry' = Cleared(K) /\ fut' = CancelledFutures(K)
    BY <1>2 DEF CancelSearch
  <2>3. UNCHANGED <<obj, task, queued, snapshot>> /\ open' = open
    BY <1>2 DEF queueVars
  <2> HIDE DEF K
  <2> QED
    BY <2>1, <2>2, <2>3, CancelKeeps
<1>3. ASSUME NEW p \in Players, NEW q \in Queues, StopSearch(p, q)
      PROVE  RegistryInv'
  BY <1>2, <1>3 DEF StopSearch, playerVars
<1>4. ASSUME NEW p \in Players, Disconnect(p)
      PROVE  RegistryInv'
  BY <1>2, <1>4 DEF Disconnect
<1>5. ASSUME NEW p \in Players,
             CommandGame(p) \/ LaunchGame(p) \/ LeaveGame(p) \/ AbortWaits(p) \/ AbortDone(p)
      PROVE  RegistryInv'
  <2>1. UNCHANGED <<registry, obj, fut, task, queued, snapshot, open>>
    BY <1>5 DEF CommandGame, LaunchGame, LeaveGame, AbortWaits, AbortDone,
                queueVars, playerVars
  <2> QED
    BY <2>1, OthersKeep
<1>6. CASE Shutdown
  <2>1. RegisteredIsPending
    BY RegisteredFromInv DEF RegistryInv
  <2>2. Registered = {i \in Ids : fut[i] = "pending"}
    BY <2>1 DEF RegisteredIsPending, Registered
  <2>3. /\ registry' = Cleared(Registered) /\ fut' = CancelledFutures(Registered)
        /\ UNCHANGED <<obj, task, queued, snapshot>>
    BY <1>6 DEF Shutdown
  <2> HIDE DEF Registered
  <2> QED
    BY <2>2, <2>3, CancelKeeps
<1>7. ASSUME NEW i \in Ids, TaskStarts(i)
      PROVE  RegistryInv'
  <2>1. UNCHANGED <<registry, snapshot, open>> /\ task[i] = "new"
    BY <1>7 DEF TaskStarts, playerVars
  <2>2. CASE fut[i] = "pending"
    BY <1>7, <2>1, <2>2, PushKeeps DEF TaskStarts
  <2>3. CASE fut[i] # "pending"
    <3>1. /\ task' = [task EXCEPT ![i] = "none"]
          /\ Drop({i} \ snapshot)
          /\ queued' = queued
      BY <1>7, <2>3 DEF TaskStarts
    <3>2. \A r \in Queues : i \notin queued[r]
      BY <2>1 DEF RegistryInv, TaskInv
    <3>3. queued' \in [Queues -> SUBSET Ids]
      BY <3>1 DEF RegistryInv, RegistryTypeOK
    <3> QED
      BY <2>1, <2>3, <3>1, <3>2, <3>3, EndKeeps
  <2> QED
    BY <2>2, <2>3
<1>8. ASSUME NEW i \in Ids, TaskEnds(i)
      PROVE  RegistryInv'
  <2>1. /\ UNCHANGED <<registry, snapshot, open>> /\ task[i] = "waiting"
        /\ fut[i] # "pending"
        /\ task' = [task EXCEPT ![i] = "none"]
        /\ queued' = [queued EXCEPT ![obj[i].queue] = @ \ {i}]
        /\ Drop({i} \ snapshot)
    BY <1>8 DEF TaskEnds, playerVars
  <2>2. queued' \in [Queues -> SUBSET Ids]
    BY <2>1 DEF RegistryInv, RegistryTypeOK
  <2>3. \A r \in Queues : i \notin queued'[r] /\ queued'[r] \subseteq queued[r]
    BY <2>1 DEF RegistryInv, RegistryTypeOK, TaskInv
  <2> QED
    BY <2>1, <2>2, <2>3, EndKeeps
<1>9. ASSUME NEW q \in Queues, NextPop(q)
      PROVE  RegistryInv'
  <2>1. UNCHANGED <<registry, obj, fut, task, queued, snapshot, open>>
    BY <1>9 DEF NextPop, playerVars
  <2> QED
    BY <2>1, OthersKeep
<1>10. ASSUME NEW q \in Queues, FindMatches(q)
       PROVE  RegistryInv'
  <2>1. /\ UNCHANGED <<registry, obj, fut, task, queued, open>>
        /\ snapshot' = snapshot \/ snapshot' = queued[q]
    BY <1>10 DEF FindMatches, playerVars
  <2>2. \A i \in queued[q] : i \in Ids /\ fut[i] # "none"
    BY DEF RegistryInv, TaskInv, RegistryTypeOK
  <2>3. RegistryTypeOK' /\ PendingInv' /\ EntryInv' /\ ClosedInv'
    BY <2>1, <2>2 DEF RegistryInv, RegistryTypeOK, PendingInv, EntryInv, ClosedInv
  <2>4. TaskInv'
    BY <2>1, <2>2 DEF RegistryInv, TaskInv
  <2> QED
    BY <2>3, <2>4 DEF RegistryInv
<1>11. ASSUME NEW q \in Queues, ExecutorDone(q)
       PROVE  RegistryInv'
  BY <1>11, ApplyKeeps DEF ExecutorDone
<1>12. CASE UNCHANGED vars
  BY <1>12, OthersKeep DEF vars, queueVars, playerVars
<1> QED
  BY <1>1, <1>3, <1>4, <1>5, <1>6, <1>7, <1>8, <1>9, <1>10, <1>11, <1>12 DEF Next

\* Searches that were not matched are not matched by a step that only cancels
\* or drops searches and leaves the queues and the executor alone
LEMMA CalmStep ==
    ASSUME ExecutorInv, RegistryTypeOK,
           \A i \in Ids : fut'[i] = "matched" => fut[i] = "matched",
           \A i \in snapshot : obj'[i] = obj[i],
           \A q \in Queues : \A i \in queued'[q] \ queued[q] : fut'[i] # "matched",
           queued' \in [Queues -> SUBSET Ids],
           UNCHANGED <<pop, lock, snapshot>>
    PROVE  ExecutorInv'
BY DEF ExecutorInv, RegistryTypeOK

\* The lock and the snapshot belong to one queue
LEMMA ExecutorStep ==
    ASSUME RegistryInv, ExecutorInv, [Next]_vars
    PROVE  ExecutorInv'
<1> USE DEF RegistryInv
<1>1. ASSUME NEW K \in SUBSET Ids
      PROVE  \A i \in Ids : CancelledFutures(K)[i] = "matched" => fut[i] = "matched"
  BY DEF CancelledFutures
<1>2. ASSUME NEW T \in Teams, NEW q \in Queues, Search(T, q)
      PROVE  ExecutorInv'
  <2> DEFINE C == UNION {SearchesOf(p, {q}) : p \in T}
  <2>1. PICK i \in Ids :
          /\ fut[i] = "none"
          /\ obj' = [obj EXCEPT ![i] = [queue |-> q, players |-> T]]
          /\ fut' = [CancelledFutures(C) EXCEPT ![i] = "pending"]
    BY <1>2 DEF Search
  <2>2. UNCHANGED <<queued, pop, lock, snapshot>>
    BY <1>2 DEF Search, queueVars
  <2> HIDE DEF C
  <2>3. \A j \in Ids : fut'[j] = "matched" => fut[j] = "matched"
    BY <2>1 DEF CancelledFutures
  <2>4. i \notin snapshot
    BY <2>1 DEF TaskInv
  <2>5. \A j \in snapshot : obj'[j] = obj[j]
    BY <2>1, <2>4 DEF RegistryTypeOK
  <2>6. \A r \in Queues : queued'[r] \ queued[r] = {}
    BY <2>2
  <2>7. queued' \in [Queues -> SUBSET Ids]
    BY <2>2 DEF RegistryTypeOK
  <2> QED
    BY <2>2, <2>3, <2>5, <2>6, <2>7, CalmStep
<1>3. ASSUME NEW p \in Players, NEW Q \in SUBSET Queues, CancelSearch(p, Q),
             UNCHANGED <<obj, task, queueVars>>
      PROVE  ExecutorInv'
  <2>1. \A j \in Ids : fut'[j] = "matched" => fut[j] = "matched"
    BY <1>3 DEF CancelSearch, CancelledFutures
  <2> QED
    BY <1>3, <2>1, CalmStep DEF queueVars, RegistryTypeOK
<1>4. ASSUME NEW p \in Players, NEW q \in Queues, StopSearch(p, q)
      PROVE  ExecutorInv'
  BY <1>3, <1>4 DEF StopSearch
<1>5. ASSUME NEW p \in Players, Disconnect(p)
      PROVE  ExecutorInv'
  BY <1>3, <1>5 DEF Disconnect
<1>6. ASSUME NEW p \in Players,
             CommandGame(p) \/ LaunchGame(p) \/ LeaveGame(p) \/ AbortWaits(p) \/ AbortDone(p)
      PROVE  ExecutorInv'
  <2>1. UNCHANGED <<obj, fut, queueVars>>
    BY <1>6 DEF CommandGame, LaunchGame, LeaveGame, AbortWaits, AbortDone
  <2> QED
    BY <2>1 DEF queueVars, ExecutorInv
<1>7. CASE Shutdown
  <2>1. /\ pop' = [q \in Queues |-> IF pop[q] = "timer" THEN "stopped" ELSE pop[q]]
        /\ fut' = CancelledFutures(Registered)
        /\ UNCHANGED <<obj, queued, lock, snapshot>>
    BY <1>7 DEF Shutdown
  <2>2. \A j \in Ids : fut'[j] = "matched" => fut[j] = "matched"
    BY <2>1 DEF CancelledFutures
  <2> QED
    BY <2>1, <2>2 DEF ExecutorInv, RegistryTypeOK
<1>8. ASSUME NEW i \in Ids, TaskStarts(i)
      PROVE  ExecutorInv'
  <2>1. UNCHANGED <<pop, lock, snapshot>>
    BY <1>8 DEF TaskStarts
  <2>2. CASE fut[i] = "pending"
    <3>1. /\ queued' = [queued EXCEPT ![obj[i].queue] = @ \cup {i}]
          /\ UNCHANGED <<obj, fut>>
      BY <1>8, <2>2 DEF TaskStarts
    <3>2. queued' \in [Queues -> SUBSET Ids]
      BY <3>1 DEF RegistryTypeOK
    <3>3. \A q \in Queues : queued'[q] \ queued[q] \subseteq {i}
      BY <3>1 DEF RegistryTypeOK
    <3> QED
      BY <2>1, <2>2, <3>1, <3>2, <3>3, CalmStep
  <2>3. CASE fut[i] # "pending"
    <3>1. Drop({i} \ snapshot) /\ queued' = queued
      BY <1>8, <2>3 DEF TaskStarts
    <3> QED
      BY <2>1, <3>1, CalmStep DEF Drop, RegistryTypeOK
  <2> QED
    BY <2>2, <2>3
<1>9. ASSUME NEW i \in Ids, TaskEnds(i)
      PROVE  ExecutorInv'
  <2>1. /\ queued' = [queued EXCEPT ![obj[i].queue] = @ \ {i}]
        /\ Drop({i} \ snapshot)
        /\ UNCHANGED <<pop, lock, snapshot>>
    BY <1>9 DEF TaskEnds
  <2>2. /\ queued' \in [Queues -> SUBSET Ids]
        /\ \A q \in Queues : queued'[q] \ queued[q] = {}
    BY <2>1 DEF RegistryTypeOK
  <2> QED
    BY <2>1, <2>2, CalmStep DEF Drop, RegistryTypeOK
<1>10. ASSUME NEW q \in Queues, NextPop(q)
       PROVE  ExecutorInv'
  BY <1>10 DEF NextPop, ExecutorInv
<1>11. ASSUME NEW q \in Queues
       PROVE  Loop(q) = [pop EXCEPT ![q] = IF open THEN "timer" ELSE "stopped"]
  BY DEF Loop
<1>12. ASSUME NEW q \in Queues, FindMatches(q)
       PROVE  ExecutorInv'
  <2>1. UNCHANGED <<obj, fut, queued>> /\ lock = NoQueue /\ pop[q] = "lock"
    BY <1>12 DEF FindMatches
  <2>2. \A r \in Queues : pop[r] # "executor"
    BY <2>1, QueueAssumption DEF ExecutorInv
  <2>3. CASE pop' = Loop(q) /\ UNCHANGED <<lock, snapshot>>
    BY <2>1, <2>3 DEF ExecutorInv, Loop
  <2>4. CASE /\ pop' = [pop EXCEPT ![q] = "executor"]
             /\ lock' = q
             /\ snapshot' = queued[q]
    <3>1. \A i \in queued[q] : fut[i] # "matched" /\ obj[i].queue = q
      BY <2>1 DEF ExecutorInv, TaskInv, RegistryTypeOK
    <3> QED
      BY <2>1, <2>2, <2>4, <3>1 DEF ExecutorInv
  <2> QED
    BY <1>12, <2>3, <2>4 DEF FindMatches
<1>13. ASSUME NEW q \in Queues, ExecutorDone(q)
       PROVE  ExecutorInv'
  <2>1. pop[q] = "executor" /\ lock = q
    BY <1>13 DEF ExecutorDone, ExecutorInv
  <2>2. PICK Ms \in SUBSET Proposals(q) : ApplyMatches(q, Ms)
    BY <1>13 DEF ExecutorDone
  <2> DEFINE S == UNION {UNION M : M \in {P \in Ms : Matches(P)}}
             C == (UNION {SearchesOf(p, Queues) : p \in PlayersOf(S)}) \ S
             D == {i \in snapshot : task[i] = "none"}
  <2>3. \A i \in S : i \in snapshot
    BY MatchedArePending
  <2>4. /\ fut' = [i \in Ids |-> IF i \in D THEN "none"
                                ELSE IF i \in S THEN "matched"
                                ELSE CancelledFutures(C)[i]]
        /\ queued' = [queued EXCEPT ![q] = IF TeamSize[q] = 1 THEN @ \ S ELSE @]
        /\ pop' = Loop(q) /\ lock' = NoQueue /\ snapshot' = {}
    BY <2>2 DEF ApplyMatches
  <2> HIDE DEF S, C, D
  <2>5. \A i \in Ids : fut'[i] = "matched" => i \in snapshot \/ fut[i] = "matched"
    BY <2>3, <2>4 DEF CancelledFutures
  <2>6. \A r \in Queues : queued'[r] \subseteq queued[r]
    BY <2>4 DEF RegistryTypeOK
  <2>7. ASSUME NEW r \in Queues, NEW i \in queued'[r], fut'[i] = "matched"
        PROVE  pop'[r] \in {"timer", "stopped"}
    <3>1. i \in queued[r] /\ i \in Ids /\ obj[i].queue = r
      BY <2>6 DEF RegistryTypeOK, TaskInv
    <3>2. CASE i \in snapshot
      BY <2>1, <2>4, <3>1, <3>2 DEF ExecutorInv, Loop
    <3>3. CASE fut[i] = "matched"
      BY <2>4, <3>1, <3>3 DEF ExecutorInv, Loop
    <3> QED
      BY <2>5, <2>7, <3>1, <3>2, <3>3
  <2>8. \A r \in Queues : pop'[r] # "executor"
    BY <2>1, <2>4, QueueAssumption DEF ExecutorInv, Loop
  <2>9. pop' \in [Queues -> {"timer", "lock", "executor", "stopped"}]
    BY <2>4 DEF ExecutorInv, Loop
  <2> QED
    BY <2>4, <2>7, <2>8, <2>9 DEF ExecutorInv
<1>14. CASE UNCHANGED vars
  BY <1>14 DEF vars, queueVars, ExecutorInv
<1> QED
  BY <1>2, <1>4, <1>5, <1>6, <1>7, <1>8, <1>9, <1>10, <1>12, <1>13, <1>14 DEF Next

\* Player states and the rest of the players' side stay in their types
LEMMA TypeStep ==
    ASSUME QueueInv, [Next]_vars, RegistryInv', ExecutorInv'
    PROVE  TypeOK'
<1> USE DEF QueueInv, TypeOK
<1>1. ASSUME NEW K, NEW reg
      PROVE  Released(K, reg) \in [Players -> {"IDLE", "SEARCHING_LADDER",
                                   "STARTING_AUTOMATCH", "STARTING_GAME"}]
  BY DEF Released
<1>2. ASSUME NEW p \in Players, NEW Q, CancelSearch(p, Q)
      PROVE  pstate' \in [Players -> {"IDLE", "SEARCHING_LADDER",
                                     "STARTING_AUTOMATCH", "STARTING_GAME"}]
  BY <1>1, <1>2 DEF CancelSearch
<1> DEFINE OK == /\ pstate' \in [Players -> {"IDLE", "SEARCHING_LADDER",
                                            "STARTING_AUTOMATCH", "STARTING_GAME"}]
                 /\ launching' \subseteq Players
                 /\ aborting' \subseteq Players
                 /\ online' \subseteq Players
                 /\ open' \in BOOLEAN
<1>3. ASSUME NEW T \in Teams, NEW q \in Queues, Search(T, q)
      PROVE  OK
  <2> DEFINE C == UNION {SearchesOf(p, {q}) : p \in T}
  <2>1. pstate' = [p \in Players |-> IF p \in T THEN "SEARCHING_LADDER"
                                    ELSE Released(C, Cleared(C))[p]]
    BY <1>3 DEF Search
  <2>2. UNCHANGED playerVars
    BY <1>3 DEF Search
  <2> HIDE DEF C
  <2> QED
    BY <1>1, <2>1, <2>2 DEF playerVars, gameVars
<1>4. ASSUME NEW p \in Players, NEW q \in Queues, StopSearch(p, q)
      PROVE  OK
  BY <1>2, <1>4 DEF StopSearch, playerVars, gameVars
<1>5. ASSUME NEW p \in Players, Disconnect(p)
      PROVE  OK
  BY <1>2, <1>5 DEF Disconnect, gameVars
<1>6. ASSUME NEW p \in Players,
             CommandGame(p) \/ LaunchGame(p) \/ LeaveGame(p) \/ AbortWaits(p) \/ AbortDone(p)
      PROVE  OK
  BY <1>6 DEF CommandGame, LaunchGame, LeaveGame, AbortWaits, AbortDone,
              playerVars, gameVars
<1>7. ASSUME Shutdown
      PROVE  OK
  BY <1>1, <1>7 DEF Shutdown, gameVars
<1>8. ASSUME NEW i \in Ids, TaskStarts(i) \/ TaskEnds(i)
      PROVE  OK
  BY <1>8 DEF TaskStarts, TaskEnds, playerVars, gameVars
<1>9. ASSUME NEW q \in Queues, NextPop(q) \/ FindMatches(q)
      PROVE  OK
  BY <1>9 DEF NextPop, FindMatches, playerVars, gameVars
<1>10. ASSUME NEW q \in Queues, ExecutorDone(q)
       PROVE  OK
  <2>1. PICK Ms \in SUBSET Proposals(q) : ApplyMatches(q, Ms)
    BY <1>10 DEF ExecutorDone
  <2> DEFINE S == UNION {UNION M : M \in {P \in Ms : Matches(P)}}
             C == (UNION {SearchesOf(p, Queues) : p \in PlayersOf(S)}) \ S
  <2>2. /\ pstate' = [p \in Players |->
                       IF p \in PlayersOf(S) THEN "STARTING_AUTOMATCH"
                       ELSE Released(C, Cleared(C \cup S))[p]]
        /\ UNCHANGED playerVars
    BY <2>1 DEF ApplyMatches
  <2> HIDE DEF S, C
  <2> QED
    BY <1>1, <2>2 DEF playerVars, gameVars
<1>11. ASSUME UNCHANGED vars
       PROVE  OK
  BY <1>11 DEF vars, playerVars, gameVars
<1>12. OK
  <2> HIDE DEF OK
  <2> QED
    BY <1>3, <1>4, <1>5, <1>6, <1>7, <1>8, <1>9, <1>10, <1>11 DEF Next
<1> QED
  BY <1>12 DEF RegistryInv, RegistryTypeOK, ExecutorInv

-----------------------------------------------------------------------------
(* The theorems *)

\* The invariant holds of every behaviour
THEOREM QueueInvariant == Spec => []QueueInv
<1>1. Init => QueueInv
  BY DEF Init, QueueInv, TypeOK, RegistryInv, RegistryTypeOK, PendingInv,
         EntryInv, TaskInv, ClosedInv, ExecutorInv, NoObject
<1>2. QueueInv /\ [Next]_vars => QueueInv'
  BY RegistryStep, ExecutorStep, TypeStep DEF QueueInv
<1> QED
  BY <1>1, <1>2, PTL DEF Spec

\* The registry, the searches, the queues and the executor stay in their types
THEOREM QueueTypeCorrect == Spec => []TypeOK
<1>1. QueueInv => TypeOK
  BY DEF QueueInv
<1> QED
  BY <1>1, QueueInvariant, PTL

\* For all sets of queues and teams: a search is in the registry exactly as
\* long as it can be matched (_clear_search against Search.match and cancel)
THEOREM SearchesAreRegistered == Spec => []RegisteredIsPending
<1>1. QueueInv => RegisteredIsPending
  BY RegisteredFromInv DEF QueueInv, RegistryInv
<1> QED
  BY <1>1, QueueInvariant, PTL

\* Nothing but find_matches starts an automatch, and it finds all searches
\* cancelled once graceful_shutdown has begun
LEMMA OnlyMatchesStart ==
    ASSUME QueueInv, [Next]_vars, ~open, NEW p \in Players,
           pstate'[p] = "STARTING_AUTOMATCH"
    PROVE  pstate[p] = "STARTING_AUTOMATCH"
<1> USE DEF QueueInv, TypeOK
<1>1. ASSUME NEW K, NEW reg, Released(K, reg)[p] = "STARTING_AUTOMATCH"
      PROVE  pstate[p] = "STARTING_AUTOMATCH"
  BY <1>1 DEF Released
<1>2. ASSUME NEW x \in Players, NEW Q, CancelSearch(x, Q)
      PROVE  pstate[p] = "STARTING_AUTOMATCH"
  BY <1>1, <1>2 DEF CancelSearch
<1>3. ASSUME NEW T \in Teams, NEW q \in Queues, Search(T, q)
      PROVE  FALSE
  BY <1>3 DEF Search
<1>4. ASSUME NEW x \in Players, NEW q \in Queues, StopSearch(x, q)
      PROVE  pstate[p] = "STARTING_AUTOMATCH"
  BY <1>2, <1>4 DEF StopSearch
<1>5. ASSUME NEW x \in Players, Disconnect(x)
      PROVE  pstate[p] = "STARTING_AUTOMATCH"
  BY <1>2, <1>5 DEF Disconnect
<1>6. ASSUME NEW x \in Players,
             CommandGame(x) \/ LaunchGame(x) \/ LeaveGame(x) \/ AbortWaits(x) \/ AbortDone(x)
      PROVE  pstate[p] = "STARTING_AUTOMATCH"
  BY <1>6 DEF CommandGame, LaunchGame, LeaveGame, AbortWaits, AbortDone
<1>7. CASE Shutdown
  BY <1>7 DEF Shutdown
<1>8. ASSUME NEW i \in Ids, TaskStarts(i) \/ TaskEnds(i)
      PROVE  pstate[p] = "STARTING_AUTOMATCH"
  BY <1>8 DEF TaskStarts, TaskEnds
<1>9. ASSUME NEW q \in Queues, NextPop(q) \/ FindMatches(q)
      PROVE  pstate[p] = "STARTING_AUTOMATCH"
  BY <1>9 DEF NextPop, FindMatches
<1>10. ASSUME NEW q \in Queues, ExecutorDone(q)
       PROVE  pstate[p] = "STARTING_AUTOMATCH"
  <2>1. PICK Ms \in SUBSET Proposals(q) : ApplyMatches(q, Ms)
    BY <1>10 DEF ExecutorDone
  <2> DEFINE S == UNION {UNION M : M \in {P \in Ms : Matches(P)}}
             C == (UNION {SearchesOf(x, Queues) : x \in PlayersOf(S)}) \ S
  <2>2. pstate' = [x \in Players |->
                    IF x \in PlayersOf(S) THEN "STARTING_AUTOMATCH"
                    ELSE Released(C, Cleared(C \cup S))[x]]
    BY <2>1 DEF ApplyMatches
  <2>3. \A i \in S : i \in snapshot /\ fut[i] = "pending"
    BY MatchedArePending
  <2> HIDE DEF S, C
  <2>4. S = {}
    BY <2>3 DEF RegistryInv, ClosedInv
  <2>5. PlayersOf(S) = {}
    BY <2>4 DEF PlayersOf
  <2> QED
    BY <1>1, <2>2, <2>5
<1>11. CASE UNCHANGED vars
  BY <1>11 DEF vars
<1> QED
  BY <1>3, <1>4, <1>5, <1>6, <1>7, <1>8, <1>9, <1>10, <1>11 DEF Next

\* After graceful_shutdown nobody is matched, whatever the executor answers
THEOREM ShutdownEndsMatching == Spec => NoMatchAfterShutdown
<1> DEFINE A == ~open => \A p \in Players : pstate'[p] = "STARTING_AUTOMATCH"
                                            => pstate[p] = "STARTING_AUTOMATCH"
<1>1. QueueInv /\ [Next]_vars => [A]_vars
  BY OnlyMatchesStart
<1>2. Spec => [][A]_vars
  BY <1>1, QueueInvariant, PTL DEF Spec
<1> QED
  BY <1>2, Zenon DEF NoMatchAfterShutdown

-----------------------------------------------------------------------------
(* The searches of LadderSearch are the Search objects that can be matched *)

Standing == {i \in Ids : fut[i] = "pending"}

\* The searches that LadderSearch sees
View(K) == {obj[i] : i \in K}

\* The registry holds the searches that can be matched, each of them once
LEMMA StandingSearches ==
    ASSUME QueueInv
    PROVE  /\ Registered = Standing
           /\ \A i, j \in Standing : obj[i] = obj[j] => i = j
           /\ \A i \in Standing : /\ obj[i].queue \in Queues
                                  /\ obj[i].players # {}
                                  /\ obj[i].players \subseteq Players
                                  /\ \A p \in obj[i].players :
                                       registry[p][obj[i].queue] = i
<1> USE DEF QueueInv, RegistryInv
<1>1. Registered = Standing
  <2>1. RegisteredIsPending
    BY RegisteredFromInv
  <2> QED
    BY <2>1 DEF RegisteredIsPending, Standing, Registered
<1>2. \A i \in Standing : /\ obj[i].queue \in Queues
                          /\ obj[i].players # {}
                          /\ obj[i].players \subseteq Players
                          /\ \A p \in obj[i].players : registry[p][obj[i].queue] = i
  BY DEF Standing, PendingInv, RegistryTypeOK
<1>3. ASSUME NEW i \in Standing, NEW j \in Standing, obj[i] = obj[j]
      PROVE  i = j
  <2>1. PICK p \in obj[i].players : TRUE
    BY <1>2
  <2> QED
    BY <1>2, <1>3, <2>1
<1> QED
  BY <1>1, <1>2, <1>3

\* ... also in the next state
LEMMA RegisteredStanding == QueueInv => Registered = Standing
BY StandingSearches

\* A player finds its searches in the registry, and only those
LEMMA SearchesOfView ==
    ASSUME QueueInv, NEW p \in Players, NEW Q \in SUBSET Queues
    PROVE  /\ SearchesOf(p, Q) \subseteq Standing
           /\ \A i \in Standing : i \in SearchesOf(p, Q)
                                 <=> obj[i].queue \in Q /\ p \in obj[i].players
<1> USE DEF QueueInv, RegistryInv
<1>1. SearchesOf(p, Q) \subseteq Standing
  BY SearchesArePending DEF Standing
<1>2. ASSUME NEW i \in Standing, i \in SearchesOf(p, Q)
      PROVE  obj[i].queue \in Q /\ p \in obj[i].players
  <2>1. PICK q \in Q : i = registry[p][q] /\ i # NoSearch
    BY <1>2 DEF SearchesOf
  <2> QED
    BY <2>1 DEF EntryInv
<1>3. ASSUME NEW i \in Standing, obj[i].queue \in Q, p \in obj[i].players
      PROVE  i \in SearchesOf(p, Q)
  <2>1. registry[p][obj[i].queue] = i
    BY <1>3, StandingSearches
  <2>2. i # NoSearch
    BY QueueAssumption DEF Standing
  <2> QED
    BY <1>3, <2>1, <2>2 DEF SearchesOf
<1> QED
  BY <1>1, <1>2, <1>3

\* What _cancel_search makes of the players' states is what LadderSearch says
LEMMA ReleasedView ==
    ASSUME QueueInv, NEW K \in SUBSET Standing, NEW p \in Players
    PROVE  Released(K, Cleared(K))[p] = Ladder!Cancelled(View(K))[p]
<1>1. p \in PlayersOf(K) <=> p \in Ladder!PlayersOf(View(K))
  BY DEF PlayersOf, Ladder!PlayersOf, View
<1>2. K \in SUBSET Ids /\ \A i \in K : fut[i] = "pending"
  BY DEF Standing
<1>3. \A q \in Queues : Cleared(K)[p][q] = IF registry[p][q] \in K THEN NoSearch
                                           ELSE registry[p][q]
  BY <1>2, ClearedEntries DEF QueueInv, RegistryInv
<1>4. ASSUME NEW q \in Queues, Cleared(K)[p][q] # NoSearch
      PROVE  p \in Ladder!PlayersOf(View(Registered) \ View(K))
  <2>1. registry[p][q] \notin K /\ registry[p][q] # NoSearch
    BY <1>3, <1>4
  <2>2. registry[p][q] \in Standing /\ p \in obj[registry[p][q]].players
    BY <2>1 DEF QueueInv, RegistryInv, EntryInv, RegistryTypeOK, Standing
  <2>3. obj[registry[p][q]] \in View(Registered) \ View(K)
    BY <2>1, <2>2, StandingSearches DEF View
  <2> QED
    BY <2>2, <2>3 DEF Ladder!PlayersOf
<1>5. ASSUME p \in Ladder!PlayersOf(View(Registered) \ View(K))
      PROVE  \E q \in Queues : Cleared(K)[p][q] # NoSearch
  <2>1. PICK i \in Registered : obj[i] \notin View(K) /\ p \in obj[i].players
    BY <1>5 DEF Ladder!PlayersOf, View
  <2>2. /\ i \in Standing /\ obj[i].queue \in Queues
        /\ registry[p][obj[i].queue] = i
    BY <2>1, StandingSearches
  <2>3. i \notin K
    BY <2>1 DEF View
  <2>4. i # NoSearch
    BY <2>2, QueueAssumption DEF Standing
  <2> QED
    BY <1>3, <2>2, <2>3, <2>4
<1>6. (\A q \in Queues : Cleared(K)[p][q] = NoSearch)
        <=> p \notin Ladder!PlayersOf(View(Registered) \ View(K))
  BY <1>4, <1>5
<1> QED
  BY <1>1, <1>6 DEF Released, Ladder!Cancelled, View

\* Searches that are over leave the view, and the others stay in it
LEMMA ViewAfter ==
    ASSUME QueueInv, QueueInv', NEW K \in SUBSET Standing,
           \A i \in Ids : fut'[i] = "pending" <=> i \in Standing \ K,
           \A i \in Standing \ K : obj'[i] = obj[i]
    PROVE  View(Registered)' = View(Registered) \ View(K)
<1>1. Registered' = Standing'
  <2>1. (QueueInv => Registered = Standing)'
    BY RegisteredStanding, PTL
  <2> QED
    BY <2>1
<1>2. Standing' = Standing \ K
  BY DEF Standing
<1>3. View(Registered)' = {obj[i] : i \in Standing \ K}
  BY <1>1, <1>2 DEF View
<1>4. View(Registered) = {obj[i] : i \in Standing}
  BY StandingSearches DEF View
<1>5. \A i, j \in Standing : obj[i] = obj[j] => i = j
  BY StandingSearches
<1>6. {obj[i] : i \in Standing \ K} = {obj[i] : i \in Standing} \ {obj[i] : i \in K}
  BY <1>5
<1> QED
  BY <1>3, <1>4, <1>6 DEF View

\* The same for all players
LEMMA ReleasedAre ==
    ASSUME QueueInv, NEW K \in SUBSET Standing
    PROVE  Released(K, Cleared(K)) = Ladder!Cancelled(View(K))
<1>1. Released(K, Cleared(K)) = [p \in Players |-> Released(K, Cleared(K))[p]]
  BY DEF Released
<1>2. Ladder!Cancelled(View(K)) = [p \in Players |-> Ladder!Cancelled(View(K))[p]]
  BY DEF Ladder!Cancelled
<1>3. \A p \in Players : Released(K, Cleared(K))[p] = Ladder!Cancelled(View(K))[p]
  BY ReleasedView
<1> QED
  BY <1>1, <1>2, <1>3

\* cancel_search of one player is the abstract cancellation
LEMMA CancelMaps ==
    ASSUME QueueInv, QueueInv', NEW p \in Players, NEW Q \in SUBSET Queues,
           CancelSearch(p, Q), UNCHANGED obj
    PROVE  Ladder!CancelSearch(p, Q)
<1> DEFINE K == SearchesOf(p, Q)
<1>1. /\ K \in SUBSET Standing
      /\ \A i \in Standing : i \in K <=> obj[i].queue \in Q /\ p \in obj[i].players
  BY SearchesOfView
<1>2. fut' = CancelledFutures(K) /\ pstate' = Released(K, Cleared(K))
  BY DEF CancelSearch
<1> HIDE DEF K
<1>3. View(K) = {s \in View(Registered) : s.queue \in Q /\ p \in s.players}
  BY <1>1, StandingSearches DEF View
<1>4. \A i \in Ids : fut'[i] = "pending" <=> i \in Standing \ K
  BY <1>1, <1>2 DEF CancelledFutures, Standing
<1>5. View(Registered)' = View(Registered) \ View(K)
  BY <1>1, <1>4, ViewAfter
<1>6. pstate' = Ladder!Cancelled(View(K))
  BY <1>1, <1>2, ReleasedAre
<1> QED
  BY <1>3, <1>5, <1>6 DEF Ladder!CancelSearch, View

\* start_search is the abstract one: whatever its players search in the queue
\* gives way to the new search
LEMMA SearchMaps ==
    ASSUME QueueInv, QueueInv', NEW T \in Teams, NEW q \in Queues, Search(T, q)
    PROVE  Ladder!Search(T, q)
<1> DEFINE K == UNION {SearchesOf(p, {q}) : p \in T}
<1>1. T \subseteq Players /\ open
  BY QueueAssumption DEF Search
<1>2. /\ K \in SUBSET Standing
      /\ \A i \in Standing : i \in K <=> obj[i].queue = q /\ obj[i].players \cap T # {}
  <2>1. ASSUME NEW p \in T
        PROVE  /\ SearchesOf(p, {q}) \subseteq Standing
               /\ \A i \in Standing : i \in SearchesOf(p, {q})
                                     <=> obj[i].queue = q /\ p \in obj[i].players
    <3>1. p \in Players /\ {q} \in SUBSET Queues
      BY <1>1
    <3> QED
      BY <3>1, SearchesOfView
  <2> QED
    BY <2>1
<1>3. pstate' = [p \in Players |-> IF p \in T THEN "SEARCHING_LADDER"
                                  ELSE Released(K, Cleared(K))[p]]
  BY DEF Search
<1>4. PICK i \in Ids :
        /\ fut[i] = "none"
        /\ obj' = [obj EXCEPT ![i] = [queue |-> q, players |-> T]]
        /\ fut' = [CancelledFutures(K) EXCEPT ![i] = "pending"]
  BY DEF Search
<1>5. UNCHANGED <<launching, aborting, online, open>>
  BY DEF Search, playerVars, gameVars
<1>6. /\ T \subseteq online
      /\ \E p \in T : LoopFree(p)
      /\ \A p \in T : pstate[p] \in {"IDLE", "SEARCHING_LADDER"}
  BY DEF Search
<1> HIDE DEF K
<1>7. View(K) = {s \in View(Registered) : s.queue = q /\ s.players \cap T # {}}
  BY <1>2, StandingSearches DEF View
<1>8. Standing' = (Standing \ K) \cup {i} /\ i \notin Standing
  BY <1>2, <1>4 DEF CancelledFutures, Standing
<1>9. Registered' = Standing'
  <2>1. (QueueInv => Registered = Standing)'
    BY RegisteredStanding, PTL
  <2> QED
    BY <2>1
<1>10. obj'[i] = [queue |-> q, players |-> T] /\ \A j \in Standing \ K : obj'[j] = obj[j]
  BY <1>4, <1>8 DEF QueueInv, TypeOK, Standing
<1>11. View(Registered)' = {obj[j] : j \in Standing \ K} \cup {[queue |-> q, players |-> T]}
  BY <1>8, <1>9, <1>10 DEF View
<1>12. {obj[j] : j \in Standing \ K} = View(Registered) \ View(K)
  BY <1>2, StandingSearches DEF View
<1>13. View(Registered)'
         = (View(Registered) \ View(K)) \cup {[queue |-> q, players |-> T]}
  BY <1>11, <1>12
<1>14. pstate' = [p \in Players |-> IF p \in T THEN "SEARCHING_LADDER"
                                   ELSE Ladder!Cancelled(View(K))[p]]
  BY <1>2, <1>3, ReleasedAre
<1>15. Ladder!StartSearch(T, q)
  BY <1>1, <1>7, <1>13, <1>14 DEF Ladder!StartSearch, View
<1> QED
  BY <1>5, <1>6, <1>15 DEF Ladder!Search, Ladder!LoopFree, LoopFree, Ladder!gameVars

\* The answer of the executor is one abstract match of the searches S that
\* stand, or no step at all
LEMMA ExecutorMaps ==
    ASSUME QueueInv, QueueInv', NEW q \in Queues, ExecutorDone(q)
    PROVE  (\E M \in SUBSET View(Registered) : Ladder!Match(M))
             \/ UNCHANGED Ladder!searchVars
<1>1. PICK Ms \in SUBSET Proposals(q) : ApplyMatches(q, Ms)
  BY DEF ExecutorDone
<1> DEFINE S == UNION {UNION M : M \in {P \in Ms : Matches(P)}}
           C == (UNION {SearchesOf(p, Queues) : p \in PlayersOf(S)}) \ S
           D == {i \in snapshot : task[i] = "none"}
           K == C \cup S
<1>2. /\ obj' = [i \in Ids |-> IF i \in D THEN NoObject ELSE obj[i]]
      /\ fut' = [i \in Ids |-> IF i \in D THEN "none"
                              ELSE IF i \in S THEN "matched"
                              ELSE CancelledFutures(C)[i]]
      /\ pstate' = [p \in Players |->
                      IF p \in PlayersOf(S) THEN "STARTING_AUTOMATCH"
                      ELSE Released(C, Cleared(K))[p]]
      /\ UNCHANGED <<launching, aborting, online, open>>
  BY <1>1 DEF ApplyMatches, playerVars, gameVars
<1>3. \A i \in S : i \in snapshot /\ fut[i] = "pending" /\ task[i] # "none"
  BY MatchedArePending DEF QueueInv
<1>4. \A p \in PlayersOf(S) : pstate[p] = "SEARCHING_LADDER"
  <2>1. ASSUME NEW p \in PlayersOf(S)
        PROVE  pstate[p] = "SEARCHING_LADDER"
    <3>1. PICK M \in Ms : Matches(M) /\ p \in PlayersOf(UNION M)
      BY DEF PlayersOf
    <3> QED
      BY <3>1 DEF Matches
  <2> QED
    BY <2>1
<1>5. \A i \in Ids : i \in D <=> i \in snapshot /\ task[i] = "none"
  OBVIOUS
<1> HIDE DEF S, D
<1>6. S \subseteq Standing /\ \A i \in S : obj[i].queue = q
  <2>1. lock = q
    BY DEF ExecutorDone, QueueInv, ExecutorInv
  <2> QED
    BY <1>3, <2>1 DEF QueueInv, RegistryInv, RegistryTypeOK, ExecutorInv, Standing
<1>7. PlayersOf(S) \subseteq Players
  BY <1>6, StandingSearches DEF PlayersOf
<1>8. /\ C \subseteq Standing
      /\ \A i \in Standing : i \in K <=> obj[i].players \cap PlayersOf(S) # {}
  <2>1. ASSUME NEW p \in PlayersOf(S)
        PROVE  /\ SearchesOf(p, Queues) \subseteq Standing
               /\ \A i \in Standing : i \in SearchesOf(p, Queues)
                                     <=> obj[i].queue \in Queues /\ p \in obj[i].players
    BY <1>7, SearchesOfView
  <2>2. C \subseteq Standing
    BY <2>1
  <2>3. ASSUME NEW i \in Standing, i \in K
        PROVE  obj[i].players \cap PlayersOf(S) # {}
    <3>1. CASE i \in S
      BY <1>6, <3>1, StandingSearches DEF PlayersOf
    <3>2. CASE i \in C
      BY <2>1, <3>2
    <3> QED
      BY <2>3, <3>1, <3>2
  <2>4. ASSUME NEW i \in Standing, obj[i].players \cap PlayersOf(S) # {}
        PROVE  i \in K
    <3>1. PICK p \in PlayersOf(S) : p \in obj[i].players
      BY <2>4
    <3>2. obj[i].queue \in Queues
      BY StandingSearches
    <3>3. i \in SearchesOf(p, Queues)
      BY <2>1, <3>1, <3>2
    <3> QED
      BY <3>3
  <2> QED
    BY <2>2, <2>3, <2>4
<1>9. K \in SUBSET Standing
  BY <1>6, <1>8
<1> HIDE DEF C
<1>10. \A i \in Ids : i \in D => i \notin Standing
  BY <1>5 DEF QueueInv, RegistryInv, TaskInv, Standing
<1>11. \A i \in Ids : fut'[i] = "pending" <=> i \in Standing \ K
  BY <1>2, <1>6, <1>8, <1>10 DEF CancelledFutures, Standing
<1>12. \A i \in Standing \ K : obj'[i] = obj[i]
  BY <1>2, <1>10 DEF Standing
<1>13. \A p \in Players : p \notin PlayersOf(S) =>
         Released(C, Cleared(K))[p] = Released(K, Cleared(K))[p]
  <2>1. ASSUME NEW p \in Players, p \notin PlayersOf(S)
        PROVE  p \in PlayersOf(C) <=> p \in PlayersOf(K)
    BY <2>1 DEF PlayersOf
  <2> HIDE DEF K
  <2> QED
    BY <2>1 DEF Released
<1> HIDE DEF K
<1>14. View(Registered)' = View(Registered) \ View(K)
  BY <1>9, <1>11, <1>12, ViewAfter
<1>15. View(K) = {s \in View(Registered) : s.players \cap PlayersOf(S) # {}}
  BY <1>8, <1>9, StandingSearches DEF View
<1>16. PlayersOf(S) = Ladder!PlayersOf(View(S))
  BY DEF PlayersOf, Ladder!PlayersOf, View
<1>17. pstate' = [p \in Players |->
                    IF p \in PlayersOf(S) THEN "STARTING_AUTOMATCH"
                    ELSE Ladder!Cancelled(View(K))[p]]
  <2>1. Released(K, Cleared(K)) = Ladder!Cancelled(View(K))
    BY <1>9, ReleasedAre
  <2> QED
    BY <1>2, <1>13, <2>1
<1>18. View(S) \in SUBSET View(Registered)
  BY <1>6, StandingSearches DEF View
<1>19. PICK M \in SUBSET View(Registered) : M = View(S)
  BY <1>18
<1>20. CASE S # {}
  <2>1. M # {}
    BY <1>19, <1>20 DEF View
  <2>2. \A s, x \in M : s.queue = x.queue
    BY <1>6, <1>19 DEF View
  <2>3. PlayersOf(S) = Ladder!PlayersOf(M)
    BY <1>16, <1>19
  <2>4. \A p \in Ladder!PlayersOf(M) : pstate[p] = "SEARCHING_LADDER"
    BY <1>4, <2>3
  <2>5. Ladder!Matchable(M)
    BY <1>19, <2>1, <2>2, <2>4 DEF Ladder!Matchable, View
  <2>6. Ladder!MatchFound(M)
    BY <1>14, <1>15, <1>17, <2>3 DEF Ladder!MatchFound, View
  <2>7. Ladder!Match(M)
    BY <1>2, <2>5, <2>6 DEF Ladder!Match, Ladder!gameVars
  <2> QED
    BY <2>7
<1>21. CASE S = {}
  <2>1. PlayersOf(S) = {}
    BY <1>21 DEF PlayersOf
  <2>2. View(K) = {}
    BY <1>15, <2>1
  <2>3. View(Registered)' = View(Registered)
    BY <1>14, <2>2
  <2>4. Ladder!Cancelled(View(K)) = pstate
    <3>1. pstate = [p \in Players |-> pstate[p]]
      BY DEF QueueInv, TypeOK
    <3>2. Ladder!PlayersOf(View(K)) = {}
      BY <2>2 DEF Ladder!PlayersOf
    <3> QED
      BY <3>1, <3>2 DEF Ladder!Cancelled
  <2>5. pstate' = pstate
    <3>1. pstate' = [p \in Players |-> pstate[p]]
      BY <1>17, <2>1, <2>4
    <3> QED
      BY <3>1 DEF QueueInv, TypeOK
  <2> QED
    BY <1>2, <2>3, <2>5 DEF Ladder!searchVars, Ladder!gameVars, View
<1> QED
  BY <1>20, <1>21

\* A step that cancels, matches and registers nothing is no abstract step
LEMMA ViewStays ==
    ASSUME QueueInv, QueueInv',
           \A i \in Ids : fut'[i] = "pending" <=> fut[i] = "pending",
           \A i \in Standing : obj'[i] = obj[i]
    PROVE  View(Registered)' = View(Registered)
<1>1. \A i \in Ids : fut'[i] = "pending" <=> i \in Standing \ {}
  BY DEF Standing
<1>2. View({}) = {} /\ {} \in SUBSET Standing
  BY DEF View
<1>3. View(Registered)' = View(Registered) \ View({})
  BY <1>1, <1>2, ViewAfter
<1> QED
  BY <1>2, <1>3

\* Every step of the queues is a step of LadderSearch or leaves it alone
LEMMA StepMaps ==
    ASSUME QueueInv, QueueInv', [Next]_vars
    PROVE  [Ladder!SearchNext]_(Ladder!searchVars)
<1>1. ASSUME NEW T \in Teams, NEW q \in Queues, Search(T, q)
      PROVE  Ladder!SearchNext
  BY <1>1, SearchMaps DEF Ladder!SearchNext
<1>2. ASSUME NEW p \in Players, NEW q \in Queues, StopSearch(p, q)
      PROVE  Ladder!SearchNext
  <2>1. /\ CancelSearch(p, {q}) /\ UNCHANGED obj
        /\ UNCHANGED <<launching, aborting, online, open>> /\ LoopFree(p)
    BY <1>2 DEF StopSearch, playerVars, gameVars
  <2>2. Ladder!CancelSearch(p, {q})
    BY <2>1, CancelMaps
  <2>3. Ladder!StopSearch(p, q)
    BY <2>1, <2>2 DEF Ladder!StopSearch, Ladder!LoopFree, LoopFree, Ladder!gameVars
  <2> QED
    BY <2>3 DEF Ladder!SearchNext
<1>3. ASSUME NEW p \in Players, Disconnect(p)
      PROVE  Ladder!SearchNext
  <2>1. /\ CancelSearch(p, Queues) /\ UNCHANGED obj
        /\ UNCHANGED <<launching, aborting, open>> /\ LoopFree(p)
        /\ online' = online \ {p}
    BY <1>3 DEF Disconnect, gameVars
  <2>2. Ladder!CancelSearch(p, Queues)
    BY <2>1, CancelMaps
  <2>3. Ladder!Disconnect(p)
    BY <2>1, <2>2 DEF Ladder!Disconnect, Ladder!LoopFree, LoopFree, Ladder!gameVars
  <2> QED
    BY <2>3 DEF Ladder!SearchNext
<1>4. ASSUME NEW p \in Players,
             CommandGame(p) \/ LaunchGame(p) \/ LeaveGame(p) \/ AbortWaits(p) \/ AbortDone(p)
      PROVE  Ladder!SearchNext
  <2>1. UNCHANGED <<registry, obj>>
    BY <1>4 DEF CommandGame, LaunchGame, LeaveGame, AbortWaits, AbortDone
  <2>2. {obj[i] : i \in Registered}' = {obj[i] : i \in Registered}
    BY <2>1 DEF Registered
  <2>3. \/ Ladder!CommandGame(p) \/ Ladder!LaunchGame(p) \/ Ladder!LeaveGame(p)
        \/ Ladder!AbortWaits(p) \/ Ladder!AbortDone(p)
    BY <1>4, <2>2 DEF CommandGame, LaunchGame, LeaveGame, AbortWaits, AbortDone,
           Ladder!CommandGame, Ladder!LaunchGame, Ladder!LeaveGame,
           Ladder!AbortWaits, Ladder!AbortDone, LoopFree, Ladder!LoopFree,
           Ladder!gameVars, playerVars, gameVars
  <2> QED
    BY <2>3 DEF Ladder!SearchNext
<1>5. ASSUME Shutdown
      PROVE  Ladder!SearchNext
  <2>1. Registered = Standing
    BY StandingSearches
  <2>2. /\ open /\ open' = FALSE /\ UNCHANGED obj
        /\ fut' = CancelledFutures(Registered)
        /\ pstate' = Released(Registered, Cleared(Registered))
        /\ UNCHANGED <<launching, aborting, online>>
    BY <1>5 DEF Shutdown, gameVars
  <2> HIDE DEF Registered
  <2>3. \A i \in Ids : fut'[i] = "pending" <=> i \in Standing \ Standing
    BY <2>1, <2>2 DEF CancelledFutures, Standing
  <2>4. View(Registered)' = View(Registered) \ View(Standing)
    BY <2>2, <2>3, ViewAfter
  <2>5. View(Registered)' = {}
    BY <2>1, <2>4
  <2>6. pstate' = Ladder!Cancelled(View(Registered))
    BY <2>1, <2>2, ReleasedAre
  <2>7. Ladder!Close
    BY <2>2, <2>5, <2>6 DEF Ladder!Close, View, Ladder!gameVars
  <2> QED
    BY <2>7 DEF Ladder!SearchNext
<1>6. ASSUME NEW i \in Ids, TaskStarts(i) \/ TaskEnds(i)
      PROVE  UNCHANGED Ladder!searchVars
  <2>1. UNCHANGED <<pstate, launching, aborting, online, open>>
    BY <1>6 DEF TaskStarts, TaskEnds, playerVars, gameVars
  <2>2. UNCHANGED <<obj, fut>> \/ (fut[i] # "pending" /\ Drop({i} \ snapshot))
    BY <1>6 DEF TaskStarts, TaskEnds
  <2>3. /\ \A j \in Ids : fut'[j] = "pending" <=> fut[j] = "pending"
        /\ \A j \in Standing : obj'[j] = obj[j]
    BY <2>2 DEF Drop, Standing
  <2>4. View(Registered)' = View(Registered)
    BY <2>3, ViewStays
  <2> QED
    BY <2>1, <2>4 DEF Ladder!searchVars, Ladder!gameVars, View
<1>7. ASSUME NEW q \in Queues, NextPop(q) \/ FindMatches(q)
      PROVE  UNCHANGED Ladder!searchVars
  <2>1. UNCHANGED <<pstate, registry, obj, launching, aborting, online, open>>
    BY <1>7 DEF NextPop, FindMatches, playerVars, gameVars
  <2> QED
    BY <2>1 DEF Ladder!searchVars, Ladder!gameVars, Registered
<1>8. ASSUME NEW q \in Queues, ExecutorDone(q)
      PROVE  [Ladder!SearchNext]_(Ladder!searchVars)
  <2>1. (\E M \in SUBSET View(Registered) : Ladder!Match(M))
          \/ UNCHANGED Ladder!searchVars
    BY <1>8, ExecutorMaps
  <2> QED
    BY <2>1 DEF Ladder!SearchNext, View
<1>9. ASSUME UNCHANGED vars
      PROVE  UNCHANGED Ladder!searchVars
  <2>1. UNCHANGED <<pstate, registry, obj, launching, aborting, online, open>>
    BY <1>9 DEF vars, playerVars, gameVars
  <2> QED
    BY <2>1 DEF Ladder!searchVars, Ladder!gameVars, Registered
<1> QED
  BY <1>1, <1>2, <1>3, <1>4, <1>5, <1>6, <1>7, <1>8, <1>9 DEF Next

\* MatchmakerQueue implements LadderSearch: with all their futures, tasks,
\* timers and the executor thread, the queues start, cancel and match searches
\* as if each call were one step
THEOREM QueuesImplementSearches == Spec => LadderSpec
<1>1. Init => Ladder!SearchInit
  <2>1. ASSUME Init
        PROVE  Registered = {}
    BY <2>1, QueueAssumption DEF Init, Registered
  <2> QED
    BY <2>1 DEF Init, Ladder!SearchInit
<1>2. QueueInv /\ QueueInv' /\ [Next]_vars => [Ladder!SearchNext]_(Ladder!searchVars)
  BY StepMaps
<1>3. Spec => Ladder!SearchSpec
  BY <1>1, <1>2, QueueInvariant, PTL DEF Spec, Ladder!SearchSpec
<1> QED
  BY <1>3 DEF LadderSpec

-----------------------------------------------------------------------------
(* Stable marriage                                                          *)

\* The least of the searches that may propose is one of them
LEMMA MinIsMember ==
    ASSUME NEW S \in SUBSET Nat, S # {}
    PROVE  Min(S) \in S
BY LeastNat, Zenon DEF Min

\* Pairs are unordered
LEMMA QualityIsInt ==
    ASSUME MarriageAssumption, MarriageTypeOK, NEW s \in Searches, NEW t \in Searches, s # t
    PROVE  Quality(s, t) \in Int /\ Quality(s, t) = Quality(t, s)
<1>1. s \in Int /\ t \in Int
  BY DEF MarriageAssumption, Searches
<1>2. {s, t} \in Duels
  <2>1. Cardinality({s, t}) = 2
    <3>1. /\ IsFiniteSet({s}) /\ Cardinality({s}) = 1
          /\ {s, t} = {s} \cup {t} /\ t \notin {s}
      BY FS_Singleton
    <3> QED
      BY <3>1, FS_AddElement
  <2> QED
    BY <2>1 DEF Duels
<1>3. quality[{s, t}] \in Int
  BY <1>2 DEF MarriageTypeOK, MarriageAssumption
<1>4. {s, t} = {t, s}
  OBVIOUS
<1> QED
  BY <1>3, <1>4 DEF Quality

\* The best of a preference list is on the list
LEMMA PreferredIsRanked ==
    ASSUME MarriageAssumption, MarriageTypeOK, NEW s \in Searches,
           ranks[s] # {}, s \notin ranks[s]
    PROVE  Preferred(s) \in ranks[s]
<1> DEFINE Better(t, u) == \/ Quality(s, t) > Quality(s, u)
                           \/ Quality(s, t) = Quality(s, u) /\ Place(t) > Place(u)
           Above == {d \in ranks[s] \X ranks[s] : Better(d[1], d[2])}
<1>1. ranks[s] \in SUBSET Searches /\ IsFiniteSet(ranks[s])
  <2>1. ranks[s] \in SUBSET Searches
    BY DEF MarriageTypeOK
  <2>2. IsFiniteSet(Searches)
    BY FS_Interval DEF Searches, MarriageAssumption
  <2> QED
    BY <2>1, <2>2, FS_Subset
<1>2. \A t \in ranks[s] : Quality(s, t) \in Int
  BY <1>1, QualityIsInt
<1>3. /\ \A t \in ranks[s] : Place(t) \in Int
      /\ \A t, u \in ranks[s] : Place(t) = Place(u) => t = u
  BY <1>1 DEF Place, MarriageAssumption, Searches
<1>4. \A t, u \in ranks[s] : <<t, u>> \in Above <=> Better(t, u)
  OBVIOUS
<1> HIDE DEF Above
<1>5. \E t \in ranks[s] : \A u \in ranks[s] \ {t} : <<t, u>> \in Above
  <2>1. \A t, u \in ranks[s] : t # u => <<t, u>> \in Above \/ <<u, t>> \in Above
    BY <1>2, <1>3, <1>4
  <2>2. \A t \in ranks[s] : <<t, t>> \notin Above
    BY <1>2, <1>3, <1>4
  <2>3. \A t, u, v \in ranks[s] : <<t, u>> \in Above /\ <<u, v>> \in Above
                                    => <<t, v>> \in Above
    BY <1>2, <1>3, <1>4
  <2> QED
    BY <1>1, <2>1, <2>2, <2>3, GreatestExists
<1>6. \E t \in ranks[s] : \A u \in ranks[s] \ {t} : Better(t, u)
  BY <1>4, <1>5
<1> QED
  BY <1>6, Zenon DEF Preferred

\* The graph and the preference lists: whoever may propose to a search is one to
\* whom that search may propose
GraphInv ==
    /\ \A s, t \in Searches : t \in edges[s] => s \in edges[t] /\ s # t
    /\ \A s \in Searches : ranks[s] \subseteq edges[s]

\* With that, all matches of a pop are pairs
MarriageInv == MarriageTypeOK /\ GraphInv /\ MatchesArePairs

\* Acceptance is mutual, and so is being near in the order
LEMMA GraphIsMutual ==
    ASSUME MarriageAssumption, MarriageTypeOK
    PROVE  /\ Graph \in [Searches -> SUBSET Searches]
           /\ \A s, t \in Searches : t \in Graph[s] => s \in Graph[t] /\ s # t
<1>1. ASSUME NEW s \in Searches, NEW t \in Searches
      PROVE  /\ Near(s, t) => Near(t, s)
             /\ s # t /\ Acceptable(s, t) => Acceptable(t, s)
  <2>1. {Mean[s], Mean[t]} = {Mean[t], Mean[s]}
    OBVIOUS
  <2>2. Near(s, t) => Near(t, s)
    BY <2>1, Zenon DEF Near
  <2>3. s # t => Quality(s, t) = Quality(t, s)
    BY QualityIsInt
  <2>4. s # t /\ Acceptable(s, t) => Acceptable(t, s)
    BY <2>3, Zenon DEF Acceptable
  <2> QED
    BY <2>2, <2>4
<1>2. Graph \in [Searches -> SUBSET Searches]
  BY DEF Graph, MarriageTypeOK
<1> QED
  BY <1>1, <1>2 DEF Graph

\* A proposal among a graph keeps the matches pairs
LEMMA MatchKeepsPairs ==
    ASSUME MarriageAssumption, MarriageInv, NEW s \in Searches, NEW t \in ranks[s],
           matches[s] = NoMatch, edges' = edges, matches' \in {matches, Match(s, t)}
    PROVE  /\ MatchesArePairs'
           /\ matches' \in [Searches -> Searches \cup {NoMatch}]
<1>1. /\ t \in Searches /\ s # t /\ t \in edges[s] /\ s \in edges[t]
      /\ NoMatch \notin Searches
  BY DEF MarriageInv, MarriageTypeOK, GraphInv, MarriageAssumption
<1>2. CASE matches' = matches
  BY <1>2 DEF MarriageInv, MarriageTypeOK, MatchesArePairs
<1>3. CASE matches' = Match(s, t)
  <2>1. /\ matches'[s] = t /\ matches'[t] = s
        /\ \A u \in Searches \ {s, t} :
             matches'[u] = IF matches[u] = t THEN NoMatch ELSE matches[u]
    BY <1>1, <1>3 DEF Match
  <2>2. matches' \in [Searches -> Searches \cup {NoMatch}]
    <3>1. \A u \in Searches : matches[u] \in Searches \cup {NoMatch}
      BY DEF MarriageInv, MarriageTypeOK
    <3>2. matches' = [u \in Searches |-> matches'[u]]
      BY <1>3 DEF Match
    <3> QED
      BY <1>1, <2>1, <3>1, <3>2
  <2>3. ASSUME NEW u \in Searches \ {s, t}, matches'[u] # NoMatch
        PROVE  matches'[matches'[u]] = u /\ matches'[u] \in edges[u]
    <3>1. matches'[u] = matches[u] /\ matches[u] # t
      BY <2>1, <2>3
    <3>2. /\ matches[matches[u]] = u /\ matches[u] \in edges[u]
          /\ matches[u] \in Searches
      BY <2>3, <3>1 DEF MarriageInv, MarriageTypeOK, MatchesArePairs
    <3>3. matches[u] # s
      BY <1>1, <3>2
    <3> QED
      BY <2>1, <3>1, <3>2, <3>3
  <2> QED
    BY <1>1, <2>1, <2>2, <2>3 DEF MatchesArePairs
<1> QED
  BY <1>2, <1>3

\* Every step keeps the invariant
LEMMA MarriageStep ==
    ASSUME MarriageAssumption, MarriageInv, [MarriageNext]_marriageVars
    PROVE  MarriageInv'
<1> USE DEF MarriageInv
<1>0. /\ Searches \subseteq Nat
      /\ \A S \in SUBSET Searches : Failed(S) \in [Searches -> Nat]
  <2>1. \A s \in Searches : attempts[s] \in Nat
    BY DEF MarriageTypeOK
  <2> QED
    BY <2>1 DEF Searches, MarriageAssumption, Failed
<1>1. CASE Pop
  <2>1. /\ pops' \in Nat /\ round' \in Nat /\ turn' \in Nat
        /\ UNCHANGED <<quality, fast, waiting>>
    BY <1>1 DEF Pop, MarriageTypeOK
  <2>2. CASE Cardinality(waiting) < 2
    <3>1. attempts' = Failed(waiting) /\ UNCHANGED <<edges, ranks, matches, find>>
      BY <1>1, <2>2 DEF Pop
    <3>2. attempts' \in [Searches -> Nat]
      BY <1>0, <3>1 DEF MarriageTypeOK
    <3> QED
      BY <2>1, <3>1, <3>2 DEF MarriageTypeOK, GraphInv, MatchesArePairs
  <2>3. CASE ~(Cardinality(waiting) < 2)
    <3>1. /\ edges' = Graph /\ ranks' = Graph /\ matches' = Nobody
          /\ find' = "rounds" /\ UNCHANGED attempts
      BY <1>1, <2>3 DEF Pop
    <3>2. /\ matches' \in [Searches -> Searches \cup {NoMatch}]
          /\ \A s \in Searches : matches'[s] = NoMatch
      BY <3>1 DEF Nobody
    <3>3. MarriageTypeOK' /\ GraphInv'
      BY <2>1, <3>1, <3>2, GraphIsMutual DEF MarriageTypeOK, GraphInv
    <3> QED
      BY <3>2, <3>3 DEF MatchesArePairs
  <2> QED
    BY <2>2, <2>3
<1>2. CASE Turn
  <2>1. PICK s : s = Min(Proposers)
    OBVIOUS
  <2>2. s \in Proposers
    <3>1. Proposers \in SUBSET Nat /\ Proposers # {}
      BY <1>0, <1>2, Zenon DEF Turn, Proposers, Nodes
    <3> QED
      BY <2>1, <3>1, MinIsMember
  <2>3. s \in Searches /\ matches[s] = NoMatch /\ ranks[s] # {} /\ s \notin ranks[s]
    BY <2>2 DEF Proposers, Nodes, GraphInv
  <2>4. PICK t \in ranks[s] : t = Preferred(s)
    BY <2>3, PreferredIsRanked
  <2>5. /\ ranks' = [ranks EXCEPT ![s] = @ \ {t}]
        /\ matches' \in {matches, Match(s, t)}
        /\ turn' = s + 1 /\ UNCHANGED <<graphVars, round, find>>
    BY <1>2, <2>1, <2>4, Zenon DEF Turn, Propose
  <2>6. /\ MatchesArePairs' /\ matches' \in [Searches -> Searches \cup {NoMatch}]
    BY <2>3, <2>5, MatchKeepsPairs DEF graphVars
  <2>7. turn' \in Nat
    BY <1>0, <2>3, <2>5
  <2>8. /\ ranks' \in [Searches -> SUBSET Searches]
        /\ \A u \in Searches : ranks'[u] \subseteq edges[u]
    BY <2>3, <2>5 DEF MarriageTypeOK, GraphInv
  <2> QED
    BY <2>5, <2>6, <2>7, <2>8 DEF MarriageTypeOK, GraphInv, graphVars
<1>3. CASE NextRound
  BY <1>3 DEF NextRound, MarriageTypeOK, GraphInv, MatchesArePairs, graphVars
<1>4. CASE Finish
  <2>1. /\ waiting' = waiting \ Matched /\ attempts' = Failed(waiting \ Matched)
        /\ find' = "timer"
        /\ UNCHANGED <<quality, fast, edges, pops, ranks, matches, round, turn>>
    BY <1>4 DEF Finish
  <2>2. attempts' \in [Searches -> Nat]
    BY <1>0, <2>1 DEF MarriageTypeOK
  <2> QED
    BY <2>1, <2>2 DEF MarriageTypeOK, GraphInv, MatchesArePairs
<1>5. CASE UNCHANGED marriageVars
  BY <1>5 DEF marriageVars, graphVars, MarriageTypeOK, GraphInv, MatchesArePairs
<1> QED
  BY <1>1, <1>2, <1>3, <1>4, <1>5, Zenon DEF MarriageNext

\* It holds in every state
LEMMA MarriageInvariant ==
    ASSUME MarriageAssumption
    PROVE  MarriageSpec => []MarriageInv
<1>1. MarriageInit => MarriageInv
  <2>1. NoEdges \in [Searches -> SUBSET Searches]
        /\ \A s \in Searches : NoEdges[s] = {}
    BY DEF NoEdges
  <2>2. /\ Nobody \in [Searches -> Searches \cup {NoMatch}]
        /\ \A s \in Searches : Nobody[s] = NoMatch
    BY DEF Nobody
  <2> QED
    BY <2>1, <2>2 DEF MarriageInit, MarriageInv, MarriageTypeOK, GraphInv, MatchesArePairs
<1>2. MarriageInv /\ [MarriageNext]_marriageVars => MarriageInv'
  BY MarriageStep
<1> QED
  BY <1>1, <1>2, PTL DEF MarriageSpec

\* The matches of a pop are pairs of searches that accept each other, after every
\* proposal: a search that is left for a better one is free again, and nobody is
\* matched twice (_propose, MatchmakingPolicy1v1._match and _unmatch)
THEOREM MatchesPairUp ==
    ASSUME MarriageAssumption
    PROVE  MarriageSpec => []MatchesArePairs
<1>1. MarriageInv => MatchesArePairs
  BY DEF MarriageInv
<1> QED
  BY <1>1, MarriageInvariant, PTL
=============================================================================
