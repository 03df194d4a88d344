-------------------------- MODULE BtidalpoolProofs --------------------------
(***************************************************************************)
(* Proofs about Btidalpool, for any finite number of requests and any      *)
(* addresses, accounts, contents, limits and restarts.                     *)
(***************************************************************************)
EXTENDS Btidalpool, FiniteSetTheorems, TLAPS

(* What an upload's thread has done to its file by the time it is somewhere. *)
FileOf(p, f) ==
    /\ p \in {"unsent", "check", "admit", "handle", "validate", "create"} => f = "none"
    /\ p = "dump" => f = "partial"
    /\ p \in {"mark", "load", "rows", "gps", "rename"} => f = "json"
    /\ p = "saved" => f = "processed"

PlaceInv ==
    /\ \A r \in Requests : FileOf(at[r], files[r])
    /\ \A r \in Requests : at[r] \in {"load", "rows", "gps", "rename"} => req[r].h \in known
    /\ \A r \in Requests : at[r] \in {"rows", "gps"} => loaded \in Hash

IInv == TypeOK /\ PlaceInv /\ KnownIsStored /\ StoredIsKnown /\ SavedIsStored /\ CountIsExact

(* The counted requests of an address are finitely many. *)
LEMMA CountedFinite ==
    \A i \in Ip : IsFiniteSet(Counted(i)) /\ Cardinality(Counted(i)) \in Nat
<1>1. \A i \in Ip : Counted(i) \subseteq Requests
  BY DEF Counted
<1>2. QED
  BY <1>1, BtidalpoolAssumption, FS_Subset, FS_CardinalityType

(* A step of one thread that neither enters nor leaves the counted part. *)
LEMMA CountSame ==
    ASSUME NEW r \in Requests, NEW p, TypeOK, CountIsExact, Goto(r, p),
           at[r] \in Inside \cup {"failed"} <=> p \in Inside \cup {"failed"},
           req' = req, count' = count
    PROVE  CountIsExact'
<1>1. \A i \in Ip : Counted(i)' = Counted(i)
  BY DEF TypeOK, Goto, Counted
<1>2. QED
  BY <1>1 DEF CountIsExact

(* The initial states. *)
LEMMA InitIInv == Init => IInv
<1> SUFFICES ASSUME Init PROVE IInv
  OBVIOUS
<1>1. TypeOK
  <2>1. req \in [Requests -> RequestData]
    BY BtidalpoolAssumption DEF Init
  <2>2. 0 \in 0..MaxRestarts
    BY BtidalpoolAssumption
  <2>3. QED
    BY <2>1, <2>2 DEF Init, TypeOK, Where
<1>2. PlaceInv /\ KnownIsStored /\ StoredIsKnown /\ SavedIsStored
  <2>1. \A r \in Requests : at[r] = "unsent" /\ files[r] = "none" /\ answer[r] = NONE
    BY DEF Init
  <2>2. PlaceInv
    BY <2>1 DEF PlaceInv, FileOf
  <2>3. KnownIsStored
    BY DEF Init, KnownIsStored
  <2>4. StoredIsKnown
    BY <2>1 DEF StoredIsKnown
  <2>5. SavedIsStored
    BY <2>1, BtidalpoolAssumption DEF SavedIsStored
  <2>6. QED
    BY <2>2, <2>3, <2>4, <2>5
<1>3. CountIsExact
  <2>1. \A i \in Ip : Counted(i) = {}
    BY DEF Init, Counted, Inside
  <2>2. QED
    BY <2>1, FS_EmptySet DEF Init, CountIsExact
<1>4. QED
  BY <1>1, <1>2, <1>3 DEF IInv

(* The steps that only move one thread, or change what it was told. *)
LEMMA QuietStep ==
    ASSUME IInv, NEW r \in Requests, NEW p \in Where, Goto(r, p),
           at[r] \in Inside \cup {"failed"} <=> p \in Inside \cup {"failed"},
           FileOf(p, files[r]), p \notin {"load", "rows", "gps", "rename"},
           at[r] # "mark",
           UNCHANGED <<req, known, count, files, restarts, database>>,
           recent' \in [Ip -> Nat], outputs' \subseteq Requests,
           answer' \in [Requests -> {NONE, "saved", "exists"}], SavedIsStored'
    PROVE  IInv'
<1>1. TypeOK'
  BY DEF IInv, TypeOK, Goto, database
<1>2. PlaceInv'
  BY DEF IInv, TypeOK, Goto, PlaceInv, database
<1>3. KnownIsStored' /\ StoredIsKnown'
  BY DEF IInv, TypeOK, Goto, KnownIsStored, StoredIsKnown, Stored
<1>4. CountIsExact'
  BY CountSame DEF IInv
<1>5. QED
  BY <1>1, <1>2, <1>3, <1>4 DEF IInv

(* The same, when nothing else changes. *)
LEMMA MoveStep ==
    ASSUME IInv, NEW r \in Requests, NEW p \in Where, Goto(r, p),
           at[r] \in Inside \cup {"failed"} <=> p \in Inside \cup {"failed"},
           FileOf(p, files[r]), p \notin {"load", "rows", "gps", "rename"},
           at[r] # "mark",
           UNCHANGED <<req, answer, known, limits, disk, database, restarts>>
    PROVE  IInv'
<1>1. recent' \in [Ip -> Nat] /\ outputs' \subseteq Requests
      /\ answer' \in [Requests -> {NONE, "saved", "exists"}] /\ SavedIsStored'
  BY DEF IInv, TypeOK, SavedIsStored, limits, disk
<1>2. QED
  BY <1>1, QuietStep DEF limits, disk

(* One step of one thread. *)
LEMMA PostIInv == ASSUME IInv, NEW r \in Requests, do_POST(r) PROVE IInv'
<1>t. /\ TypeOK /\ FileOf(at[r], files[r]) /\ req[r] \in RequestData /\ req[r].ip \in Ip
      /\ req[r].h \in Hash
      /\ at \in [Requests -> Where] /\ SavedIsStored
  BY DEF IInv, TypeOK, PlaceInv, RequestData
<1>w. Inside \subseteq Where /\ {"check", "admit", "done", "failed"} \subseteq Where
  BY DEF Where
<1> USE DEF At, Handles
<1>1. CASE Authenticated(r)
  BY <1>1, <1>t, <1>w, MoveStep DEF Authenticated, FileOf, Inside
<1>2. CASE Rejected(r)
  BY <1>2, <1>t, <1>w, MoveStep DEF Rejected, FileOf, Inside
<1>3. CASE CheckLimits(r)
  BY <1>3, <1>t, <1>w, MoveStep DEF CheckLimits, FileOf, Inside
<1>4. CASE CountConnection(r)
  <2>1. count \in [Ip -> Nat] /\ recent \in [Ip -> Nat] /\ at[r] = "admit" /\ files[r] = "none"
        /\ at' = [at EXCEPT ![r] = "handle"]
    BY <1>4, <1>t DEF TypeOK, CountConnection, FileOf, Goto
  <2>2. TypeOK'
    <3>1. count' \in [Ip -> Nat] /\ recent' \in [Ip -> Nat]
      BY <1>4, <2>1, <1>t DEF CountConnection
    <3>2. at' \in [Requests -> Where]
      BY <2>1, <1>t, <1>w DEF Inside
    <3>3. QED
      BY <1>4, <1>t, <3>1, <3>2 DEF TypeOK, CountConnection, disk, database
  <2>3. PlaceInv'
    BY <1>4, <1>t, <2>1 DEF IInv, PlaceInv, CountConnection, FileOf, disk, database
  <2>4. KnownIsStored' /\ StoredIsKnown' /\ SavedIsStored'
    BY <1>4, <1>t, <2>1
       DEF IInv, KnownIsStored, StoredIsKnown, SavedIsStored, Stored, CountConnection, disk
  <2>5. CountIsExact'
    <3>1. r \notin Counted(req[r].ip) /\ Counted(req[r].ip)' = Counted(req[r].ip) \cup {r}
      BY <1>4, <1>t, <2>1 DEF CountConnection, Counted, Inside
    <3>2. \A i \in Ip \ {req[r].ip} : Counted(i)' = Counted(i)
      BY <1>4, <1>t, <2>1 DEF CountConnection, Counted
    <3>3. Cardinality(Counted(req[r].ip)') = Cardinality(Counted(req[r].ip)) + 1
      BY <1>t, <3>1, CountedFinite, FS_AddElement
    <3>4. QED
      BY <1>4, <1>t, <2>1, <3>2, <3>3 DEF IInv, CountIsExact, CountConnection
  <2>6. QED
    BY <2>2, <2>3, <2>4, <2>5 DEF IInv
<1>5. CASE NewUpload(r)
  BY <1>5, <1>t, <1>w, MoveStep DEF NewUpload, FileOf, Inside
<1>a. ASSUME NEW v \in {NONE, "exists"}, answer' = [answer EXCEPT ![r] = v],
             at[r] = "handle", Goto(r, "leave"),
             UNCHANGED <<req, known, limits, disk, database, restarts>>
      PROVE  IInv'
  <2>1. answer' \in [Requests -> {NONE, "saved", "exists"}] /\ recent' \in [Ip -> Nat]
        /\ outputs' \subseteq Requests
    BY <1>a, <1>t DEF TypeOK, limits, disk
  <2>2. files[r] = "none" /\ SavedIsStored'
    <3>1. files[r] = "none" /\ answer[r] # "saved"
      BY <1>a, <1>t DEF FileOf, SavedIsStored
    <3>2. ASSUME NEW q \in Requests, answer'[q] = "saved" PROVE files'[q] = "processed"
      <4>1. v # "saved"
        BY BtidalpoolAssumption
      <4>2. q # r /\ answer[q] = "saved"
        BY <1>a, <1>t, <3>2, <4>1 DEF TypeOK
      <4>3. QED
        BY <1>a, <1>t, <4>2 DEF SavedIsStored, disk
    <3>3. QED
      BY <3>1, <3>2 DEF SavedIsStored
  <2>3. QED
    BY <1>a, <1>w, <2>1, <2>2, QuietStep DEF FileOf, Inside, limits, disk
<1>6. CASE DuplicateUpload(r)
  BY <1>6, <1>a DEF DuplicateUpload
<1>7. CASE TooBig(r)
  BY <1>7, <1>t, <1>w, MoveStep DEF TooBig, FileOf, Inside
<1>8. CASE ValidateUpload(r)
  BY <1>8, <1>t, <1>w, MoveStep DEF ValidateUpload, FileOf, Inside
<1>f. ASSUME NEW f \in {"partial", "json", "processed"}, NEW p \in {"dump", "mark", "saved"},
             files' = [files EXCEPT ![r] = f], Goto(r, p), FileOf(p, f), answer[r] # "saved",
             at[r] \in {"create", "dump", "rename"},
             at[r] = "rename" => req[r].h \in known /\ p = "saved",
             at[r] # "rename" => p # "saved",
             UNCHANGED <<req, answer, known, limits, outputs, database, restarts>>
      PROVE  IInv'
  <2>1. TypeOK'
    <3>1. at' \in [Requests -> Where]
      BY <1>f, <1>t, <1>w DEF Goto, Inside
    <3>2. files' \in [Requests -> {"none", "partial", "json", "processed"}]
      BY <1>f, <1>t DEF TypeOK
    <3>3. QED
      BY <1>f, <1>t, <3>1, <3>2 DEF TypeOK, limits, database
  <2>2. at' = [at EXCEPT ![r] = p] /\ files \in [Requests -> {"none", "partial", "json", "processed"}]
    BY <1>f, <1>t DEF Goto, TypeOK
  <2>3. PlaceInv'
    BY <1>f, <1>t, <2>2 DEF IInv, PlaceInv, database
  <2>4. KnownIsStored'
    <3>1. \A h : Stored(h) \subseteq Stored(h)'
      BY <1>f, <2>2 DEF Stored
    <3>2. QED
      BY <1>f, <3>1 DEF IInv, KnownIsStored
  <2>5. StoredIsKnown'
    BY <1>f, <1>t, <2>2 DEF IInv, StoredIsKnown, FileOf
  <2>6. SavedIsStored'
    BY <1>f, <1>t, <2>2 DEF SavedIsStored
  <2>7. CountIsExact'
    BY <1>f, <1>t, CountSame DEF IInv, Inside, limits
  <2>8. QED
    BY <2>1, <2>3, <2>4, <2>5, <2>6, <2>7 DEF IInv
<1>n. files[r] # "processed" => answer[r] # "saved"
  BY <1>t DEF SavedIsStored
<1>9. CASE CreateFile(r)
  BY <1>9, <1>t, <1>n, <1>f DEF CreateFile, FileOf
<1>10. CASE DumpFile(r)
  BY <1>10, <1>t, <1>n, <1>f DEF DumpFile, FileOf
<1>m. ASSUME NEW p \in {"load", "rows", "gps", "rename"}, Goto(r, p),
             at[r] \in {"mark", "load", "rows", "gps"},
             known' = known \cup {req[r].h}, loaded' \in Hash \cup {NONE},
             p \in {"rows", "gps"} => loaded' \in Hash,
             loaded \in Hash => loaded' \in Hash,
             rows' \subseteq Hash, gps' \subseteq Hash,
             UNCHANGED <<req, answer, limits, disk, restarts>>
      PROVE  IInv'
  <2>1. at' = [at EXCEPT ![r] = p] /\ files[r] = "json"
    BY <1>m, <1>t DEF Goto, FileOf
  <2>2. TypeOK'
    <3>1. at' \in [Requests -> Where]
      BY <1>t, <1>w, <2>1 DEF Inside
    <3>2. QED
      BY <1>m, <1>t, <3>1 DEF TypeOK, limits, disk
  <2>3. PlaceInv'
    BY <1>m, <1>t, <2>1 DEF IInv, PlaceInv, FileOf, disk
  <2>4. KnownIsStored'
    <3>1. \A h : Stored(h) = Stored(h)'
      BY <1>m DEF Stored, disk
    <3>2. r \in Stored(req[r].h)
      BY <2>1 DEF Stored
    <3>3. QED
      BY <1>m, <3>1, <3>2 DEF IInv, KnownIsStored
  <2>5. StoredIsKnown'
    BY <1>m, <1>t, <2>1 DEF IInv, StoredIsKnown, disk
  <2>6. SavedIsStored'
    BY <1>m, <1>t DEF SavedIsStored, disk
  <2>7. CountIsExact'
    BY <1>m, <1>t, CountSame DEF IInv, Inside, limits
  <2>8. QED
    BY <2>2, <2>3, <2>4, <2>5, <2>6, <2>7 DEF IInv
<1>k. /\ at[r] \in {"load", "rows", "gps", "rename"} => known = known \cup {req[r].h}
      /\ at[r] \in {"rows", "gps"} => loaded \in Hash
      /\ rows \subseteq Hash /\ gps \subseteq Hash /\ loaded \in Hash \cup {NONE}
  BY <1>t DEF IInv, PlaceInv, TypeOK
<1>11. CASE MarkKnown(r)
  BY <1>11, <1>k, <1>m DEF MarkKnown, database
<1>12. CASE LoadFile(r)
  BY <1>12, <1>t, <1>k, <1>m DEF LoadFile
<1>13. CASE InsertRows(r)
  BY <1>13, <1>t, <1>k, <1>m DEF InsertRows
<1>14. CASE InsertGps(r)
  BY <1>14, <1>t, <1>k, <1>m DEF InsertGps
<1>15. CASE RenameProcessed(r)
  BY <1>15, <1>t, <1>n, <1>k, <1>f DEF RenameProcessed, FileOf
<1>16. CASE AnswerSaved(r)
  <2>1. answer' \in [Requests -> {NONE, "saved", "exists"}] /\ recent' \in [Ip -> Nat]
        /\ outputs' \subseteq Requests
    BY <1>16, <1>t DEF AnswerSaved, TypeOK, limits, disk
  <2>2. files[r] = "processed"
    BY <1>16, <1>t DEF AnswerSaved, FileOf
  <2>3. SavedIsStored'
    BY <1>16, <1>t, <2>2 DEF AnswerSaved, SavedIsStored, disk, TypeOK
  <2>4. QED
    BY <1>16, <1>w, <2>1, <2>2, <2>3, QuietStep DEF AnswerSaved, FileOf, Inside, limits, disk
<1>17. CASE CheckHash(r)
  <2>1. CASE req[r].h \in known
    BY <1>17, <2>1, <1>a DEF CheckHash
  <2>2. CASE req[r].h \notin known
    BY <1>17, <2>2, <1>t, <1>w, MoveStep DEF CheckHash, FileOf, Inside
  <2>3. QED
    BY <2>1, <2>2
<1>q. ASSUME NEW p \in {"results", "leave"}, Goto(r, p), at[r] \in {"handle", "results"},
             outputs' \subseteq Requests,
             UNCHANGED <<req, answer, known, limits, files, database, restarts>>
      PROVE  IInv'
  <2>1. answer' \in [Requests -> {NONE, "saved", "exists"}] /\ recent' \in [Ip -> Nat]
    BY <1>q, <1>t DEF TypeOK, limits
  <2>2. SavedIsStored'
    BY <1>q, <1>t DEF SavedIsStored
  <2>3. QED
    BY <1>q, <1>w, <2>1, <2>2, QuietStep DEF FileOf, Inside, limits
<1>18. CASE QueryAnswers(r)
  BY <1>18, <1>t, <1>q DEF QueryAnswers, TypeOK
<1>19. CASE QueryFindsNothing(r)
  BY <1>19, <1>t, <1>q DEF QueryFindsNothing, TypeOK
<1>20. CASE QueryWritesNoFile(r)
  BY <1>20, <1>t, <1>q DEF QueryWritesNoFile, TypeOK, disk
<1>21. CASE SendResults(r)
  BY <1>21, <1>t, <1>q DEF SendResults, TypeOK
<1>22. CASE InvalidInput(r)
  BY <1>22, <1>t, <1>w, MoveStep DEF InvalidInput, FileOf, Inside
<1>23. CASE Raises(r)
  BY <1>23, <1>t, <1>w, MoveStep DEF Raises, FileOf, Inside
<1>24. CASE Leave(r)
  <2>1. count \in [Ip -> Nat] /\ at[r] = "leave" /\ at' = [at EXCEPT ![r] = "done"]
    BY <1>24, <1>t DEF TypeOK, Leave, Goto
  <2>2. r \in Counted(req[r].ip) /\ Counted(req[r].ip)' = Counted(req[r].ip) \ {r}
    BY <1>24, <1>t, <2>1 DEF Leave, Counted, Inside
  <2>3. \A i \in Ip \ {req[r].ip} : Counted(i)' = Counted(i)
    BY <1>24, <1>t, <2>1 DEF Leave, Counted
  <2>4. /\ Cardinality(Counted(req[r].ip)') = Cardinality(Counted(req[r].ip)) - 1
        /\ Cardinality(Counted(req[r].ip)') \in Nat
    BY <1>t, <2>2, CountedFinite, FS_RemoveElement, FS_CardinalityType
  <2>5. count[req[r].ip] - 1 \in Nat
    BY <1>t, <2>4 DEF IInv, CountIsExact
  <2>6. TypeOK'
    <3>1. count' \in [Ip -> Nat]
      BY <1>24, <2>1, <2>5 DEF Leave
    <3>2. at' \in [Requests -> Where]
      BY <1>t, <1>w, <2>1
    <3>3. QED
      BY <1>24, <1>t, <3>1, <3>2 DEF TypeOK, Leave, disk, database
  <2>7. PlaceInv'
    BY <1>24, <1>t, <2>1 DEF IInv, PlaceInv, Leave, FileOf, disk, database
  <2>8. KnownIsStored' /\ StoredIsKnown' /\ SavedIsStored'
    BY <1>24, <1>t, <2>1 DEF IInv, KnownIsStored, StoredIsKnown, SavedIsStored, Stored, Leave, disk
  <2>9. CountIsExact'
    BY <1>24, <1>t, <2>1, <2>3, <2>4 DEF IInv, CountIsExact, Leave
  <2>10. QED
    BY <2>6, <2>7, <2>8, <2>9 DEF IInv
<1>25. QED
  BY <1>1, <1>2, <1>3, <1>4, <1>5, <1>6, <1>7, <1>8, <1>9, <1>10, <1>11, <1>12, <1>13,
     <1>14, <1>15, <1>16, <1>17, <1>18, <1>19, <1>20, <1>21, <1>22, <1>23, <1>24
     DEF do_POST

(* A restart keeps the files and forgets the threads and the counters. *)
LEMMA RestartIInv == ASSUME IInv, Restart PROVE IInv'
<1>t. TypeOK /\ (\A r \in Requests : req[r].h \in Hash)
  BY DEF IInv, TypeOK, RequestData
<1>1. \A r \in Requests : at'[r] \in {"unsent", "gone"} /\ (at'[r] = "unsent" => at[r] = "unsent")
  BY DEF Restart
<1>2. TypeOK'
  <2>1. at' \in [Requests -> Where]
    BY DEF Restart, Where
  <2>2. known' \subseteq Hash
    BY <1>t DEF Restart, KnownFromNames
  <2>3. count' \in [Ip -> Nat] /\ recent' \in [Ip -> Nat]
    BY DEF Restart
  <2>4. restarts' \in 0..MaxRestarts
    BY <1>t, BtidalpoolAssumption DEF Restart, TypeOK
  <2>5. QED
    BY <1>t, <2>1, <2>2, <2>3, <2>4 DEF Restart, TypeOK, disk
<1>3. PlaceInv'
  BY <1>1 DEF IInv, PlaceInv, FileOf, Restart, disk
<1>4. KnownIsStored'
  BY DEF Restart, KnownFromNames, KnownIsStored, Stored, disk
<1>5. StoredIsKnown'
  BY DEF Restart, KnownFromNames, StoredIsKnown, disk
<1>6. SavedIsStored'
  BY DEF IInv, SavedIsStored, Restart, disk
<1>7. CountIsExact'
  <2>1. \A i \in Ip : Counted(i)' = {}
    BY <1>1 DEF Counted, Inside
  <2>2. QED
    BY <2>1, FS_EmptySet DEF Restart, CountIsExact
<1>8. QED
  BY <1>2, <1>3, <1>4, <1>5, <1>6, <1>7 DEF IInv

(* Steps that change none of the state IInv relates. *)
LEMMA SameIInv ==
    ASSUME IInv, recent' \in [Ip -> Nat],
           UNCHANGED <<req, at, answer, known, count, disk, database, restarts>>
    PROVE  IInv'
<1>1. TypeOK' /\ PlaceInv'
  BY DEF IInv, TypeOK, PlaceInv, disk, database
<1>2. KnownIsStored' /\ StoredIsKnown' /\ SavedIsStored'
  BY DEF IInv, KnownIsStored, StoredIsKnown, SavedIsStored, Stored, disk
<1>3. CountIsExact'
  BY DEF IInv, CountIsExact, Counted
<1>4. QED
  BY <1>1, <1>2, <1>3 DEF IInv

(* IInv is inductive. *)
LEMMA NextIInv == IInv /\ [Next]_vars => IInv'
<1> SUFFICES ASSUME IInv, [Next]_vars PROVE IInv'
  OBVIOUS
<1>t. recent \in [Ip -> Nat]
  BY DEF IInv, TypeOK
<1>1. ASSUME NEW r \in Requests, do_POST(r) PROVE IInv'
  BY <1>1, PostIInv
<1>2. ASSUME NEW i \in Ip, TimestampExpires(i) PROVE IInv'
  <2>1. recent' \in [Ip -> Nat]
    BY <1>t, <1>2 DEF TimestampExpires
  <2>2. QED
    BY <1>2, <2>1, SameIInv DEF TimestampExpires
<1>3. CASE Restart
  BY <1>3, RestartIInv
<1>4. CASE UNCHANGED vars
  BY <1>t, <1>4, SameIInv DEF vars, disk, database
<1>5. QED
  BY <1>1, <1>2, <1>3, <1>4 DEF Next, Idle

(* In every behaviour, through any interleaving of the request threads,     *)
(* exceptions and restarts.                                                 *)
LEMMA AlwaysIInv == Spec => []IInv
  BY InitIInv, NextIInv, PTL DEF Spec

(* The variables of the server keep their types: in particular the counter  *)
(* that do_POST lowers on its last line never falls below zero.             *)
THEOREM PoolTypes == Spec => []TypeOK
<1>1. IInv => TypeOK
  BY DEF IInv
<1>2. QED
  BY <1>1, AlwaysIInv, PTL

(* g_unique_files never holds the hash of a content that has no file in     *)
(* ./pool_files, so handle_btides_data never turns away the only copy.      *)
THEOREM KnownHasFile == Spec => []KnownIsStored
<1>1. IInv => KnownIsStored
  BY DEF IInv
<1>2. QED
  BY <1>1, AlwaysIInv, PTL

(* Every complete file is in g_unique_files, also after initialize_unique_files *)
(* of a restart, except between json.dump and the assignment that follows it.   *)
THEOREM StoredHasHash == Spec => []StoredIsKnown
<1>1. IInv => StoredIsKnown
  BY DEF IInv
<1>2. QED
  BY <1>1, AlwaysIInv, PTL

(* An upload answered "File saved successfully." has its file, complete and *)
(* renamed, for good.                                                       *)
THEOREM SavedHasFile == Spec => []SavedIsStored
<1>1. IInv => SavedIsStored
  BY DEF IInv
<1>2. QED
  BY <1>1, AlwaysIInv, PTL

(* connection_data[ip]["count"] is the number of requests of the address    *)
(* that rate_limit_checks let in and that have not reached the last line of *)
(* do_POST, the ones that an exception ended included.                      *)
THEOREM CountExact == Spec => []CountIsExact
<1>1. IInv => CountIsExact
  BY DEF IInv
<1>2. QED
  BY <1>1, AlwaysIInv, PTL

----------------------------------------------------------------------------
(* What is complete stays so, and what is imported or called known is       *)
(* complete.                                                                *)

Complete == {"json", "processed"}

(* A content that is valid, and of which there is a complete file. *)
Importable == {req[r].h : r \in {q \in Requests : req[q].valid /\ files[q] \in Complete}}

(* The places after the schema. *)
Validated == {"create", "dump", "mark", "load", "rows", "gps", "rename", "saved"}

(* From the file to the database, by way of the list that threads share. *)
ImportInv ==
    /\ \A r \in Requests : at[r] \in Validated => req[r].valid
    /\ loaded # NONE => loaded \in Importable
    /\ rows \cup gps \subseteq Importable

HasComplete(h) == \E q \in Requests : req[q].h = h /\ files[q] \in Complete

(* Before a restart, a hash is entered after its file. *)
ExistsInv ==
    restarts = 0 =>
        /\ \A h \in known : HasComplete(h)
        /\ \A r \in Requests : answer[r] = "exists" => HasComplete(req[r].h)

(* A complete file is only renamed. *)
LEMMA CompleteStays ==
    ASSUME IInv, [Next]_vars
    PROVE  req' = req /\ \A q \in Requests : files[q] \in Complete => files'[q] \in Complete
<1>t. /\ files \in [Requests -> {"none", "partial", "json", "processed"}]
      /\ \A r \in Requests : FileOf(at[r], files[r])
  BY DEF IInv, TypeOK, PlaceInv
<1>1. ASSUME NEW r \in Requests, CreateFile(r) \/ DumpFile(r) \/ RenameProcessed(r)
      PROVE  /\ req' = req
             /\ \A q \in Requests : files[q] \in Complete => files'[q] \in Complete
  BY <1>1, <1>t DEF CreateFile, DumpFile, RenameProcessed, At, FileOf, Complete
<1>2. ASSUME NEW r \in Requests, do_POST(r),
             ~(CreateFile(r) \/ DumpFile(r) \/ RenameProcessed(r))
      PROVE  req' = req /\ files' = files
  BY <1>2 DEF do_POST, Authenticated, Rejected, CheckLimits, CountConnection, NewUpload,
     DuplicateUpload, TooBig, ValidateUpload, MarkKnown, LoadFile, InsertRows, InsertGps,
     AnswerSaved, CheckHash, QueryAnswers, QueryFindsNothing, QueryWritesNoFile, SendResults,
     InvalidInput, Raises, Leave, disk
<1>3. CASE (\E i \in Ip : TimestampExpires(i)) \/ Restart \/ UNCHANGED vars
  BY <1>3 DEF TimestampExpires, Restart, vars, disk
<1>4. QED
  BY <1>1, <1>2, <1>3 DEF Next, Idle

(* So what could be imported, and what had a complete file, still can and has. *)
LEMMA ImportableStays ==
    ASSUME IInv, [Next]_vars
    PROVE  /\ Importable \subseteq Importable'
           /\ \A h : HasComplete(h) => HasComplete(h)'
BY CompleteStays DEF Importable, HasComplete

LEMMA InitImport == Init => ImportInv /\ ExistsInv
<1> SUFFICES ASSUME Init PROVE ImportInv /\ ExistsInv
  OBVIOUS
<1>1. ImportInv
  BY DEF Init, ImportInv, Validated
<1>2. \A r \in Requests : answer[r] # "exists"
  BY BtidalpoolAssumption DEF Init
<1>3. QED
  BY <1>1, <1>2 DEF Init, ExistsInv

(* A thread gets past the schema with a valid content only. *)
LEMMA ValidatedStep ==
    ASSUME IInv, ImportInv, NEW r \in Requests, do_POST(r)
    PROVE  \A q \in Requests : at'[q] \in Validated => req[q].valid
<1>t. at \in [Requests -> Where] /\ (\A q \in Requests : at[q] \in Validated => req[q].valid)
  BY DEF IInv, TypeOK, ImportInv
<1>1. CASE ValidateUpload(r)
  BY <1>1, <1>t DEF ValidateUpload, Goto, Validated
<1>2. CASE CreateFile(r) \/ DumpFile(r) \/ MarkKnown(r) \/ LoadFile(r) \/ InsertRows(r)
           \/ InsertGps(r) \/ RenameProcessed(r) \/ AnswerSaved(r)
  BY <1>2, <1>t DEF CreateFile, DumpFile, MarkKnown, LoadFile, InsertRows, InsertGps,
     RenameProcessed, AnswerSaved, At, Goto, Validated
<1>3. CASE Authenticated(r) \/ Rejected(r) \/ CheckLimits(r) \/ CountConnection(r)
           \/ NewUpload(r) \/ DuplicateUpload(r) \/ TooBig(r) \/ CheckHash(r)
  BY <1>3, <1>t DEF Authenticated, Rejected, CheckLimits, CountConnection, NewUpload,
     DuplicateUpload, TooBig, CheckHash, Goto, Validated
<1>4. CASE QueryAnswers(r) \/ QueryFindsNothing(r) \/ QueryWritesNoFile(r) \/ SendResults(r)
           \/ InvalidInput(r) \/ Raises(r) \/ Leave(r)
  BY <1>4, <1>t DEF QueryAnswers, QueryFindsNothing, QueryWritesNoFile, SendResults,
     InvalidInput, Raises, Leave, Goto, Validated
<1>5. QED
  BY <1>1, <1>2, <1>3, <1>4 DEF do_POST

(* Whatever thread replaced the list, it holds the content of a complete file. *)
LEMMA ImportStep ==
    ASSUME IInv, ImportInv, NEW r \in Requests, do_POST(r)
    PROVE  /\ loaded' # NONE => loaded' \in Importable
           /\ rows' \cup gps' \subseteq Importable
<1>t. /\ loaded # NONE => loaded \in Importable
      /\ rows \cup gps \subseteq Importable
      /\ FileOf(at[r], files[r])
      /\ at[r] \in {"rows", "gps"} => loaded \in Hash
      /\ at[r] \in Validated => req[r].valid
  BY DEF IInv, ImportInv, PlaceInv
<1>1. CASE LoadFile(r)
  <2>1. req[r].valid /\ files[r] \in Complete
    BY <1>1, <1>t DEF LoadFile, At, FileOf, Validated, Complete
  <2>2. req[r].h \in Importable
    BY <2>1 DEF Importable
  <2>3. QED
    BY <1>1, <1>t, <2>2 DEF LoadFile
<1>2. CASE InsertRows(r) \/ InsertGps(r)
  <2>1. loaded \in Importable
    BY <1>2, <1>t, BtidalpoolAssumption DEF InsertRows, InsertGps, At
  <2>2. QED
    BY <1>2, <1>t, <2>1 DEF InsertRows, InsertGps
<1>3. CASE UNCHANGED database
  BY <1>3, <1>t DEF database
<1>4. ASSUME ~(LoadFile(r) \/ InsertRows(r) \/ InsertGps(r))
      PROVE  UNCHANGED database
  BY <1>4 DEF do_POST, Authenticated, Rejected, CheckLimits, CountConnection, NewUpload,
     DuplicateUpload, TooBig, ValidateUpload, CreateFile, DumpFile, MarkKnown, RenameProcessed,
     AnswerSaved, CheckHash, QueryAnswers, QueryFindsNothing, QueryWritesNoFile, SendResults,
     InvalidInput, Raises, Leave
<1>5. QED
  BY <1>1, <1>2, <1>3, <1>4

LEMMA NextImport == IInv /\ ImportInv /\ [Next]_vars => ImportInv'
<1> SUFFICES ASSUME IInv, ImportInv, [Next]_vars PROVE ImportInv'
  OBVIOUS
<1>s. req' = req /\ Importable \subseteq Importable'
  BY CompleteStays, ImportableStays
<1>1. ASSUME NEW r \in Requests, do_POST(r) PROVE ImportInv'
  BY <1>s, <1>1, ValidatedStep, ImportStep DEF ImportInv
<1>2. CASE \E i \in Ip : TimestampExpires(i)
  BY <1>s, <1>2 DEF TimestampExpires, ImportInv, database
<1>3. CASE Restart
  <2>1. \A q \in Requests : at'[q] \notin Validated
    BY <1>3 DEF Restart, Validated
  <2>2. QED
    BY <1>s, <1>3, <2>1 DEF Restart, ImportInv
<1>4. CASE UNCHANGED vars
  BY <1>s, <1>4 DEF vars, ImportInv
<1>5. QED
  BY <1>1, <1>2, <1>3, <1>4 DEF Next, Idle

(* A hash becomes known after its file, and an answer names a known one. *)
LEMMA ExistsStep ==
    ASSUME IInv, ExistsInv, NEW r \in Requests, do_POST(r), restarts = 0
    PROVE  /\ \A h \in known' : HasComplete(h)
           /\ \A q \in Requests : answer'[q] = "exists" => HasComplete(req[q].h)
<1>t. /\ \A h \in known : HasComplete(h)
      /\ \A q \in Requests : answer[q] = "exists" => HasComplete(req[q].h)
      /\ answer \in [Requests -> {NONE, "saved", "exists"}]
      /\ FileOf(at[r], files[r])
  BY DEF IInv, ExistsInv, TypeOK, PlaceInv
<1>1. CASE MarkKnown(r)
  <2>1. HasComplete(req[r].h)
    BY <1>1, <1>t DEF MarkKnown, At, FileOf, HasComplete, Complete
  <2>2. QED
    BY <1>1, <1>t, <2>1 DEF MarkKnown
<1>2. CASE DuplicateUpload(r) \/ CheckHash(r)
  <2>1. known' = known
    BY <1>2 DEF DuplicateUpload, CheckHash
  <2>2. ASSUME NEW q \in Requests, answer'[q] = "exists" PROVE HasComplete(req[q].h)
    <3>1. answer[q] = "exists" \/ (q = r /\ req[r].h \in known)
      BY <1>2, <1>t, <2>2 DEF DuplicateUpload, CheckHash
    <3>2. QED
      BY <1>t, <3>1
  <2>3. QED
    BY <1>t, <2>1, <2>2
<1>3. CASE AnswerSaved(r)
  BY <1>3, <1>t DEF AnswerSaved
<1>4. ASSUME ~(MarkKnown(r) \/ DuplicateUpload(r) \/ CheckHash(r) \/ AnswerSaved(r))
      PROVE  answer' = answer /\ known' = known
  BY <1>4 DEF do_POST, Authenticated, Rejected, CheckLimits, CountConnection, NewUpload,
     TooBig, ValidateUpload, CreateFile, DumpFile, LoadFile, InsertRows, InsertGps,
     RenameProcessed, QueryAnswers, QueryFindsNothing, QueryWritesNoFile, SendResults,
     InvalidInput, Raises, Leave
<1>5. QED
  BY <1>1, <1>2, <1>3, <1>4, <1>t

LEMMA NextExists == IInv /\ ExistsInv /\ [Next]_vars => ExistsInv'
<1> SUFFICES ASSUME IInv, ExistsInv, [Next]_vars PROVE ExistsInv'
  OBVIOUS
<1>s. req' = req /\ \A q \in Requests : files[q] \in Complete => files'[q] \in Complete
  BY CompleteStays
<1>t. restarts \in Nat
  BY BtidalpoolAssumption DEF IInv, TypeOK
<1>1. ASSUME NEW r \in Requests, do_POST(r)
      PROVE  restarts' = restarts
  BY <1>1 DEF do_POST, Authenticated, Rejected, CheckLimits, CountConnection, NewUpload,
     DuplicateUpload, TooBig, ValidateUpload, CreateFile, DumpFile, MarkKnown, LoadFile,
     InsertRows, InsertGps, RenameProcessed, AnswerSaved, CheckHash, QueryAnswers,
     QueryFindsNothing, QueryWritesNoFile, SendResults, InvalidInput, Raises, Leave
<1>2. CASE \E r \in Requests : do_POST(r)
  <2>1. PICK r \in Requests : do_POST(r)
    BY <1>2
  <2>2. restarts' = restarts
    BY <1>1, <2>1
  <2>3. CASE restarts = 0
    <3>1. /\ \A h \in known' : HasComplete(h)
          /\ \A q \in Requests : answer'[q] = "exists" => HasComplete(req[q].h)
      BY <2>1, <2>3, ExistsStep
    <3>2. QED
      BY <1>s, <3>1 DEF ExistsInv, HasComplete
  <2>4. CASE restarts # 0
    BY <2>2, <2>4 DEF ExistsInv
  <2>5. QED
    BY <2>3, <2>4
<1>3. CASE UNCHANGED <<known, answer, restarts>>
  BY <1>s, <1>3 DEF ExistsInv, HasComplete
<1>4. CASE Restart
  <2>1. restarts' # 0
    BY <1>t, <1>4 DEF Restart
  <2>2. QED
    BY <2>1 DEF ExistsInv
<1>5. QED
  BY <1>2, <1>3, <1>4 DEF Next, Idle, TimestampExpires, vars

LEMMA AlwaysImport == Spec => []ImportInv /\ []ExistsInv
  BY InitImport, NextImport, NextExists, AlwaysIInv, PTL DEF Spec

(* Whatever list a thread of btides_to_sql finds in TME_glob, its own or    *)
(* another's, what it inserts is a valid content with a complete file.      *)
THEOREM ImportedHasFile == Spec => []ImportedIsStored
<1>1. ImportInv => ImportedIsStored
  BY DEF ImportInv, ImportedIsStored, Importable, Complete
<1>2. QED
  BY <1>1, AlwaysImport, PTL

(* "A file with this exact content already exists on the server" is said    *)
(* of complete files only, as long as the server has not been restarted.    *)
THEOREM ExistsIsStored == Spec => []ExistsUnlessRestarted
<1>1. ExistsInv => ExistsUnlessRestarted
  BY DEF ExistsInv, ExistsUnlessRestarted, HasComplete, Stored, Complete
<1>2. QED
  BY <1>1, AlwaysImport, PTL
=============================================================================
