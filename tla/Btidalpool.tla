----------------------------- MODULE Btidalpool -----------------------------
(***************************************************************************)
(* Analysis/Server_BTIDALPOOL.py: the server that takes uploads of BTIDES  *)
(* files and answers queries.  ThreadingMixIn gives every request a thread *)
(* of its own, so the steps of do_POST for different requests interleave;  *)
(* the threads share g_unique_files, connection_data, the directory of     *)
(* uploaded files and, through btides_to_sql, the list in TME_glob.        *)
(*                                                                         *)
(* A file's content is its hash.  Every upload has a file name of its own: *)
(* the name holds the account and the second.                              *)
(***************************************************************************)
EXTENDS Integers, FiniteSets

CONSTANTS
    Requests,           \* the requests the clients make
    Ip, User,           \* the addresses they come from, the accounts
    Hash,               \* the contents they upload
    MaxSimultaneous,    \* g_max_simultaneous_connections
    MaxPerDay,          \* g_max_connections_per_day
    Menu,               \* what the requests may ask
    MaxRestarts,        \* bound: restarts of the server
    NONE

Command == {"upload", "check_hash", "query", "other"}

(* A content has its hash, and is valid by the BTIDES schema or is not. *)
RequestData == [ip: Ip, user: User, cmd: Command, h: Hash, valid: BOOLEAN]

ASSUME BtidalpoolAssumption ==
    /\ IsFiniteSet(Requests)
    /\ Menu \subseteq RequestData
    /\ MaxSimultaneous \in Nat \ {0}
    /\ MaxPerDay \in Nat \ {0}
    /\ MaxRestarts \in Nat
    /\ NONE \notin Hash \cup {"saved", "exists"}

VARIABLES
    req,        \* what each request asks
    at,         \* where its thread is in do_POST
    answer,     \* what it was told about its upload
    known,      \* g_unique_files
    count,      \* connection_data[ip]["count"]
    recent,     \* how many of its timestamps are not older than a day
    files,      \* the file each upload made in ./pool_files
    outputs,    \* the requests with an output file in /tmp
    loaded,     \* TME_glob.BTIDES_JSON
    rows, gps,  \* contents in the database: the GPS rows are inserted last
    restarts

vars == <<req, at, answer, known, count, recent, files, outputs, loaded, rows,
          gps, restarts>>

disk == <<files, outputs>>

database == <<loaded, rows, gps>>

limits == <<count, recent>>

(* Between `count += 1` and `count -= 1`. *)
Inside == {"handle", "validate", "create", "dump", "mark", "load", "rows",
           "gps", "rename", "saved", "results", "leave"}

Where == {"unsent", "check", "admit", "done", "failed", "gone"} \cup Inside

TypeOK ==
    /\ req \in [Requests -> RequestData]
    /\ at \in [Requests -> Where]
    /\ answer \in [Requests -> {NONE, "saved", "exists"}]
    /\ known \subseteq Hash
    /\ count \in [Ip -> Nat]
    /\ recent \in [Ip -> Nat]
    /\ files \in [Requests -> {"none", "partial", "json", "processed"}]
    /\ outputs \subseteq Requests
    /\ loaded \in Hash \cup {NONE}
    /\ rows \subseteq Hash
    /\ gps \subseteq Hash
    /\ restarts \in 0..MaxRestarts

Stored(h) == {r \in Requests : req[r].h = h /\ files[r] # "none"}

Init ==
    /\ req \in [Requests -> Menu]
    /\ at = [r \in Requests |-> "unsent"]
    /\ answer = [r \in Requests |-> NONE]
    /\ known = {}
    /\ count = [i \in Ip |-> 0]
    /\ recent = [i \in Ip |-> 0]
    /\ files = [r \in Requests |-> "none"]
    /\ outputs = {}
    /\ loaded = NONE
    /\ rows = {}
    /\ gps = {}
    /\ restarts = 0

----------------------------------------------------------------------------
At(r, p) == at[r] = p

Goto(r, p) == at' = [at EXCEPT ![r] = p]

(* do_POST reads the request and asks Google whose token it is. *)
Authenticated(r) ==
    /\ At(r, "unsent")
    /\ Goto(r, "check")
    /\ UNCHANGED <<req, answer, known, limits, disk, database, restarts>>

(* A field is missing, the token is not valid or an exception ends the      *)
(* thread: nothing was counted.                                             *)
Rejected(r) ==
    /\ At(r, "unsent")
    /\ Goto(r, "done")
    /\ UNCHANGED <<req, answer, known, limits, disk, database, restarts>>

WithinLimits(i) == recent[i] < MaxPerDay /\ count[i] < MaxSimultaneous

(* Seeded fault: a request that is refused lowers the counter too. *)
RefuseAndLeave(r) ==
    /\ At(r, "check")
    /\ IF WithinLimits(req[r].ip)
         THEN Goto(r, "admit") /\ UNCHANGED count
         ELSE Goto(r, "done") /\ count' = [count EXCEPT ![req[r].ip] = @ - 1]
    /\ UNCHANGED <<req, answer, known, recent, disk, database, restarts>>

(* rate_limit_checks compares, with no lock ... *)
CheckLimits(r) ==
    /\ At(r, "check")
    /\ Goto(r, IF WithinLimits(req[r].ip) THEN "admit" ELSE "done")
    /\ UNCHANGED <<req, answer, known, limits, disk, database, restarts>>

(* ... and then counts. *)
CountConnection(r) ==
    /\ At(r, "admit")
    /\ count' = [count EXCEPT ![req[r].ip] = @ + 1]
    /\ recent' = [recent EXCEPT ![req[r].ip] = @ + 1]
    /\ Goto(r, "handle")
    /\ UNCHANGED <<req, answer, known, disk, database, restarts>>

TimestampExpires(i) ==
    /\ recent[i] > 0
    /\ recent' = [recent EXCEPT ![i] = @ - 1]
    /\ UNCHANGED <<req, at, answer, known, count, disk, database, restarts>>

Handles(r, cmd) == At(r, "handle") /\ req[r].cmd = cmd

(* Seeded fault: the hash is reserved when it is looked up. *)
ReserveHash(r) ==
    /\ Handles(r, "upload")
    /\ req[r].h \notin known
    /\ known' = known \cup {req[r].h}
    /\ Goto(r, "validate")
    /\ UNCHANGED <<req, answer, limits, disk, database, restarts>>

(* handle_btides_data: is the hash new? *)
NewUpload(r) ==
    /\ Handles(r, "upload")
    /\ req[r].h \notin known
    /\ Goto(r, "validate")
    /\ UNCHANGED <<req, answer, known, limits, disk, database, restarts>>

DuplicateUpload(r) ==
    /\ Handles(r, "upload")
    /\ req[r].h \in known
    /\ answer' = [answer EXCEPT ![r] = "exists"]
    /\ Goto(r, "leave")
    /\ UNCHANGED <<req, known, limits, disk, database, restarts>>

TooBig(r) ==
    /\ Handles(r, "upload")
    /\ Goto(r, "leave")
    /\ UNCHANGED <<req, answer, known, limits, disk, database, restarts>>

(* Seeded fault: the verdict of the schema is ignored. *)
AcceptUpload(r) ==
    /\ At(r, "validate")
    /\ Goto(r, "create")
    /\ UNCHANGED <<req, answer, known, limits, disk, database, restarts>>

ValidateUpload(r) ==
    /\ At(r, "validate")
    /\ Goto(r, IF req[r].valid THEN "create" ELSE "leave")
    /\ UNCHANGED <<req, answer, known, limits, disk, database, restarts>>

(* open(filename, 'w'), and then json.dump and close. *)
CreateFile(r) ==
    /\ At(r, "create")
    /\ files' = [files EXCEPT ![r] = "partial"]
    /\ Goto(r, "dump")
    /\ UNCHANGED <<req, answer, known, limits, outputs, database, restarts>>

DumpFile(r) ==
    /\ At(r, "dump")
    /\ files' = [files EXCEPT ![r] = "json"]
    /\ Goto(r, "mark")
    /\ UNCHANGED <<req, answer, known, limits, outputs, database, restarts>>

MarkKnown(r) ==
    /\ At(r, "mark")
    /\ known' = known \cup {req[r].h}
    /\ Goto(r, "load")
    /\ UNCHANGED <<req, answer, limits, disk, database, restarts>>

(* btides_to_sql, called in this thread, reads the file into a global list; *)
LoadFile(r) ==
    /\ At(r, "load")
    /\ loaded' = req[r].h
    /\ Goto(r, "rows")
    /\ UNCHANGED <<req, answer, known, limits, disk, rows, gps, restarts>>

(* after it has read the schemas, it inserts what that list then holds; *)
InsertRows(r) ==
    /\ At(r, "rows")
    /\ rows' = rows \cup {loaded}
    /\ Goto(r, "gps")
    /\ UNCHANGED <<req, answer, known, limits, disk, loaded, gps, restarts>>

(* and parse_all_GPSArrays_batched looks at the list again. *)
InsertGps(r) ==
    /\ At(r, "gps")
    /\ gps' = gps \cup {loaded}
    /\ Goto(r, "rename")
    /\ UNCHANGED <<req, answer, known, limits, disk, loaded, rows, restarts>>

(* Seeded fault: a file that has been imported is removed. *)
RemoveProcessed(r) ==
    /\ At(r, "rename")
    /\ files' = [files EXCEPT ![r] = "none"]
    /\ Goto(r, "saved")
    /\ UNCHANGED <<req, answer, known, limits, outputs, database, restarts>>

RenameProcessed(r) ==
    /\ At(r, "rename")
    /\ files' = [files EXCEPT ![r] = "processed"]
    /\ Goto(r, "saved")
    /\ UNCHANGED <<req, answer, known, limits, outputs, database, restarts>>

AnswerSaved(r) ==
    /\ At(r, "saved")
    /\ answer' = [answer EXCEPT ![r] = "saved"]
    /\ Goto(r, "leave")
    /\ UNCHANGED <<req, known, limits, disk, database, restarts>>

CheckHash(r) ==
    /\ Handles(r, "check_hash")
    /\ answer' = IF req[r].h \in known THEN [answer EXCEPT ![r] = "exists"] ELSE answer
    /\ Goto(r, "leave")
    /\ UNCHANGED <<req, known, limits, disk, database, restarts>>

(* handle_query: Tell_Me_Everything.py wrote its results, *)
QueryAnswers(r) ==
    /\ Handles(r, "query")
    /\ outputs' = outputs \cup {r}
    /\ Goto(r, "results")
    /\ UNCHANGED <<req, answer, known, limits, files, database, restarts>>

(* or an empty or invalid list, which ends the query there, *)
QueryFindsNothing(r) ==
    /\ Handles(r, "query")
    /\ outputs' = outputs \cup {r}
    /\ Goto(r, "leave")
    /\ UNCHANGED <<req, answer, known, limits, files, database, restarts>>

(* or nothing. *)
QueryWritesNoFile(r) ==
    /\ Handles(r, "query")
    /\ Goto(r, "leave")
    /\ UNCHANGED <<req, answer, known, limits, disk, database, restarts>>

SendResults(r) ==
    /\ At(r, "results")
    /\ outputs' = outputs \ {r}
    /\ Goto(r, "leave")
    /\ UNCHANGED <<req, answer, known, limits, files, database, restarts>>

(* A command that is none of the three: return, before the count is lowered. *)
InvalidInput(r) ==
    /\ Handles(r, "other")
    /\ Goto(r, "failed")
    /\ UNCHANGED <<req, answer, known, limits, disk, database, restarts>>

(* An exception nobody catches (the client is gone, the disk is full, MySQL *)
(* is down, exit(-1) in btides_to_sql): socketserver ends the thread.       *)
Raises(r) ==
    /\ at[r] \in Inside \ {"mark"}
    /\ Goto(r, "failed")
    /\ UNCHANGED <<req, answer, known, limits, disk, database, restarts>>

Leave(r) ==
    /\ At(r, "leave")
    /\ count' = [count EXCEPT ![req[r].ip] = @ - 1]
    /\ Goto(r, "done")
    /\ UNCHANGED <<req, answer, known, recent, disk, database, restarts>>

do_POST(r) ==
    \/ Authenticated(r) \/ Rejected(r) \/ CheckLimits(r) \/ CountConnection(r)
    \/ NewUpload(r) \/ DuplicateUpload(r) \/ TooBig(r) \/ ValidateUpload(r)
    \/ CreateFile(r) \/ DumpFile(r) \/ MarkKnown(r)
    \/ LoadFile(r) \/ InsertRows(r) \/ InsertGps(r) \/ RenameProcessed(r)
    \/ AnswerSaved(r)
    \/ CheckHash(r)
    \/ QueryAnswers(r) \/ QueryFindsNothing(r) \/ QueryWritesNoFile(r)
    \/ SendResults(r)
    \/ InvalidInput(r) \/ Raises(r) \/ Leave(r)

(* Seeded fault: only the files that were imported count. *)
KnownFromProcessed == {req[r].h : r \in {q \in Requests : files[q] = "processed"}}

(* initialize_unique_files goes by the names of the files. *)
KnownFromNames == {req[r].h : r \in {q \in Requests : files[q] # "none"}}

(* The server dies at any moment and is started again. *)
Restart ==
    /\ restarts < MaxRestarts
    /\ restarts' = restarts + 1
    /\ known' = KnownFromNames
    /\ count' = [i \in Ip |-> 0]
    /\ recent' = [i \in Ip |-> 0]
    /\ loaded' = NONE
    /\ at' = [r \in Requests |-> IF at[r] = "unsent" THEN "unsent" ELSE "gone"]
    /\ UNCHANGED <<req, answer, disk, rows, gps>>

(* Nothing is left to do: serve_forever waits. *)
Idle ==
    /\ \A r \in Requests : at[r] \in {"done", "failed", "gone"}
    /\ UNCHANGED vars

Next ==
    \/ \E r \in Requests : do_POST(r)
    \/ \E i \in Ip : TimestampExpires(i)
    \/ Restart
    \/ Idle

Spec == Init /\ [][Next]_vars

----------------------------------------------------------------------------
(* Every content the server takes for known has a file in ./pool_files, and *)
(* every upload it called saved has all of it there, through any            *)
(* interleaving of uploads, exceptions and restarts.                        *)
KnownIsStored == \A h \in known : Stored(h) # {}

SavedIsStored ==
    \A r \in Requests : answer[r] = "saved" => files[r] = "processed"

(* A file that is all there is known, once its thread has gone on: no       *)
(* restart and no exception makes the server take it a second time.         *)
StoredIsKnown ==
    \A r \in Requests : files[r] \in {"json", "processed"} =>
        req[r].h \in known \/ at[r] = "mark"

Counted(i) == {r \in Requests : req[r].ip = i /\ at[r] \in Inside \cup {"failed"}}

(* The counter of an address is the number of its requests that have been   *)
(* let in and have not left by the last line of do_POST.                    *)
CountIsExact == \A i \in Ip : count[i] = Cardinality(Counted(i))

(* A client is told that its content exists only when all of it is stored,  *)
(* unless a restart has taken the name of a file for its content (see       *)
(* ExistsIsTrue): no upload that is refused or fails on the way counts.     *)
ExistsUnlessRestarted ==
    restarts = 0 => \A r \in Requests : answer[r] = "exists" =>
        \E q \in Stored(req[r].h) : files[q] \in {"json", "processed"}

(* Threads replace each other's list in TME_glob before it is imported (see *)
(* ProcessedIsImported), but what gets into the database is always a valid  *)
(* content, and is stored.                                                  *)
ImportedIsStored ==
    rows \cup gps \subseteq
      {req[r].h : r \in {q \in Requests : req[q].valid /\ files[q] \in {"json", "processed"}}}

----------------------------------------------------------------------------
(* What the comments, the answers and the documentation say.  *)

(* Line 44: the hashes are kept "for avoiding duplicate uploads".           *)
StoredOnce == \A h \in Hash : Cardinality(Stored(h)) <= 1

(* Lines 222 and 470: "A file with this exact content already exists on     *)
(* the server."                                                             *)
ExistsIsTrue ==
    \A r \in Requests : answer[r] = "exists" =>
        \E q \in Stored(req[r].h) : files[q] \in {"json", "processed"}

(* BTIDES_to_SQL.py, line 1626: only the "magic input filename" takes the   *)
(* global list as it is; so a file marked .processed has been imported.     *)
ProcessedIsImported ==
    \A r \in Requests : files[r] = "processed" => req[r].h \in rows \cap gps

(* Line 173: "Check the number of simultaneous connections".                *)
OnlyOpenConnectionsCount ==
    \A i \in Ip : count[i] <= Cardinality({r \in Requests : req[r].ip = i /\ at[r] \in Inside})

(* docs/BTIDALPOOL.md: "Maximum simultaneous connections per account: 10".  *)
AccountLimit ==
    \A u \in User :
        Cardinality({r \in Requests : req[r].user = u /\ at[r] \in Inside}) <= MaxSimultaneous

(* Line 360: "Delete the output file after sending the response".           *)
OutputsDeleted == \A r \in outputs : at[r] # "done"
============================================================================
