------------------------------ MODULE PlayerDb ------------------------------
(***************************************************************************)
(* The player database: one file of records, which every connection thread *)
(* opens, scans and rewrites in place, without a lock.                     *)
(*                                                                         *)
(* A step is one call that reads or changes the file, or learns whether it *)
(* is there.  stdio reads ahead, so a scan may in fact see several records *)
(* at one time; that is the schedule in which no other thread takes a step *)
(* between the steps of the scan.  A record that was written reaches the   *)
(* file when fclose flushes it.                                            *)
(***************************************************************************)
EXTENDS EmapCodec

CONSTANTS Threads,      \* connection threads
          Users,        \* user names
          NoUser,       \* the empty name of a hole in the file
          NoFile,       \* there is no file
          UserOf,       \* the name that the client of each thread logs in with
          Established,  \* the users that have a record when the server starts
          InitialProfiles,  \* and what these may hold
          Faults,       \* which calls may fail, see below
          MaxCalls      \* bound: calls of the database, of all threads

(***************************************************************************)
(* "open": fopen fails although the file is there, for want of a file      *)
(* descriptor or of memory                                                 *)
(* "flush": the write that fclose makes fails, and nobody looks            *)
(***************************************************************************)
FaultKinds == {"open", "flush"}

ASSUME DbAssumption ==
    /\ IsFiniteSet(Threads)
    /\ NoUser \notin Users
    /\ NoFile \notin Seq([user : Users \cup {NoUser}, profile : Profiles])
    /\ UserOf \in [Threads -> Users]
    /\ Established \subseteq Users
    /\ IsFiniteSet(Established)
    /\ \A profile \in InitialProfiles : WellFormed(profile)
    /\ Faults \subseteq FaultKinds
    /\ MaxCalls \in Nat

VARIABLES file,         \* the records in their order, or NoFile
          pc,           \* where each thread is
          request,      \* what each thread is asked to do
          saving,       \* FALSE while it makes a first record in load_or_create
          pos,          \* the next record its scan reads
          record,       \* the profile it has in memory
          answer,       \* what it told its client last
          calls         \* requests so far: for the bound alone

vars == <<file, pc, request, saving, pos, record, answer, calls>>

Entry(user, profile) == [user |-> user, profile |-> profile]

\* Bytes that were never written read as zeros.
Hole == Entry(NoUser, [level |-> 0, progression |-> 0, money |-> 0,
                       owned |-> {}, selected |-> 0])

FileExists == file # NoFile
EndOfFile(t) == pos[t] > Len(file)
Matches(t)   == file[pos[t]].user = UserOf[t]

Pcs == {"closed", "idle", "fetch", "open", "create", "scan", "write"}

\* Files with one record of each established player, in any order.
InitialFiles ==
    {f \in [1 .. Cardinality(Established) ->
              [user : Established, profile : InitialProfiles]] :
        \A user \in Established :
            \E i \in DOMAIN f : \A j \in DOMAIN f : f[j].user = user <=> j = i}

Init ==
    /\ file \in IF Established = {} THEN {NoFile} ELSE InitialFiles
    /\ pc = [t \in Threads |-> "closed"]
    /\ request = [t \in Threads |-> Get]
    /\ saving = [t \in Threads |-> FALSE]
    /\ pos = [t \in Threads |-> 1]
    /\ record = [t \in Threads |-> DefaultRecord]
    /\ answer = [t \in Threads |-> TellNo("none")]
    /\ calls = 0
-----------------------------------------------------------------------------
Goto(t, label) == pc' = [pc EXCEPT ![t] = label]
Rewind(t)      == pos' = [pos EXCEPT ![t] = 1]
Advance(t)     == pos' = [pos EXCEPT ![t] = @ + 1]

\* The end of a request; what was local to it is gone.
Reply(t, told) ==
    /\ answer' = [answer EXCEPT ![t] = told]
    /\ Goto(t, "idle")
    /\ request' = [request EXCEPT ![t] = Get]
    /\ saving' = [saving EXCEPT ![t] = FALSE]
    /\ record' = [record EXCEPT ![t] = DefaultRecord]
    /\ Rewind(t)

\* A call of load_or_create_record.
Call(t, what) ==
    /\ calls < MaxCalls
    /\ calls' = calls + 1
    /\ request' = [request EXCEPT ![t] = what]
    /\ Rewind(t)
    /\ Goto(t, "fetch")
    /\ UNCHANGED <<file, saving, record, answer>>

(***************************************************************************)
(* The connection thread: db_get_player_info after CONNECT, then any       *)
(* number of shop actions and match results.                               *)
(***************************************************************************)
Connect(t) ==
    /\ pc[t] = "closed"
    /\ Call(t, Get)

Disconnect(t) ==
    /\ pc[t] = "idle"
    /\ Goto(t, "closed")
    /\ UNCHANGED <<file, request, saving, pos, record, answer, calls>>

Ask(t, what) ==
    /\ pc[t] = "idle"
    /\ ~ BadSkin(what)
    /\ Call(t, what)

AskBadSkin(t, what) ==
    /\ pc[t] = "idle"
    /\ BadSkin(what)
    /\ Reply(t, TellNo("refused"))
    /\ UNCHANGED <<file, calls>>

(***************************************************************************)
(* What follows once the profile is in memory: refuse, answer, or save.    *)
(***************************************************************************)
Loaded(t, profile) ==
    \/ /\ Refused(request[t], profile)
       /\ Reply(t, TellNo("refused"))
    \/ /\ ~ Refused(request[t], profile)
       /\ ~ Saves(request[t], profile)
       /\ Reply(t, Told(profile))
    \/ /\ ~ Refused(request[t], profile)
       /\ Saves(request[t], profile)
       /\ record' = [record EXCEPT ![t] = Served(request[t], profile)]
       /\ saving' = [saving EXCEPT ![t] = TRUE]
       /\ Goto(t, "open")
       /\ UNCHANGED <<request, pos, answer>>

(***************************************************************************)
(* fetch_player_record                                                     *)
(***************************************************************************)
FetchNext(t) ==
    /\ pc[t] = "fetch"
    /\ FileExists /\ ~ EndOfFile(t) /\ ~ Matches(t)
    /\ Advance(t)
    /\ UNCHANGED <<file, pc, request, saving, record, answer, calls>>

FetchHit(t) ==
    /\ pc[t] = "fetch"
    /\ FileExists /\ ~ EndOfFile(t) /\ Matches(t)
    /\ Loaded(t, NormalizeRecord(file[pos[t]].profile))
    /\ UNCHANGED <<file, calls>>

\* Not found: a default record is made, and saved first of all.
NotFound(t) ==
    /\ record' = [record EXCEPT ![t] = DefaultRecord]
    /\ saving' = [saving EXCEPT ![t] = FALSE]
    /\ Goto(t, "open")
    /\ UNCHANGED <<file, request, pos, answer, calls>>

FetchMiss(t) ==
    /\ pc[t] = "fetch"
    /\ FileExists => EndOfFile(t)
    /\ NotFound(t)

\* A file that cannot be opened is a player that is not found.
FetchOpenFails(t) ==
    /\ "open" \in Faults
    /\ pc[t] = "fetch" /\ pos[t] = 1
    /\ NotFound(t)

(***************************************************************************)
(* upsert_player_record: fopen with "r+b" and, when that fails, with       *)
(* "w+b", which empties the file; scan for the player's record or the end; *)
(* write there.                                                            *)
(***************************************************************************)
Open(t) ==
    /\ pc[t] = "open"
    /\ IF FileExists THEN Goto(t, "scan") ELSE Goto(t, "create")
    /\ Rewind(t)
    /\ UNCHANGED <<file, request, saving, record, answer, calls>>

OpenFails(t) ==
    /\ "open" \in Faults
    /\ pc[t] = "open"
    /\ Goto(t, "create")
    /\ UNCHANGED <<file, request, saving, pos, record, answer, calls>>

Create(t) ==
    /\ pc[t] = "create"
    /\ file' = <<>>
    /\ Rewind(t)
    /\ Goto(t, "scan")
    /\ UNCHANGED <<request, saving, record, answer, calls>>

CreateFails(t) ==
    /\ "open" \in Faults
    /\ pc[t] = "create"
    /\ Reply(t, TellNo("error"))
    /\ UNCHANGED <<file, calls>>

\* Faulty: a record is always appended.
ScanToEnd(t) ==
    /\ pc[t] = "scan"
    /\ IF EndOfFile(t)
       THEN Goto(t, "write") /\ UNCHANGED pos
       ELSE Advance(t) /\ UNCHANGED pc
    /\ UNCHANGED <<file, request, saving, record, answer, calls>>

Scan(t) ==
    /\ pc[t] = "scan"
    /\ IF EndOfFile(t) \/ Matches(t)
       THEN Goto(t, "write") /\ UNCHANGED pos
       ELSE Advance(t) /\ UNCHANGED pc
    /\ UNCHANGED <<file, request, saving, record, answer, calls>>

\* After the write: answer, or go on with the request on the new record.
Saved(t) ==
    \/ saving[t] /\ Reply(t, Told(record[t]))
    \/ ~ saving[t] /\ Loaded(t, record[t])

\* Faulty: without the seek back the next record is overwritten.
OverwriteNext(f, i, entry) ==
    [j \in 1 .. IF i >= Len(f) THEN i + 1 ELSE Len(f) |->
        IF j = i + 1 THEN entry ELSE IF j <= Len(f) THEN f[j] ELSE Hole]

\* The file with an entry written at index i, with holes up to there.
Overwrite(f, i, entry) ==
    [j \in 1 .. IF i > Len(f) THEN i ELSE Len(f) |->
        IF j = i THEN entry ELSE IF j <= Len(f) THEN f[j] ELSE Hole]

Write(t) ==
    /\ pc[t] = "write"
    /\ file' = Overwrite(file, pos[t], Entry(UserOf[t], record[t]))
    /\ Saved(t)
    /\ UNCHANGED calls

FlushFails(t) ==
    /\ "flush" \in Faults
    /\ pc[t] = "write"
    /\ Saved(t)
    /\ UNCHANGED <<file, calls>>

Next ==
    \E t \in Threads :
        \/ Connect(t) \/ Disconnect(t)
        \/ \E what \in Requests : Ask(t, what) \/ AskBadSkin(t, what)
        \/ FetchNext(t) \/ FetchHit(t) \/ FetchMiss(t) \/ FetchOpenFails(t)
        \/ Open(t) \/ OpenFails(t) \/ Create(t) \/ CreateFails(t)
        \/ Scan(t) \/ Write(t) \/ FlushFails(t)

Spec == Init /\ [][Next]_vars
-----------------------------------------------------------------------------
Entries == {file[i] : i \in IF FileExists THEN DOMAIN file ELSE {}}

TypeOK ==
    /\ \/ file = NoFile
       \/ file \in Seq([user : Users \cup {NoUser}, profile : Profiles])
    /\ pc \in [Threads -> Pcs]
    /\ request \in [Threads -> Requests \cup {Get}]
    /\ saving \in [Threads -> BOOLEAN]
    /\ pos \in [Threads -> Nat \ {0}]
    /\ record \in [Threads -> Profiles]
    /\ answer \in [Threads -> Answers]
    /\ calls \in 0 .. MaxCalls

(***************************************************************************)
(* The profiles are well formed, those in the file, those in memory and    *)
(* those told to clients, whatever calls fail and however requests of many *)
(* threads interleave: the player wears a skin that is owned, experience   *)
(* stays below a level, and neither rewards nor purchases overflow.  And   *)
(* what a client is told survives the wire: it shows the profile as it is. *)
(***************************************************************************)
ProfilesWellFormed ==
    /\ \A entry \in Entries : entry.user # NoUser => WellFormed(entry.profile)
    /\ \A t \in Threads :
          /\ WellFormed(record[t])
          /\ answer[t].status = "ok" =>
                /\ WellFormed(answer[t].profile)
                /\ Shown(answer[t].profile) = answer[t].profile

(***************************************************************************)
(* The user name is the primary key (ARCHITECTURE.md:131): although first  *)
(* records are appended after a scan that other threads do not wait for,   *)
(* and a failed fopen may empty the file under them, no player has two     *)
(* records, as long as each is logged in once.                             *)
(***************************************************************************)
OneRecordPerPlayer ==
    FileExists =>
        \A i, j \in DOMAIN file :
            file[i].user = file[j].user /\ file[i].user # NoUser => i = j

(***************************************************************************)
(* API_REFERENCE.md:887 calls the database safe for threads as its file    *)
(* operations are atomic: then what an idle thread has told its client is  *)
(* what the file has.                                                      *)
(***************************************************************************)
StoredAsTold ==
    \A t \in Threads :
        pc[t] = "idle" /\ answer[t].status = "ok" =>
            Entry(UserOf[t], answer[t].profile) \in Entries

(***************************************************************************)
(* For the players that have a record, each logged in once, the database   *)
(* is a ProfileStore: their requests take effect as if the file were never *)
(* shared, even while new players append to it and lose their records.     *)
(***************************************************************************)
StoredProfile(user) ==
    (CHOOSE entry \in Entries : entry.user = user).profile

ThreadOf(user) == CHOOSE t \in Threads : UserOf[t] = user

StoredProfiles == [user \in Established |-> StoredProfile(user)]
PlayerAnswers  == [user \in Established |-> answer[ThreadOf(user)]]

Store == INSTANCE ProfileStore WITH
            Players  <- Established,
            profiles <- StoredProfiles,
            answers  <- PlayerAnswers

StoreSpec == Store!Spec
=============================================================================
