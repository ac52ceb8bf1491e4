------------------------------ MODULE Registry ------------------------------
(***************************************************************************)
(* The servers of the bot: Dolanik::servers (dolanik.cpp), the state file   *)
(* that State reads at start-up and rewrites after every change (state.cpp), *)
(* and the remote calls connect and disconnect (ice/dolanI.cpp).            *)
(*                                                                          *)
(* main() loads the file before it activates the Ice adapter, and Ice's      *)
(* default server pool has one thread, so calls do not overlap.  What does   *)
(* come between two steps is a crash.  The state file is opened, and so     *)
(* truncated, some time before its new content is written, and no stream is  *)
(* asked whether it opened, was read or was written: a file that cannot be   *)
(* read is no servers, and a call whose save failed is acknowledged.         *)
(***************************************************************************)
EXTENDS Integers, FiniteSets, Functions

CONSTANTS Infos,     \* connection data: host, port, user, password, certificate
          Ids,       \* the hashes
          Hash,      \* of the concatenated connection data: not injective
          MaxCrashes \* bound

ASSUME RegistryAssumption == Hash \in [Infos -> Ids] /\ MaxCrashes \in Nat

None == "none"

VARIABLES
  phase,      \* "down", "loading" (State::load) or "serving"
  servers,    \* Dolanik::servers, its values' connection data
  file,       \* what State::load reads from the state file: the connection data,
              \* none if the parser refuses it (absent, empty or partly written)
  toLoad,     \* saved servers that load has not connected yet
  call,       \* the connect or disconnect under way
  step,       \* where it is
  acked,      \* servers whose connect has returned, the last call on their id
  gone,       \* servers whose disconnect has returned, the last call on their id
  unsaved,    \* ids whose connect threw after it had changed servers, no save since
  behind,     \* why the file is not what the memory says: "no" (it is), "unread"
              \* (load could not read it), "unopened" (save could not open it) or
              \* "unwritten" (truncated, and not written, or not yet)
  lost,       \* the reasons for which what was answered may be forgotten
  crashes

vars == <<phase, servers, file, toLoad, call, step, acked, gone, unsaved, behind, lost,
          crashes>>

SameId(info) == {other \in Infos : Hash[other] = Hash[info]}
NoCall == [op |-> "none", info |-> None]

Init ==
  /\ phase = "down" /\ servers = <<>> /\ file = {} /\ toLoad = {}
  /\ call = NoCall /\ step = "idle"
  /\ acked = {} /\ gone = {} /\ unsaved = {} /\ behind = "no" /\ lost = {} /\ crashes = 0

-----------------------------------------------------------------------------
(* Server::connect on the entry of this id: a new one, or the one that has it. *)
EnterEverywhere(info) ==   \* faulty variant
  servers' = [id \in DOMAIN servers \cup {Hash[info]} |-> info]

Enter(info) ==
  servers' = [id \in DOMAIN servers \cup {Hash[info]} |->
                IF id = Hash[info] THEN info ELSE servers[id]]

(* init: a file that does not parse, or cannot be opened, is no servers.      *)
Start ==
  /\ phase = "down"
  /\ phase' = "loading"
  /\ \/ toLoad' = file /\ UNCHANGED <<behind, lost>>
     \/ toLoad' = {} /\ behind' = "unread" /\ lost' = lost \cup {"unread"}
  /\ UNCHANGED <<servers, file, call, step, acked, gone, unsaved, crashes>>

(* Faulty variant: a loaded server is saved again.                           *)
LoadSaves ==
  /\ phase = "loading" /\ step = "idle"
  /\ \E info \in toLoad :
       /\ Enter(info)
       /\ toLoad' = toLoad \ {info}
  /\ file' = Range(servers')
  /\ UNCHANGED <<phase, call, step, acked, gone, unsaved, behind, lost, crashes>>

(* load: connect without saving.  It may block for ever in Connect.  An        *)
(* exception (a host that does not resolve, a missing certificate) is not     *)
(* caught and ends the process.                                              *)
Load ==
  /\ phase = "loading" /\ step = "idle"
  /\ \E info \in toLoad :
       /\ Enter(info)
       /\ toLoad' = toLoad \ {info}
  /\ step' \in {"idle", "hung"}
  /\ UNCHANGED <<phase, file, call, acked, gone, unsaved, behind, lost, crashes>>

LoadThrows ==
  /\ phase = "loading" /\ step = "idle" /\ toLoad # {}
  /\ phase' = "down" /\ servers' = <<>> /\ toLoad' = {}
  /\ UNCHANGED <<file, call, step, acked, gone, unsaved, behind, lost, crashes>>

Activate ==
  /\ phase = "loading" /\ step = "idle" /\ toLoad = {}
  /\ phase' = "serving"
  /\ UNCHANGED <<servers, file, toLoad, call, step, acked, gone, unsaved, behind, lost, crashes>>

-----------------------------------------------------------------------------
(* The remote calls.                                                         *)

(* connect: insert, and Server::connect, which returns on most errors and may  *)
(* block for ever; then State::save.  If Connect throws, the client gets the  *)
(* exception, the entry stays and nothing is saved.                          *)
Connect(info) ==
  /\ phase = "serving" /\ step = "idle"
  /\ Enter(info)
  /\ \/ /\ call' = [op |-> "connect", info |-> info]
        /\ step' \in {"save", "hung"}
        /\ UNCHANGED unsaved
     \/ /\ unsaved' = unsaved \cup {Hash[info]}
        /\ UNCHANGED <<call, step>>
  /\ acked' = acked \ SameId(info) /\ gone' = gone \ {info}
  /\ UNCHANGED <<phase, file, toLoad, behind, lost, crashes>>

(* Faulty variant: the server is erased when the state has been saved.        *)
DisconnectKeepsEntry(info) ==
  /\ phase = "serving" /\ step = "idle"
  /\ Hash[info] \in DOMAIN servers /\ servers[Hash[info]] = info
  /\ call' = [op |-> "disconnect", info |-> info]
  /\ step' = "save"
  /\ acked' = acked \ {info}
  /\ UNCHANGED <<phase, servers, file, toLoad, gone, unsaved, behind, lost, crashes>>

(* disconnect: servers.at() throws for an unknown id, before any change.      *)
(* Server::disconnect may wait for ever for the audio thread to end; the      *)
(* entry is erased after it.                                                 *)
Disconnect(info) ==
  /\ phase = "serving" /\ step = "idle"
  /\ Hash[info] \in DOMAIN servers /\ servers[Hash[info]] = info
  /\ \/ /\ servers' = Restrict(servers, DOMAIN servers \ {Hash[info]})
        /\ step' = "save"
     \/ UNCHANGED servers /\ step' = "hung"
  /\ call' = [op |-> "disconnect", info |-> info]
  /\ acked' = acked \ {info}
  /\ UNCHANGED <<phase, file, toLoad, gone, unsaved, behind, lost, crashes>>

(* save: the ofstream's constructor truncates the file, its destructor writes. *)
(* Either may fail, which nothing notices.                                   *)
OpenFile ==
  /\ step = "save"
  /\ \/ file' = {} /\ step' = "write" /\ behind' = "unwritten"
     \/ step' = "return" /\ behind' = "unopened" /\ UNCHANGED file
  /\ UNCHANGED <<phase, servers, toLoad, call, acked, gone, unsaved, lost, crashes>>

(* Faulty variant: only the server of the call is written.                    *)
WriteFileOneServer ==
  /\ step = "write"
  /\ file' = file \cup (IF call.op = "connect" THEN {call.info} ELSE {})
  /\ behind' = "no" /\ unsaved' = {}
  /\ step' = "return"
  /\ UNCHANGED <<phase, servers, toLoad, call, acked, gone, lost, crashes>>

WriteFile ==
  /\ step = "write"
  /\ \/ file' = Range(servers) /\ behind' = "no" /\ unsaved' = {}
     \/ UNCHANGED <<file, behind, unsaved>>   \* a full disk: nothing that parses
  /\ step' = "return"
  /\ UNCHANGED <<phase, servers, toLoad, call, acked, gone, lost, crashes>>

Return ==
  /\ step = "return"
  /\ IF call.op = "connect"
       THEN acked' = acked \cup {call.info} /\ UNCHANGED gone
       ELSE gone' = gone \cup {call.info} /\ UNCHANGED acked
  /\ call' = NoCall /\ step' = "idle"
  /\ UNCHANGED <<phase, servers, file, toLoad, unsaved, behind, lost, crashes>>

-----------------------------------------------------------------------------
(* The process dies at any moment; only the file is left.  If it is behind,   *)
(* what it misses is forgotten, and what it still has comes back.            *)
Crash ==
  /\ phase # "down" /\ crashes < MaxCrashes
  /\ phase' = "down" /\ servers' = <<>> /\ toLoad' = {}
  /\ call' = NoCall /\ step' = "idle" /\ unsaved' = {}
  /\ behind' = "no" /\ lost' = lost \cup ({behind} \ {"no"})
  /\ crashes' = crashes + 1
  /\ UNCHANGED <<file, acked, gone>>

Next ==
  \/ Start \/ Load \/ LoadThrows \/ Activate
  \/ \E info \in Infos : Connect(info) \/ Disconnect(info)
  \/ OpenFile \/ WriteFile \/ Return
  \/ Crash

Spec == Init /\ [][Next]_vars

-----------------------------------------------------------------------------
(* Every variable stays in its range, and each entry is filed under its hash.  *)
TypeOK ==
  /\ phase \in {"down", "loading", "serving"}
  /\ DOMAIN servers \subseteq Ids
  /\ \A id \in DOMAIN servers : servers[id] \in Infos /\ Hash[servers[id]] = id
  /\ file \subseteq Infos
  /\ toLoad \subseteq file
  /\ call \in [op : {"none", "connect", "disconnect"}, info : Infos \cup {None}]
  /\ step \in {"idle", "hung", "save", "write", "return"}
  /\ acked \subseteq Infos /\ gone \subseteq Infos /\ acked \cap gone = {}
  /\ unsaved \subseteq Ids
  /\ behind \in {"no", "unread", "unopened", "unwritten"}
  /\ lost \subseteq {"unread", "unopened", "unwritten"}
  /\ crashes \in 0 .. MaxCrashes

(* Between calls the state file holds the servers of the process, no more and *)
(* no less, across any number of restarts, except under the ids on which a    *)
(* connect threw (their entry was changed and not saved), and except after a  *)
(* load or save that failed, until a save succeeds.                          *)
Saved(infos) == {info \in infos : Hash[info] \notin unsaved}
FileIsMemory ==
  (phase = "serving" /\ step = "idle" /\ behind = "no")
    => Saved(file) = Saved(Range(servers))

(* A server whose connect has returned is in the file, after crashes, restarts *)
(* and other calls, until a call on its id, or at least in the memory while   *)
(* the file is behind.  What loses it is a file that cannot be read at        *)
(* start-up, or the death of the process between the truncation of the file   *)
(* and its writing, in any call, or between a save that failed and the next  *)
(* that does not.                                                            *)
AckedIsDurable ==
  lost = {} => acked \subseteq (IF behind = "no" THEN file ELSE Range(servers))

(* A server whose disconnect has returned does not come back: neither the     *)
(* file nor the process has it until somebody connects it again.  The file    *)
(* keeps it while it could not be opened, and a process that dies then is     *)
(* the only thing that brings it back; a failed write does not.               *)
GoneStaysGone ==
  "unopened" \notin lost =>
    gone \cap (Range(servers) \cup (IF behind = "unopened" THEN {} ELSE file)) = {}
=============================================================================
