--------------------------- MODULE RegistryProofs ---------------------------
(***************************************************************************)
(* Proofs about Registry for every set of servers, every hash and any       *)
(* number of crashes.  The invariant says where the file, the memory and    *)
(* the answers already given agree at each phase and step of a call, and      *)
(* what a failed load or save leaves true of them; that                      *)
(* loading a file restores exactly what was saved rests on the file never    *)
(* holding two servers of one hash.                                         *)
(***************************************************************************)
EXTENDS Registry, TLAPS

Mem == Range(servers)
Busy == step \in {"save", "write", "return"}

(* Where a call can be, and how the file can be behind then.                 *)
StepInv ==
  /\ phase = "down" => step = "idle" /\ DOMAIN servers = {} /\ behind = "no"
  /\ phase # "serving" => step \in {"idle", "hung"} /\ unsaved = {}
  /\ phase # "serving" => behind \in {"no", "unread"}
  /\ phase = "serving" => toLoad = {}
  /\ Busy => call.info \in Infos /\ call.op \in {"connect", "disconnect"}
  /\ step = "write" => behind = "unwritten"
  /\ step = "return" => behind # "unread"

(* What the file holds.                                                      *)
FileInv ==
  /\ \A i, j \in file : Hash[i] = Hash[j] => i = j
  /\ behind = "unwritten" => file = {}
  /\ phase = "loading" => IF behind = "no" THEN file = toLoad \cup Mem
                                           ELSE toLoad = {} /\ Mem = {}
  /\ (phase = "serving" /\ step = "idle" /\ behind = "no") => Saved(file) = Saved(Mem)
  /\ (step = "return" /\ behind = "no") => file = Mem /\ unsaved = {}

(* What was answered.                                                        *)
AnswerInv ==
  /\ behind = "unread" => "unread" \in lost
  /\ (lost = {} /\ phase = "serving") => acked \subseteq Mem
  /\ (lost = {} /\ behind = "no") => acked \subseteq file
  /\ "unopened" \notin lost => gone \cap Mem = {}
  /\ ("unopened" \notin lost /\ behind # "unopened") => gone \cap file = {}
  /\ (Busy /\ call.op = "connect") => call.info \in Mem \ gone
  /\ (Busy /\ call.op = "disconnect") => call.info \notin Mem \cup acked

IInv == TypeOK /\ StepInv /\ FileInv /\ AnswerInv

Filed == \A id \in DOMAIN servers : servers[id] \in Infos /\ Hash[servers[id]] = id

(* Enter replaces what has the hash of the new server, and only that.        *)
LEMMA EnterMem ==
  ASSUME Filed, NEW info \in Infos, Enter(info)
  PROVE  /\ Filed'
         /\ DOMAIN servers' = DOMAIN servers \cup {Hash[info]}
         /\ Mem' = {info} \cup {i \in Mem : Hash[i] # Hash[info]}
<1>1. /\ DOMAIN servers' = DOMAIN servers \cup {Hash[info]}
      /\ \A id \in DOMAIN servers' :
           servers'[id] = IF id = Hash[info] THEN info ELSE servers[id]
  BY DEF Enter
<1>2. Filed'
  BY <1>1 DEF Filed
<1>3. Mem' = {info} \cup {i \in Mem : Hash[i] # Hash[info]}
  <2>1. ASSUME NEW i \in Mem' PROVE i \in {info} \cup {j \in Mem : Hash[j] # Hash[info]}
    <3>1. PICK id \in DOMAIN servers' : i = servers'[id]
      BY <2>1 DEF Mem, Range
    <3>2. CASE id = Hash[info]
      BY <1>1, <3>1, <3>2
    <3>3. CASE id # Hash[info]
      <4>1. id \in DOMAIN servers /\ i = servers[id]
        BY <1>1, <3>1, <3>3
      <4>2. i \in Mem /\ Hash[i] = id
        BY <4>1 DEF Mem, Range, Filed
      <4> QED BY <4>2, <3>3
    <3> QED BY <3>2, <3>3
  <2>2. info \in Mem'
    BY <1>1 DEF Mem, Range
  <2>3. ASSUME NEW i \in Mem, Hash[i] # Hash[info] PROVE i \in Mem'
    <3>1. PICK id \in DOMAIN servers : i = servers[id]
      BY DEF Mem, Range
    <3>2. Hash[i] = id
      BY <3>1 DEF Filed
    <3>3. id \in DOMAIN servers' /\ servers'[id] = i
      BY <1>1, <2>3, <3>1, <3>2
    <3> QED BY <3>3 DEF Mem, Range
  <2> QED BY <2>1, <2>2, <2>3
<1> QED BY <1>1, <1>2, <1>3

(* Erasing an entry takes its server away, and only that.                    *)
LEMMA EraseMem ==
  ASSUME Filed, NEW info \in Infos,
         Hash[info] \in DOMAIN servers, servers[Hash[info]] = info,
         servers' = Restrict(servers, DOMAIN servers \ {Hash[info]})
  PROVE  /\ Filed'
         /\ DOMAIN servers' \subseteq DOMAIN servers
         /\ Mem' = Mem \ {info}
<1>1. /\ DOMAIN servers' = DOMAIN servers \ {Hash[info]}
      /\ \A id \in DOMAIN servers' : servers'[id] = servers[id]
  BY DEF Restrict
<1>2. Filed'
  BY <1>1 DEF Filed
<1>3. Mem' = Mem \ {info}
  <2>1. ASSUME NEW i \in Mem' PROVE i \in Mem \ {info}
    <3>1. PICK id \in DOMAIN servers' : i = servers'[id]
      BY <2>1 DEF Mem, Range
    <3>2. id \in DOMAIN servers /\ i = servers[id] /\ id # Hash[info] /\ Hash[i] = id
      BY <1>1, <3>1 DEF Filed
    <3> QED BY <3>2 DEF Mem, Range
  <2>2. ASSUME NEW i \in Mem, i # info PROVE i \in Mem'
    <3>1. PICK id \in DOMAIN servers : i = servers[id]
      BY DEF Mem, Range
    <3>2. id \in DOMAIN servers' /\ servers'[id] = i
      BY <1>1, <2>2, <3>1
    <3> QED BY <3>2 DEF Mem, Range
  <2> QED BY <2>1, <2>2
<1> QED BY <1>1, <1>2, <1>3

(* The hashes of the servers in memory differ.                               *)
LEMMA MemHash ==
  ASSUME Filed
  PROVE  /\ Mem \subseteq Infos
         /\ \A i \in Mem : Hash[i] \in DOMAIN servers /\ servers[Hash[i]] = i
         /\ \A i, j \in Mem : Hash[i] = Hash[j] => i = j
  BY DEF Filed, Mem, Range

LEMMA TypeFiled == TypeOK => Filed
  BY DEF TypeOK, Filed

-----------------------------------------------------------------------------
LEMMA InitInv == Init => IInv
<1> SUFFICES ASSUME Init PROVE IInv
  OBVIOUS
<1> USE RegistryAssumption DEF Init
<1>1. DOMAIN servers = {} /\ Mem = {}
  BY DEF Mem, Range
<1>2. TypeOK
  <2>1. call \in [op : {"none", "connect", "disconnect"}, info : Infos \cup {None}]
    BY DEF NoCall
  <2>2. crashes \in 0 .. MaxCrashes
    BY SMT
  <2> QED BY <1>1, <2>1, <2>2 DEF TypeOK
<1>3. StepInv
  BY <1>1 DEF StepInv, Busy
<1>4. FileInv
  BY <1>1 DEF FileInv
<1>5. AnswerInv
  BY <1>1 DEF AnswerInv, Busy
<1> QED BY <1>2, <1>3, <1>4, <1>5 DEF IInv

LEMMA StepKeepsInv == IInv /\ [Next]_vars => IInv'
<1> SUFFICES ASSUME IInv, [Next]_vars PROVE IInv'
  OBVIOUS
<1> USE RegistryAssumption
<1> Filed
  BY TypeFiled DEF IInv
<1>m. /\ Mem \subseteq Infos
      /\ \A i \in Mem : Hash[i] \in DOMAIN servers /\ servers[Hash[i]] = i
      /\ \A i, j \in Mem : Hash[i] = Hash[j] => i = j
  BY MemHash
<1>1. CASE Start
  <2>1. Mem' = Mem /\ Mem = {}
    BY <1>1 DEF Start, Mem, Range, IInv, StepInv
  <2>2. TypeOK'
    BY <1>1 DEF IInv, TypeOK, Start
  <2>3. StepInv' /\ FileInv' /\ AnswerInv'
    BY <1>1, <2>1 DEF IInv, StepInv, FileInv, AnswerInv, Start, Busy
  <2> QED BY <2>2, <2>3 DEF IInv
<1>2. CASE Load
  <2>1. PICK info \in toLoad : Enter(info) /\ toLoad' = toLoad \ {info}
    BY <1>2 DEF Load
  <2>2. info \in Infos /\ info \in file
    BY <2>1 DEF IInv, TypeOK
  <2>3. /\ Filed'
        /\ DOMAIN servers' = DOMAIN servers \cup {Hash[info]}
        /\ Mem' = {info} \cup {i \in Mem : Hash[i] # Hash[info]}
    BY <2>1, <2>2, EnterMem
  <2>4. file = toLoad \cup Mem
    BY <1>2 DEF Load, IInv, FileInv
  <2>5. Mem' = Mem \cup {info}
    BY <2>2, <2>3, <2>4 DEF IInv, FileInv
  <2>6. TypeOK'
    BY <1>2, <2>1, <2>2, <2>3 DEF IInv, TypeOK, Filed, Load
  <2>7. StepInv'
    BY <1>2 DEF IInv, StepInv, Load, Busy
  <2>8. FileInv' /\ AnswerInv'
    BY <1>2, <2>1, <2>2, <2>4, <2>5 DEF IInv, StepInv, FileInv, AnswerInv, Load, Busy
  <2> QED BY <2>6, <2>7, <2>8 DEF IInv
<1>3. CASE LoadThrows
  <2>1. DOMAIN servers' = {} /\ Mem' = {}
    BY <1>3 DEF LoadThrows, Mem, Range
  <2>2. TypeOK'
    BY <1>3, <2>1 DEF IInv, TypeOK, LoadThrows
  <2>3. StepInv' /\ FileInv' /\ AnswerInv'
    BY <1>3, <2>1 DEF IInv, StepInv, FileInv, AnswerInv, LoadThrows, Busy
  <2> QED BY <2>2, <2>3 DEF IInv
<1>4. CASE Activate
  <2>1. Mem' = Mem /\ (behind = "no" => file = Mem)
    BY <1>4 DEF Activate, Mem, IInv, FileInv
  <2>2. TypeOK'
    BY <1>4 DEF IInv, TypeOK, Activate
  <2>3. StepInv' /\ AnswerInv'
    BY <1>4, <2>1 DEF IInv, StepInv, AnswerInv, Activate, Busy
  <2>4. FileInv'
    BY <1>4, <2>1 DEF IInv, FileInv, Activate, Saved
  <2> QED BY <2>2, <2>3, <2>4 DEF IInv
<1>5. ASSUME NEW info \in Infos, Connect(info) PROVE IInv'
  <2>1. /\ Filed'
        /\ DOMAIN servers' = DOMAIN servers \cup {Hash[info]}
        /\ Mem' = {info} \cup {i \in Mem : Hash[i] # Hash[info]}
    BY <1>5, EnterMem DEF Connect
  <2>2. acked' = acked \ SameId(info) /\ gone' = gone \ {info} /\ Hash[info] \in Ids
    BY <1>5 DEF Connect
  <2>3. TypeOK'
    BY <1>5, <2>1, <2>2 DEF IInv, TypeOK, Filed, Connect
  <2>4. StepInv'
    BY <1>5, <2>1 DEF IInv, StepInv, Connect, Busy
  <2>5. FileInv'
    <3>1. (phase = "serving" /\ step = "idle") /\ (behind = "no" => Saved(file) = Saved(Mem))
      BY <1>5 DEF Connect, IInv, FileInv
    <3>2. ASSUME step' = "idle", behind = "no" PROVE Saved(file)' = Saved(Mem)'
      <4>1. unsaved' = unsaved \cup {Hash[info]} /\ file' = file
        BY <1>5, <3>2 DEF Connect
      <4>2. {i \in file : Hash[i] \notin unsaved} = {i \in Mem : Hash[i] \notin unsaved}
        BY <3>1, <3>2 DEF Saved
      <4>3. \A i \in file \cup Mem : Hash[i] \notin unsaved => (i \in file <=> i \in Mem)
        BY <4>2
      <4>4. Saved(file)' = {i \in file : Hash[i] \notin unsaved /\ Hash[i] # Hash[info]}
        BY <4>1 DEF Saved
      <4>5. Saved(Mem)' = {i \in Mem : Hash[i] \notin unsaved /\ Hash[i] # Hash[info]}
        BY <4>1, <2>1 DEF Saved
      <4> QED BY <4>3, <4>4, <4>5
    <3>3. behind' = behind
      BY <1>5 DEF Connect
    <3> QED BY <1>5, <3>1, <3>2, <3>3 DEF Connect, IInv, FileInv
  <2>6. AnswerInv'
    <3>1. acked' \subseteq acked /\ \A i \in acked' : Hash[i] # Hash[info]
      BY <2>2 DEF SameId, IInv, TypeOK
    <3> QED BY <1>5, <2>1, <2>2, <3>1 DEF Connect, IInv, AnswerInv, StepInv, Busy
  <2> QED BY <2>3, <2>4, <2>5, <2>6 DEF IInv
<1>6. ASSUME NEW info \in Infos, Disconnect(info) PROVE IInv'
  <2>1. CASE UNCHANGED servers /\ step' = "hung"
    <3>1. Mem' = Mem
      BY <2>1 DEF Mem
    <3>2. TypeOK'
      BY <1>6, <2>1 DEF IInv, TypeOK, Disconnect
    <3>3. StepInv' /\ FileInv' /\ AnswerInv'
      BY <1>6, <2>1, <3>1 DEF Disconnect, IInv, StepInv, FileInv, AnswerInv, Busy
    <3> QED BY <3>2, <3>3 DEF IInv
  <2>2. CASE /\ servers' = Restrict(servers, DOMAIN servers \ {Hash[info]})
             /\ step' = "save"
    <3>1. /\ Filed'
          /\ DOMAIN servers' \subseteq DOMAIN servers
          /\ Mem' = Mem \ {info}
      BY <1>6, <2>2, EraseMem DEF Disconnect
    <3>2. TypeOK'
      BY <1>6, <2>2, <3>1 DEF IInv, TypeOK, Filed, Disconnect
    <3>3. StepInv' /\ FileInv' /\ AnswerInv'
      BY <1>6, <2>2, <3>1 DEF Disconnect, IInv, StepInv, FileInv, AnswerInv, Busy
    <3> QED BY <3>2, <3>3 DEF IInv
  <2> QED BY <1>6, <2>1, <2>2 DEF Disconnect
<1>7. CASE OpenFile
  <2>1. Mem' = Mem /\ phase' = phase /\ phase = "serving"
    BY <1>7 DEF OpenFile, Mem, IInv, StepInv
  <2>2. TypeOK'
    BY <1>7, <2>1 DEF OpenFile, IInv, TypeOK, StepInv
  <2>3. StepInv'
    BY <1>7, <2>1 DEF OpenFile, IInv, StepInv, Busy
  <2>4. FileInv'
    BY <1>7, <2>1 DEF OpenFile, IInv, FileInv
  <2>5. AnswerInv'
    BY <1>7, <2>1 DEF OpenFile, IInv, AnswerInv, Busy
  <2> QED BY <2>2, <2>3, <2>4, <2>5 DEF IInv
<1>8. CASE WriteFile
  <2>1. Mem' = Mem /\ phase' = phase /\ phase = "serving" /\ behind = "unwritten"
    BY <1>8 DEF WriteFile, Mem, IInv, StepInv
  <2>2. CASE UNCHANGED <<file, behind, unsaved>>
    <3>1. TypeOK'
      BY <1>8, <2>1, <2>2 DEF WriteFile, IInv, TypeOK, StepInv
    <3>2. StepInv' /\ FileInv' /\ AnswerInv'
      BY <1>8, <2>1, <2>2 DEF WriteFile, IInv, StepInv, FileInv, AnswerInv, Busy
    <3> QED BY <3>1, <3>2 DEF IInv
  <2>3. CASE file' = Mem /\ behind' = "no" /\ unsaved' = {}
    <3>1. TypeOK'
      BY <1>8, <1>m, <2>1, <2>3 DEF WriteFile, IInv, TypeOK, StepInv
    <3>2. StepInv'
      BY <1>8, <2>1, <2>3 DEF WriteFile, IInv, StepInv, Busy
    <3>3. FileInv'
      BY <1>8, <1>m, <2>1, <2>3 DEF WriteFile, FileInv
    <3>4. AnswerInv'
      BY <1>8, <2>1, <2>3 DEF WriteFile, IInv, AnswerInv, Busy
    <3> QED BY <3>1, <3>2, <3>3, <3>4 DEF IInv
  <2> QED BY <1>8, <2>2, <2>3 DEF WriteFile, Mem
<1>9. CASE Return
  <2>1. /\ Mem' = Mem /\ phase' = phase /\ phase = "serving" /\ behind # "unread"
        /\ UNCHANGED <<file, behind, unsaved, lost>>
        /\ behind = "no" => file = Mem /\ unsaved = {}
        /\ behind = "unwritten" => file = {}
    BY <1>9 DEF Return, Mem, IInv, StepInv, FileInv
  <2>2. /\ call.info \in Infos
        /\ call.op = "connect" => call.info \in Mem \ gone
        /\ call.op # "connect" => call.info \notin Mem \cup acked
    BY <1>9 DEF Return, IInv, StepInv, AnswerInv, Busy
  <2>3. behind \in {"no", "unopened", "unwritten"}
    BY <2>1 DEF IInv, TypeOK
  <2>4. TypeOK'
    <3>1. call.op = "connect" => gone' = gone /\ acked' = acked \cup {call.info}
      BY <1>9 DEF Return
    <3>2. call.op # "connect" => gone' = gone \cup {call.info} /\ acked' = acked
      BY <1>9 DEF Return
    <3>3. acked' \subseteq Infos /\ gone' \subseteq Infos
      BY <2>2, <3>1, <3>2 DEF IInv, TypeOK
    <3> QED BY <1>9, <2>1, <2>2, <3>1, <3>2, <3>3 DEF Return, IInv, TypeOK, NoCall
  <2>5. StepInv'
    BY <1>9, <2>1 DEF Return, IInv, StepInv, Busy
  <2>6. FileInv'
    BY <1>9, <2>1 DEF Return, IInv, FileInv, Saved
  <2>7. AnswerInv'
    BY <1>9, <2>1, <2>2, <2>3 DEF Return, IInv, AnswerInv, Busy
  <2> QED BY <2>4, <2>5, <2>6, <2>7 DEF IInv
<1>10. CASE Crash
  <2>1. DOMAIN servers' = {} /\ Mem' = {}
    BY <1>10 DEF Crash, Mem, Range
  <2>2. TypeOK'
    BY <1>10, <2>1 DEF Crash, IInv, TypeOK, NoCall
  <2>3. StepInv' /\ FileInv' /\ AnswerInv'
    BY <1>10, <2>1 DEF Crash, IInv, StepInv, FileInv, AnswerInv, Busy
  <2> QED BY <2>2, <2>3 DEF IInv
<1>11. CASE UNCHANGED vars
  <2>1. Mem' = Mem
    BY <1>11 DEF vars, Mem
  <2>2. TypeOK'
    BY <1>11 DEF vars, IInv, TypeOK
  <2>3. StepInv' /\ AnswerInv'
    BY <1>11, <2>1 DEF vars, IInv, StepInv, AnswerInv, Busy
  <2>4. FileInv'
    BY <1>11, <2>1 DEF vars, IInv, FileInv, Saved
  <2> QED BY <2>2, <2>3, <2>4 DEF IInv
<1> QED
  BY <1>1, <1>2, <1>3, <1>4, <1>5, <1>6, <1>7, <1>8, <1>9, <1>10, <1>11 DEF Next

(* The strengthened invariant holds of every behaviour.                      *)
THEOREM RegistryInvariance == Spec => []IInv
  BY InitInv, StepKeepsInv, PTL DEF Spec

(* Type correctness: Dolanik::servers files each server under its hash.       *)
THEOREM RegistryTypes == Spec => []TypeOK
<1>1. IInv => TypeOK
  BY DEF IInv
<1> QED BY <1>1, RegistryInvariance, PTL

(* Between calls the state file is what Dolanik::servers holds, but for the   *)
(* entries of a connect that threw, and but for a load or save that failed.   *)
THEOREM MemorySaved == Spec => []FileIsMemory
<1>1. IInv => FileIsMemory
  BY DEF IInv, FileInv, FileIsMemory, Mem
<1> QED BY <1>1, RegistryInvariance, PTL

(* An acknowledged connect is lost only by a start-up that cannot read the     *)
(* file, or by a process that dies while the file is behind: truncated by     *)
(* State::save and not written, or missing what a failed save did not write.  *)
THEOREM ConnectDurable == Spec => []AckedIsDurable
<1>1. IInv => AckedIsDurable
  <2> SUFFICES ASSUME IInv, lost = {}
               PROVE acked \subseteq (IF behind = "no" THEN file ELSE Mem)
    BY DEF AckedIsDurable, Mem
  <2>1. behind # "no" => phase = "serving"
    BY DEF IInv, StepInv, AnswerInv, TypeOK
  <2> QED BY <2>1 DEF IInv, AnswerInv
<1> QED BY <1>1, RegistryInvariance, PTL

(* An acknowledged disconnect is undone only by a process that dies after a    *)
(* save that could not open the file, before one that can: not by any other   *)
(* crash or reload, and not by a failed write.                               *)
THEOREM DisconnectFinal == Spec => []GoneStaysGone
<1>1. IInv => GoneStaysGone
  BY DEF IInv, AnswerInv, GoneStaysGone, Mem
<1> QED BY <1>1, RegistryInvariance, PTL
=============================================================================
