-------------------------- MODULE EmergencyProofs ---------------------------
(***************************************************************************)
(* Proofs about Emergency, for any number of clients, ConfigMaps, keys,    *)
(* workloads and commands, any role and any budget.                        *)
(*                                                                         *)
(* An answer is about a state that has passed: to show that it stays true  *)
(* one has to know that nobody writes the text of an answered command      *)
(* again (Numbered), that a copy that will be accepted differs from the    *)
(* ConfigMap by one key (CopyFresh), and what a patch that succeeds has    *)
(* done (Delivered).                                                       *)
(***************************************************************************)
EXTENDS Emergency, TLAPS

(* An answer is one, accepted or not. *)
USE DEF Answers

CacheFresh == \A c \in inSync : cached[c] = data[c]

CopyFresh ==
    \A h \in Clients :
        LET c == Captured[h].cm
        IN  fresh[h] /\ pc[h] = "update" =>
                data[c] # None /\ copy[h] = [data[c] EXCEPT ![Captured[h].key] = cmd[h]]

Acked(i) == \E a \in Answers : a.cmd = i

(* Commands are handled once: what is still to come has not been answered, is
   not being handled and was sent before. *)
Numbered ==
    /\ \A h \in Clients : cmd[h] # None => cmd[h].n <= sent /\ ~Acked(cmd[h])
    /\ \A h \in Clients : \A p \in 1..Len(inbox[h]) :
          /\ inbox[h][p].to = h
          /\ inbox[h][p].n <= sent
          /\ inbox[h][p] # cmd[h]
          /\ ~Acked(inbox[h][p])
    /\ \A h \in Clients : \A p, q \in 1..Len(inbox[h]) :
          p # q => inbox[h][p] # inbox[h][q]
    /\ \A a \in Answers : a.cmd.n <= sent

(* applyEmergencyConfig has succeeded for command i. *)
Succeeded(i) ==
    \/ \E a \in Answers : a.cmd = i /\ a.ok
    \/ cmd[i.to] = i /\ pc[i.to] = "ack" /\ ok[i.to]

Reaches(i) ==
    Holds(Captured[i.to].cm, i) /\ Runs(i) => Captured[i.to].workload \in rolling \/ RunsText(i)

Delivered == \A i \in Command \ swallowed : Succeeded(i) => Reaches(i)

Untouched ==
    \A h \in Clients : ~GateOpen(h) => cmd[h] = None

IInv ==
    /\ TypeOK
    /\ CacheFresh
    /\ CopyFresh
    /\ Numbered
    /\ Delivered
    /\ Untouched
    /\ ReadOnlyWhenOff
-----------------------------------------------------------------------------
LEMMA InitIInv == Init => IInv
<1> SUFFICES ASSUME Init PROVE IInv
  OBVIOUS
<1> USE CapturedAssumption, MountsAssumption, BoundsAssumption, SentinelAssumption DEF Init
<1>1. data \in [ConfigMaps -> Data \cup {None}]
  BY DEF FromGit, Data, Content
<1>2. ConfigMapsOK /\ PodsOK
  BY <1>1 DEF ConfigMapsOK, PodsOK
<1>3. ServerOK /\ HandlersOK /\ faults \in 0..MaxFaults
  <2>1. ServerOK /\ faults \in 0..MaxFaults
    BY DEF ServerOK
  <2>2. HandlersOK
    BY DEF HandlersOK
  <2>3. QED
    BY <2>1, <2>2
<1>4. CacheFresh /\ CopyFresh
  BY DEF CacheFresh, CopyFresh
<1>5. Numbered
  BY DEF Numbered, Acked
<1>6. Delivered
  BY DEF Delivered, Succeeded, Command
<1>7. Untouched
  BY DEF Untouched
<1>8. ReadOnlyWhenOff
  <2>1. \A c \in ConfigMaps, k \in Keys : data[c][k] \in {Git, None}
    BY DEF FromGit
  <2>2. Git \notin Command /\ None \notin Command
    BY DEF Content
  <2>3. QED
    BY <2>1, <2>2 DEF ReadOnlyWhenOff, Contains
<1>9. QED
  BY <1>2, <1>3, <1>4, <1>5, <1>6, <1>7, <1>8 DEF IInv, TypeOK

LEMMA SpendType == ASSUME faults \in 0..MaxFaults, Spend PROVE faults' \in 0..MaxFaults
  BY BoundsAssumption DEF Spend
-----------------------------------------------------------------------------
(* The part of the invariant about commands, given that only the ConfigMaps and
   the pods change. *)
LEMMA ServerUnchanged ==
    ASSUME IInv, UNCHANGED serverVars, UNCHANGED <<pc, cmd, ok>>,
           copy' \in [Clients -> Data \cup {None}], fresh' \in [Clients -> BOOLEAN]
    PROVE  ServerOK' /\ HandlersOK' /\ Numbered' /\ Untouched'
  BY DEF IInv, TypeOK, serverVars, ServerOK, HandlersOK, Numbered, Acked, Untouched, GateOpen

(* A write that restores what Git holds or deletes the ConfigMap. *)
LEMMA ExternalWriteIInv ==
    ASSUME IInv, NEW c \in ConfigMaps, NEW d \in Data \cup {None},
           d \in FromGit \cup {None},
           WriteConfigMap(c, d), Spend, UNCHANGED <<podVars, serverVars, pc, cmd, copy, ok>>
    PROVE  IInv'
<1> USE DEF WriteConfigMap
<1>1. ConfigMapsOK' /\ PodsOK' /\ faults' \in 0..MaxFaults
  BY SpendType DEF IInv, TypeOK, ConfigMapsOK, PodsOK, podVars
<1>2. copy' \in [Clients -> Data \cup {None}] /\ fresh' \in [Clients -> BOOLEAN]
  BY DEF IInv, TypeOK, HandlersOK
<1>3. ServerOK' /\ HandlersOK' /\ Numbered' /\ Untouched'
  BY <1>2, ServerUnchanged
<1>4. CacheFresh'
  BY DEF IInv, TypeOK, ConfigMapsOK, CacheFresh, podVars
<1>5. CopyFresh'
  BY CapturedAssumption DEF IInv, TypeOK, ConfigMapsOK, HandlersOK, CopyFresh
<1>6. ASSUME NEW e \in ConfigMaps, NEW i \in Command, Contains(e, i)'
      PROVE  Contains(e, i) /\ data'[e] = data[e]
  BY <1>6, SentinelAssumption DEF IInv, TypeOK, ConfigMapsOK, Contains, FromGit, Content
<1>7. Delivered'
  <2> SUFFICES ASSUME NEW i \in Command \ swallowed, Succeeded(i)'
               PROVE  Reaches(i)'
    BY DEF Delivered, podVars
  <2>1. Succeeded(i)
    BY DEF Succeeded, serverVars
  <2>2. Captured[i.to].cm \in ConfigMaps /\ Captured[i.to].key \in Keys
    BY CapturedAssumption DEF Command
  <2>3. Holds(Captured[i.to].cm, i)' => Holds(Captured[i.to].cm, i)
    BY <1>6, <2>2 DEF Holds, Contains
  <2>4. QED
    BY <2>1, <2>3 DEF IInv, Delivered, Reaches, Runs, RunsText, podVars
<1>8. ReadOnlyWhenOff'
  BY <1>6 DEF IInv, ReadOnlyWhenOff, serverVars
<1>9. QED
  BY <1>1, <1>3, <1>4, <1>5, <1>7, <1>8 DEF IInv, TypeOK

LEMMA GitSyncIInv == ASSUME IInv, NEW c \in ConfigMaps, GitSync(c) PROVE IInv'
<1>1. FromGit \subseteq Data
  BY DEF FromGit, Data, Content
<1>2. QED
  BY <1>1, ExternalWriteIInv DEF GitSync

LEMMA DeleteConfigMapIInv == ASSUME IInv, NEW c \in ConfigMaps, DeleteConfigMap(c) PROVE IInv'
  BY ExternalWriteIInv DEF DeleteConfigMap

LEMMA WatchIInv == ASSUME IInv, NEW c \in ConfigMaps, Watch(c) PROVE IInv'
<1> USE DEF Watch, handlerVars
<1>1. ConfigMapsOK' /\ PodsOK' /\ faults' \in 0..MaxFaults
  BY DEF IInv, TypeOK, ConfigMapsOK, PodsOK, podVars
<1>2. ServerOK' /\ HandlersOK' /\ Numbered' /\ Untouched'
  BY ServerUnchanged DEF IInv, TypeOK, HandlersOK
<1>3. CacheFresh' /\ CopyFresh'
  BY DEF IInv, TypeOK, ConfigMapsOK, CacheFresh, CopyFresh, podVars
<1>4. Delivered' /\ ReadOnlyWhenOff'
  BY DEF IInv, Delivered, Succeeded, Reaches, Holds, Runs, RunsText, ReadOnlyWhenOff, Contains, podVars, serverVars
<1>5. QED
  BY <1>1, <1>2, <1>3, <1>4 DEF IInv, TypeOK
-----------------------------------------------------------------------------
(* Workloads come and go, pods start, seconds pass. *)
LEMMA PodsIInv ==
    ASSUME IInv, PodsOK', faults' \in 0..MaxFaults',
           \A i \in Command : Reaches(i) => Reaches(i)',
           UNCHANGED <<cmVars, swallowed, serverVars, handlerVars>>
    PROVE  IInv'
<1> USE DEF cmVars, handlerVars
<1>1. ConfigMapsOK' /\ CacheFresh' /\ CopyFresh'
  BY DEF IInv, TypeOK, ConfigMapsOK, CacheFresh, CopyFresh
<1>2. ServerOK' /\ HandlersOK' /\ Numbered' /\ Untouched'
  BY ServerUnchanged DEF IInv, TypeOK, HandlersOK
<1>3. Delivered' /\ ReadOnlyWhenOff'
  BY DEF IInv, Delivered, Succeeded, ReadOnlyWhenOff, Contains, serverVars
<1>4. QED
  BY <1>1, <1>2, <1>3 DEF IInv, TypeOK

LEMMA DeleteWorkloadIInv == ASSUME IInv, NEW w \in Workloads, DeleteWorkload(w) PROVE IInv'
<1>1. PodsOK' /\ faults' \in 0..MaxFaults
  BY SpendType DEF IInv, TypeOK, PodsOK, DeleteWorkload
<1>2. \A i \in Command : Reaches(i) => Reaches(i)'
  BY DEF Reaches, Holds, Runs, RunsText, DeleteWorkload, cmVars
<1>3. QED
  BY <1>1, <1>2, PodsIInv DEF DeleteWorkload

LEMMA CreateWorkloadIInv == ASSUME IInv, NEW w \in Workloads, CreateWorkload(w) PROVE IInv'
<1>1. PodsOK' /\ faults' \in 0..MaxFaults
  BY SpendType DEF IInv, TypeOK, PodsOK, CreateWorkload
<1>2. \A i \in Command : Reaches(i) => Reaches(i)'
  BY DEF IInv, TypeOK, PodsOK, Reaches, Holds, Runs, RunsText, CreateWorkload, cmVars
<1>3. QED
  BY <1>1, <1>2, PodsIInv DEF CreateWorkload

LEMMA RolloutIInv == ASSUME IInv, NEW w \in Workloads, Rollout(w) PROVE IInv'
<1>1. PodsOK' /\ faults' \in 0..MaxFaults
  BY MountsAssumption DEF IInv, TypeOK, ConfigMapsOK, PodsOK, Rollout
<1>2. \A i \in Command : Reaches(i) => Reaches(i)'
  BY DEF IInv, TypeOK, PodsOK, Reaches, Holds, Runs, RunsText, Rollout, cmVars
<1>3. QED
  BY <1>1, <1>2, PodsIInv DEF Rollout

LEMMA TickIInv == ASSUME IInv, Tick PROVE IInv'
<1>1. PodsOK' /\ faults' \in 0..MaxFaults
  BY DEF IInv, TypeOK, PodsOK, Tick
<1>2. \A i \in Command : Reaches(i) => Reaches(i)'
  BY DEF Reaches, Holds, Runs, RunsText, Tick, cmVars
<1>3. QED
  BY <1>1, <1>2, PodsIInv DEF Tick
-----------------------------------------------------------------------------
(* The server, the connection, and the death of the process. *)

LEMMA SendIInv == ASSUME IInv, NEW h \in Clients, Send(h) PROVE IInv'
<1> DEFINE i == [to |-> h, n |-> sent + 1]
<1> USE DEF Send, cmVars, podVars, handlerVars
<1>1. i \in Command /\ sent' \in 0..MaxCommands /\ sent' = sent + 1
  BY BoundsAssumption DEF IInv, TypeOK, ServerOK, Command
<1>2. inbox' = [inbox EXCEPT ![h] = Append(inbox[h], i)]
  OBVIOUS
<1>3. ConfigMapsOK' /\ PodsOK' /\ HandlersOK' /\ faults' \in 0..MaxFaults
  BY DEF IInv, TypeOK, ConfigMapsOK, PodsOK, HandlersOK
<1>4. ServerOK'
  BY <1>1 DEF IInv, TypeOK, ServerOK
<1>5. CacheFresh' /\ CopyFresh'
  BY DEF IInv, CacheFresh, CopyFresh
<1>6. Delivered' /\ Untouched' /\ ReadOnlyWhenOff'
  BY DEF IInv, Delivered, Succeeded, Reaches, Holds, Runs, RunsText, Untouched, ReadOnlyWhenOff, Contains, GateOpen
<1>7. Numbered'
  <2>1. /\ Len(inbox'[h]) = Len(inbox[h]) + 1
        /\ Len(inbox[h]) \in Nat
        /\ inbox'[h][Len(inbox[h]) + 1] = i
        /\ \A p \in 1..Len(inbox[h]) : inbox'[h][p] = inbox[h][p]
    BY <1>1, <1>2 DEF IInv, TypeOK, ServerOK
  <2>2. \A g \in Clients \ {h} : inbox'[g] = inbox[g]
    BY <1>2 DEF IInv, TypeOK, ServerOK
  <2>3. \A j \in Command : j.n <= sent => j.n <= sent' /\ j # i
    BY <1>1 DEF IInv, TypeOK, ServerOK, Command
  <2>4. \A g \in Clients : \A p \in 1..Len(inbox[g]) : inbox[g][p] \in Command
    BY DEF IInv, TypeOK, ServerOK
  <2>5. /\ \A g \in Clients : cmd'[g] # None => cmd'[g].n <= sent' /\ ~Acked(cmd[g])' /\ cmd'[g] # i
        /\ \A a \in Answers' : a.cmd.n <= sent' /\ a.cmd # i
    BY <2>3 DEF IInv, TypeOK, ServerOK, HandlersOK, Numbered, Acked, Ack
  <2>6. i # None
    BY <1>1, SentinelAssumption DEF Content
  <2>7. \A g \in Clients : \A p \in 1..Len(inbox'[g]) :
            /\ inbox'[g][p].to = g
            /\ inbox'[g][p].n <= sent'
            /\ inbox'[g][p] # cmd'[g]
            /\ ~Acked(inbox[g][p])'
    BY <1>1, <2>1, <2>2, <2>3, <2>4, <2>5, <2>6 DEF IInv, Numbered, Acked
  <2>8. \A g \in Clients : \A p, q \in 1..Len(inbox'[g]) :
            p # q => inbox'[g][p] # inbox'[g][q]
    BY <2>1, <2>2, <2>3, <2>4 DEF IInv, Numbered
  <2>9. QED
    BY <2>5, <2>7, <2>8 DEF Numbered
<1>8. QED
  BY <1>3, <1>4, <1>5, <1>6, <1>7 DEF IInv, TypeOK

LEMMA DisconnectIInv == ASSUME IInv, NEW h \in Clients, Disconnect(h) PROVE IInv'
<1> USE DEF Disconnect, cmVars, podVars, handlerVars
<1>1. ConfigMapsOK' /\ PodsOK' /\ HandlersOK' /\ ServerOK' /\ faults' \in 0..MaxFaults
  BY DEF IInv, TypeOK, ConfigMapsOK, PodsOK, HandlersOK, ServerOK
<1>2. CacheFresh' /\ CopyFresh'
  BY DEF IInv, CacheFresh, CopyFresh
<1>3. Delivered' /\ Untouched' /\ ReadOnlyWhenOff'
  BY DEF IInv, Delivered, Succeeded, Reaches, Holds, Runs, RunsText, Untouched, ReadOnlyWhenOff, Contains, GateOpen
<1>4. \A g \in Clients : inbox'[g] = inbox[g] \/ Len(inbox'[g]) = 0
  BY DEF IInv, TypeOK, ServerOK
<1>5. Numbered'
  BY <1>4 DEF IInv, Numbered, Acked
<1>6. QED
  BY <1>1, <1>2, <1>3, <1>5 DEF IInv, TypeOK

LEMMA DieIInv == ASSUME IInv, Die, faults' \in 0..MaxFaults PROVE IInv'
<1> USE DEF Die, podVars
<1>1. ConfigMapsOK' /\ PodsOK'
  BY DEF IInv, TypeOK, ConfigMapsOK, PodsOK
<1>2. HandlersOK' /\ ServerOK'
  BY DEF IInv, TypeOK, HandlersOK, ServerOK
<1>3. CacheFresh' /\ CopyFresh' /\ Untouched'
  BY DEF IInv, CacheFresh, CopyFresh, Untouched
<1>4. Numbered'
  BY DEF IInv, Numbered, Acked
<1>5. Delivered' /\ ReadOnlyWhenOff'
  BY DEF IInv, Delivered, Succeeded, Reaches, Holds, Runs, RunsText, ReadOnlyWhenOff, Contains, Command
<1>6. QED
  BY <1>1, <1>2, <1>3, <1>4, <1>5 DEF IInv, TypeOK

LEMMA RestartIInv == ASSUME IInv, Restart PROVE IInv'
  BY DieIInv, SpendType DEF Restart, IInv, TypeOK
-----------------------------------------------------------------------------
(* The handler. *)

(* A step of the handler inside applyEmergencyConfig that writes nothing and
   does not succeed. *)
LEMMA LocalIInv ==
    ASSUME IInv, NEW h \in Clients, HandlersOK', CopyFresh', faults' \in 0..MaxFaults,
           \A i \in Command : Succeeded(i)' => Succeeded(i),
           UNCHANGED <<cmVars, podVars, serverVars, cmd>>
    PROVE  IInv'
<1> USE DEF cmVars, podVars, serverVars
<1>1. ConfigMapsOK' /\ PodsOK' /\ ServerOK'
  BY DEF IInv, TypeOK, ConfigMapsOK, PodsOK, ServerOK
<1>2. CacheFresh' /\ Numbered' /\ Untouched'
  BY DEF IInv, CacheFresh, Numbered, Acked, Untouched, GateOpen
<1>3. Delivered' /\ ReadOnlyWhenOff'
  BY DEF IInv, Delivered, Reaches, Holds, Runs, RunsText, ReadOnlyWhenOff, Contains
<1>4. QED
  BY <1>1, <1>2, <1>3 DEF IInv, TypeOK

(* applyEmergencyConfig returns an error. *)
LEMMA ErrorIInv ==
    ASSUME IInv, NEW h \in Clients, pc[h] # "idle", Answer(h, FALSE), faults' \in 0..MaxFaults,
           UNCHANGED <<cmVars, podVars, serverVars, cmd, copy, fresh>>
    PROVE  IInv'
<1> USE DEF Answer, Goto
<1>1. HandlersOK' /\ CopyFresh'
  BY DEF IInv, TypeOK, HandlersOK, CopyFresh, cmVars
<1>2. \A i \in Command : Succeeded(i)' => Succeeded(i)
  BY DEF IInv, TypeOK, HandlersOK, Succeeded, serverVars, Command
<1>3. QED
  BY <1>1, <1>2, LocalIInv

LEMMA CallFailsIInv == ASSUME IInv, NEW h \in Clients, CallFails(h) PROVE IInv'
  BY ErrorIInv, SpendType DEF CallFails, IInv, TypeOK

LEMMA DiscoverWorkloadIInv == ASSUME IInv, NEW h \in Clients, DiscoverWorkload(h) PROVE IInv'
<1> USE DEF DiscoverWorkload
<1>1. faults' \in 0..MaxFaults
  BY DEF IInv, TypeOK
<1>2. CASE Captured[h].workload \in workloads
  <2>1. HandlersOK' /\ CopyFresh'
    BY <1>2 DEF IInv, TypeOK, HandlersOK, CopyFresh, Goto, cmVars
  <2>2. \A i \in Command : Succeeded(i)' => Succeeded(i)
    BY <1>2 DEF IInv, TypeOK, HandlersOK, Succeeded, serverVars, Command, Goto
  <2>3. QED
    BY <1>1, <2>1, <2>2, LocalIInv
<1>3. CASE Captured[h].workload \notin workloads
  BY <1>1, <1>3, ErrorIInv
<1>4. QED
  BY <1>2, <1>3

LEMMA GetConfigMapIInv == ASSUME IInv, NEW h \in Clients, GetConfigMap(h) PROVE IInv'
<1> DEFINE c == Captured[h].cm
<1> USE DEF GetConfigMap, WithOverride
<1>1. faults' \in 0..MaxFaults
  BY DEF IInv, TypeOK
<1>2. CASE cached[c] = None
  BY <1>1, <1>2, ErrorIInv DEF serverVars
<1>3. CASE cached[c] # None /\ IsNil(cached[c])
  BY <1>1, <1>3, DieIInv
<1>4. CASE cached[c] # None /\ ~IsNil(cached[c])
  <2>1. /\ copy' = [copy EXCEPT ![h] = [cached[c] EXCEPT ![Captured[h].key] = cmd[h]]]
        /\ fresh' = [fresh EXCEPT ![h] = c \in inSync]
        /\ pc' = [pc EXCEPT ![h] = "update"]
        /\ pc[h] = "get"
        /\ UNCHANGED <<cmVars, podVars, serverVars, cmd, ok>>
    BY <1>4 DEF Goto, serverVars
  <2>2. c \in ConfigMaps /\ Captured[h].key \in Keys /\ cached[c] \in Data
    BY <1>4, CapturedAssumption DEF IInv, TypeOK, ConfigMapsOK
  <2>3. cmd[h] \in Content
    BY <2>1 DEF IInv, TypeOK, HandlersOK, Content
  <2>4. [cached[c] EXCEPT ![Captured[h].key] = cmd[h]] \in Data
    BY <2>2, <2>3 DEF Data
  <2>5. (c \in inSync) \in BOOLEAN
    OBVIOUS
  <2>6. HandlersOK'
    BY <2>1, <2>4, <2>5 DEF IInv, TypeOK, HandlersOK
  <2>7. CopyFresh'
    <3> SUFFICES ASSUME NEW g \in Clients, fresh'[g], pc'[g] = "update"
                 PROVE  /\ data[Captured[g].cm] # None
                        /\ copy'[g] = [data[Captured[g].cm] EXCEPT ![Captured[g].key] = cmd[g]]
      BY <2>1 DEF CopyFresh, cmVars
    <3>1. CASE g = h
      <4>1. c \in inSync
        BY <2>1, <3>1 DEF IInv, TypeOK, HandlersOK
      <4>2. cached[c] = data[c]
        BY <4>1 DEF IInv, CacheFresh
      <4>3. QED
        BY <1>4, <2>1, <3>1, <4>2 DEF IInv, TypeOK, HandlersOK
    <3>2. CASE g # h
      BY <2>1, <3>2 DEF IInv, TypeOK, HandlersOK, CopyFresh
    <3>3. QED
      BY <3>1, <3>2
  <2>8. \A i \in Command : Succeeded(i)' => Succeeded(i)
    BY <2>1 DEF IInv, TypeOK, HandlersOK, Succeeded, serverVars, Command
  <2>9. QED
    BY <1>1, <2>1, <2>6, <2>7, <2>8, LocalIInv
<1>5. QED
  BY <1>2, <1>3, <1>4

(* The rest of a queue is the queue without its first element. *)
LEMMA TailLemma ==
    ASSUME NEW S, NEW s \in Seq(S), s # <<>>, NEW p \in 1..Len(Tail(s))
    PROVE  Tail(s)[p] = s[p + 1] /\ p + 1 \in 1..Len(s) /\ p + 1 # 1
<1>1. Len(s) \in Nat /\ Len(Tail(s)) = Len(s) - 1
  OBVIOUS
<1>2. p \in Nat /\ p # 0 /\ p <= Len(s) - 1
  BY <1>1
<1>3. QED
  BY <1>1, <1>2

(* The head of an inbox is a command for this client that nobody has seen. *)
LEMMA ReceiveIInv == ASSUME IInv, NEW h \in Clients, Receive(h) PROVE IInv'
<1> DEFINE i == Head(inbox[h])
<1> USE DEF Receive, Goto, cmVars, podVars
<1>1. inbox[h] \in Seq(Command) /\ inbox[h] # <<>>
  BY DEF IInv, TypeOK, ServerOK
<1>2. /\ Len(inbox[h]) \in Nat /\ 1 \in 1..Len(inbox[h])
      /\ i = inbox[h][1] /\ i \in Command
      /\ inbox'[h] = Tail(inbox[h])
      /\ Tail(inbox[h]) \in Seq(Command)
      /\ Len(Tail(inbox[h])) = Len(inbox[h]) - 1
      /\ \A p \in 1..Len(Tail(inbox[h])) :
            p + 1 \in 1..Len(inbox[h]) /\ Tail(inbox[h])[p] = inbox[h][p + 1]
  BY <1>1 DEF IInv, TypeOK, ServerOK
<1>3. i.to = h /\ i.n <= sent /\ ~Acked(i) /\ i # None
  BY <1>2, SentinelAssumption DEF IInv, Numbered, Content
<1>4. \A g \in Clients \ {h} : inbox'[g] = inbox[g] /\ cmd'[g] = cmd[g]
  BY DEF IInv, TypeOK, ServerOK, HandlersOK
<1>5. cmd[h] = None /\ cmd'[h] \in {None, i} /\ (~GateOpen(h) => cmd'[h] = None)
  BY DEF IInv, TypeOK, HandlersOK
<1>6. ConfigMapsOK' /\ PodsOK' /\ faults' \in 0..MaxFaults
  BY DEF IInv, TypeOK, ConfigMapsOK, PodsOK
<1>7. ServerOK'
  BY <1>2 DEF IInv, TypeOK, ServerOK
<1>8. HandlersOK'
  <2>1. UNCHANGED <<copy, fresh, ok>>
    OBVIOUS
  <2>2. HandlersOK
    BY DEF IInv, TypeOK
  <2>3. CASE GateOpen(h)
    <3>1. pc' = [pc EXCEPT ![h] = "get"] /\ cmd' = [cmd EXCEPT ![h] = i]
      BY <2>3
    <3> HIDE DEF Receive, Goto, cmVars, podVars, i
    <3>2. QED
      BY <1>2, <1>3, <2>1, <2>2, <3>1 DEF HandlersOK
  <2>4. CASE ~GateOpen(h)
    BY <2>1, <2>2, <2>4 DEF HandlersOK
  <2>5. QED
    BY <2>3, <2>4
<1>9. CacheFresh' /\ CopyFresh'
  BY DEF IInv, TypeOK, HandlersOK, CacheFresh, CopyFresh
<1>10. Untouched'
  BY <1>4, <1>5 DEF IInv, Untouched, GateOpen
<1>11. ReadOnlyWhenOff'
  BY DEF IInv, ReadOnlyWhenOff, Contains
<1>12. Delivered'
  BY DEF IInv, TypeOK, HandlersOK, Delivered, Succeeded, Reaches, Holds, Runs, RunsText, Command
<1>13. Numbered'
  <2>1. \A g \in Clients : cmd'[g] # None => cmd'[g].n <= sent' /\ ~Acked(cmd[g])'
    BY <1>3, <1>4, <1>5 DEF IInv, Numbered, Acked
  <2>2. \A p \in 1..Len(inbox'[h]) :
            /\ inbox'[h][p].to = h
            /\ inbox'[h][p].n <= sent'
            /\ inbox'[h][p] # i
            /\ inbox'[h][p] # None
            /\ ~Acked(inbox[h][p])'
    <3> SUFFICES ASSUME NEW p \in 1..Len(inbox'[h])
                 PROVE  /\ inbox'[h][p].to = h
                        /\ inbox'[h][p].n <= sent'
                        /\ inbox'[h][p] # i
                        /\ inbox'[h][p] # None
                        /\ ~Acked(inbox[h][p])'
      OBVIOUS
    <3>1. inbox'[h][p] = inbox[h][p + 1] /\ p + 1 \in 1..Len(inbox[h]) /\ p + 1 # 1
      <4> HIDE DEF Receive
      <4>1. p \in 1..Len(Tail(inbox[h])) /\ inbox'[h] = Tail(inbox[h])
        BY <1>2
      <4>2. QED
        BY <1>1, <4>1, TailLemma
    <3>2. inbox[h][p + 1] \in Command
      BY <1>1, <3>1
    <3>3. /\ inbox[h][p + 1].to = h
          /\ inbox[h][p + 1].n <= sent
          /\ ~Acked(inbox[h][p + 1])
      BY <3>1 DEF IInv, Numbered
    <3>4. inbox[h][p + 1] # inbox[h][1]
      BY <1>2, <3>1 DEF IInv, Numbered
    <3>5. inbox[h][p + 1] # None
      BY <3>2, SentinelAssumption DEF Content
    <3>6. sent' = sent /\ UNCHANGED <<acks, refused>>
      OBVIOUS
    <3>7. ~Acked(inbox[h][p])'
      BY <3>1, <3>3, <3>6 DEF Acked
    <3>8. QED
      BY <1>2, <3>1, <3>3, <3>4, <3>5, <3>6, <3>7
  <2>3. \A p, q \in 1..Len(inbox'[h]) : p # q => inbox'[h][p] # inbox'[h][q]
    BY <1>2 DEF IInv, Numbered
  <2>4. /\ sent' = sent
        /\ \A a \in Answers' : a.cmd.n <= sent'
    BY DEF IInv, Numbered
  <2>5. \A g \in Clients : \A p \in 1..Len(inbox'[g]) :
            /\ inbox'[g][p].to = g
            /\ inbox'[g][p].n <= sent'
            /\ inbox'[g][p] # cmd'[g]
            /\ ~Acked(inbox[g][p])'
    <3> SUFFICES ASSUME NEW g \in Clients, NEW p \in 1..Len(inbox'[g])
                 PROVE  /\ inbox'[g][p].to = g
                        /\ inbox'[g][p].n <= sent'
                        /\ inbox'[g][p] # cmd'[g]
                        /\ ~Acked(inbox[g][p])'
      OBVIOUS
    <3>1. CASE g = h
      BY <1>5, <2>2, <3>1
    <3>2. CASE g # h
      BY <1>4, <2>4, <3>2 DEF IInv, Numbered, Acked
    <3>3. QED
      BY <3>1, <3>2
  <2>6. \A g \in Clients : \A p, q \in 1..Len(inbox'[g]) :
            p # q => inbox'[g][p] # inbox'[g][q]
    BY <1>4, <2>3 DEF IInv, Numbered
  <2>7. QED
    BY <2>1, <2>4, <2>5, <2>6 DEF Numbered
<1>14. QED
  BY <1>6, <1>7, <1>8, <1>9, <1>10, <1>11, <1>12, <1>13 DEF IInv, TypeOK

(* An accepted update puts the command's text under one key and leaves the rest
   of the ConfigMap as it is, so only this command can come to be held there. *)
LEMMA AcceptedWriteIInv ==
    ASSUME IInv, NEW h \in Clients, pc[h] = "update", Accepted(h),
           WriteConfigMap(Captured[h].cm, copy[h]),
           \A g \in Clients : pc'[g] = "update" => pc[g] = "update",
           HandlersOK', faults' \in 0..MaxFaults,
           \A i \in Command : Succeeded(i)' => Succeeded(i),
           UNCHANGED <<podVars, serverVars, cmd, copy>>
    PROVE  IInv'
<1> DEFINE c == Captured[h].cm
           k == Captured[h].key
           i == cmd[h]
<1>1. c \in ConfigMaps /\ k \in Keys /\ Captured[h] \in [emergency : {"on", "off", "unset"},
          cm : ConfigMaps, key : Keys, workload : Workloads]
  BY CapturedAssumption
<1>2. i \in Command /\ i.to = h /\ ~Acked(i)
  BY DEF IInv, TypeOK, HandlersOK, Numbered
<1>3. data[c] # None /\ copy[h] = [data[c] EXCEPT ![k] = i]
  BY DEF IInv, CopyFresh, Accepted
<1>4. data[c] \in Data
  BY <1>1, <1>3 DEF IInv, TypeOK, ConfigMapsOK
<1>5. copy[h] \in Data /\ copy[h] # None
  BY <1>1, <1>2, <1>3, <1>4, SentinelAssumption DEF Data, Content
<1>6. /\ data' = [data EXCEPT ![c] = copy[h]]
      /\ inSync' = inSync \ {c}
      /\ fresh' = [g \in Clients |-> fresh[g] /\ Captured[g].cm # c]
      /\ cached' = cached
  BY DEF WriteConfigMap
<1>7. data'[c] = copy[h] /\ \A e \in ConfigMaps \ {c} : data'[e] = data[e]
  BY <1>1, <1>6 DEF IInv, TypeOK, ConfigMapsOK
<1>8. \A l \in Keys \ {k} : data'[c][l] = data[c][l]
  BY <1>3, <1>4, <1>7 DEF Data
<1>9. data'[c][k] = i
  BY <1>1, <1>3, <1>4, <1>7 DEF Data
<1>10. ConfigMapsOK' /\ PodsOK' /\ ServerOK'
  BY <1>5, <1>6 DEF IInv, TypeOK, ConfigMapsOK, PodsOK, ServerOK, podVars, serverVars
<1>11. CacheFresh'
  BY <1>6, <1>7 DEF IInv, TypeOK, ConfigMapsOK, CacheFresh
<1>12. CopyFresh'
  <2> SUFFICES ASSUME NEW g \in Clients, fresh'[g], pc'[g] = "update"
               PROVE  /\ data'[Captured[g].cm] # None
                      /\ copy[g] = [data'[Captured[g].cm] EXCEPT ![Captured[g].key] = cmd[g]]
    BY DEF CopyFresh
  <2>1. fresh[g] /\ Captured[g].cm # c /\ pc[g] = "update"
    BY <1>6
  <2>2. Captured[g].cm \in ConfigMaps
    BY CapturedAssumption
  <2>3. data'[Captured[g].cm] = data[Captured[g].cm]
    BY <1>7, <2>1, <2>2
  <2>4. QED
    BY <2>1, <2>3 DEF IInv, CopyFresh
<1>13. Numbered' /\ Untouched'
  BY DEF IInv, Numbered, Acked, Untouched, GateOpen, podVars, serverVars
<1>14. ASSUME NEW j \in Command, j # i, Holds(Captured[j.to].cm, j)'
       PROVE  Holds(Captured[j.to].cm, j)
  <2>1. Captured[j.to].cm \in ConfigMaps /\ Captured[j.to].key \in Keys
    BY CapturedAssumption DEF Command
  <2>2. CASE Captured[j.to].cm # c
    BY <1>7, <1>14, <2>1, <2>2 DEF Holds
  <2>3. CASE Captured[j.to].cm = c
    BY <1>3, <1>8, <1>9, <1>14, <2>1, <2>3 DEF Holds
  <2>4. QED
    BY <2>2, <2>3
<1>15. Delivered'
  <2> SUFFICES ASSUME NEW j \in Command \ swallowed', Succeeded(j)'
               PROVE  Reaches(j)'
    BY DEF Delivered
  <2>1. Succeeded(j)
    OBVIOUS
  <2>2. j # i
    BY <1>2, <2>1 DEF Succeeded, Acked
  <2>3. Holds(Captured[j.to].cm, j)' => Holds(Captured[j.to].cm, j)
    BY <1>14, <2>2
  <2>4. QED
    BY <2>1, <2>3 DEF IInv, Delivered, Reaches, Runs, RunsText, podVars
<1>16. ReadOnlyWhenOff'
  <2> SUFFICES ASSUME NEW g \in Clients, Captured[g].emergency = "off",
                      NEW j \in Command, j.to = g
               PROVE  /\ \A e \in ConfigMaps : ~Contains(e, j)'
                      /\ \A a \in Answers' : a.cmd # j
    BY DEF ReadOnlyWhenOff
  <2>1. j # i
    BY <1>2, SentinelAssumption DEF IInv, Untouched, GateOpen, Content
  <2>2. /\ \A e \in ConfigMaps : ~Contains(e, j)
        /\ \A a \in Answers : a.cmd # j
    BY DEF IInv, ReadOnlyWhenOff
  <2>3. \A e \in ConfigMaps \ {c} : ~Contains(e, j)'
    BY <1>7, <2>2 DEF Contains
  <2>4. ~Contains(c, j)'
    BY <1>1, <1>3, <1>8, <1>9, <2>1, <2>2 DEF Contains
  <2>5. QED
    BY <2>2, <2>3, <2>4 DEF serverVars
<1>17. QED
  BY <1>10, <1>11, <1>12, <1>13, <1>15, <1>16 DEF IInv, TypeOK

LEMMA UpdateConfigMapIInv == ASSUME IInv, NEW h \in Clients, UpdateConfigMap(h) PROVE IInv'
<1>1. pc[h] = "update" /\ faults' \in 0..MaxFaults
  BY DEF UpdateConfigMap, IInv, TypeOK
<1>2. CASE Accepted(h)
  <2>1. /\ WriteConfigMap(Captured[h].cm, copy[h])
        /\ pc' = [pc EXCEPT ![h] = "discover"]
        /\ UNCHANGED <<podVars, serverVars, cmd, copy, ok>>
    BY <1>2 DEF UpdateConfigMap, AfterUpdate, Goto
  <2>2. HandlersOK'
    BY <1>1, <2>1 DEF IInv, TypeOK, HandlersOK, WriteConfigMap
  <2>3. \A i \in Command : Succeeded(i)' => Succeeded(i)
    BY <2>1 DEF IInv, TypeOK, HandlersOK, Succeeded, serverVars, Command
  <2>4. \A g \in Clients : pc'[g] = "update" => pc[g] = "update"
    BY <1>1, <2>1 DEF IInv, TypeOK, HandlersOK
  <2>5. QED
    BY <1>1, <1>2, <2>1, <2>2, <2>3, <2>4, AcceptedWriteIInv
<1>3. CASE ~Accepted(h)
  BY <1>1, <1>3, ErrorIInv DEF UpdateConfigMap
<1>4. QED
  BY <1>2, <1>3

LEMMA UpdateTimesOutIInv == ASSUME IInv, NEW h \in Clients, UpdateTimesOut(h) PROVE IInv'
<1> USE DEF UpdateTimesOut, Answer, Goto
<1>1. faults' \in 0..MaxFaults
  BY SpendType DEF IInv, TypeOK
<1>2. HandlersOK'
  BY DEF IInv, TypeOK, HandlersOK, WriteConfigMap
<1>3. \A i \in Command : Succeeded(i)' => Succeeded(i)
  BY DEF IInv, TypeOK, HandlersOK, Succeeded, serverVars, Command
<1>4. \A g \in Clients : pc'[g] = "update" => pc[g] = "update"
  BY DEF IInv, TypeOK, HandlersOK
<1>5. QED
  BY <1>1, <1>2, <1>3, <1>4, AcceptedWriteIInv

(* After a patch that succeeds the workload rolls, or the patch was swallowed by
   the annotation of this second. *)
LEMMA PatchWorkloadIInv == ASSUME IInv, NEW h \in Clients, PatchWorkload(h) PROVE IInv'
<1> DEFINE w == Captured[h].workload
<1>1. pc[h] = "patch" /\ faults' \in 0..MaxFaults
  BY DEF PatchWorkload, IInv, TypeOK
<1>2. CASE CanPatch /\ w \in workloads
  <2>1. /\ stamped' = stamped \cup {w}
        /\ rolling' = IF w \in stamped THEN rolling ELSE rolling \cup {w}
        /\ pc' = [pc EXCEPT ![h] = "ack"]
        /\ ok' = [ok EXCEPT ![h] = TRUE]
        /\ swallowed' = IF w \in stamped \ rolling THEN swallowed \cup {cmd[h]} ELSE swallowed
        /\ UNCHANGED <<data, cached, inSync, workloads, pods, inbox, sent, acks, refused, lost,
                       cmd, copy, fresh, faults>>
    BY <1>2 DEF PatchWorkload, Annotate, Answer, Goto, cmVars, serverVars
  <2>2. w \in Workloads
    BY CapturedAssumption
  <2>3. /\ rolling \subseteq rolling' /\ swallowed \subseteq swallowed'
        /\ w \in rolling' \/ cmd[h] \in swallowed'
        /\ cmd[h] \in Command
    BY <1>1, <2>1 DEF IInv, TypeOK, HandlersOK
  <2>4. ConfigMapsOK' /\ PodsOK' /\ ServerOK'
    BY <2>1, <2>2, <2>3 DEF IInv, TypeOK, ConfigMapsOK, PodsOK, ServerOK
  <2>5. HandlersOK'
    BY <1>1, <2>1 DEF IInv, TypeOK, HandlersOK
  <2>6. CacheFresh' /\ CopyFresh'
    BY <2>1 DEF IInv, TypeOK, HandlersOK, CacheFresh, CopyFresh
  <2>8. Numbered' /\ Untouched' /\ ReadOnlyWhenOff'
    BY <2>1 DEF IInv, Numbered, Acked, Untouched, GateOpen, ReadOnlyWhenOff, Contains
  <2>9. Delivered'
    <3> SUFFICES ASSUME NEW j \in Command \ swallowed', Succeeded(j)'
                 PROVE  Reaches(j)'
      BY DEF Delivered
    <3>1. CASE j.to = h /\ cmd[h] = j
      BY <2>3, <3>1 DEF Reaches
    <3>2. CASE ~(j.to = h /\ cmd[h] = j)
      <4>1. Succeeded(j)
        BY <2>1, <3>2 DEF IInv, TypeOK, HandlersOK, Succeeded, Command
      <4>2. QED
        BY <2>1, <2>3, <4>1 DEF IInv, Delivered, Reaches, Holds, Runs, RunsText
    <3>3. QED
      BY <3>1, <3>2
  <2>10. QED
    BY <1>1, <2>4, <2>5, <2>6, <2>8, <2>9 DEF IInv, TypeOK
<1>3. CASE ~(CanPatch /\ w \in workloads)
  BY <1>1, <1>3, ErrorIInv DEF PatchWorkload, podVars
<1>4. QED
  BY <1>2, <1>3

(* An answered command is not in any inbox and is not being handled. *)
LEMMA SendEmergencyAckIInv == ASSUME IInv, NEW h \in Clients, SendEmergencyAck(h) PROVE IInv'
<1> DEFINE i == cmd[h]
<1>1. /\ pc[h] = "ack"
      /\ Answers' = Answers \cup {[cmd |-> i, ok |-> ok[h]]}
      /\ acks' \subseteq Answers' /\ refused' \subseteq Answers'
      /\ pc' = [pc EXCEPT ![h] = "idle"]
      /\ cmd' = [cmd EXCEPT ![h] = None]
      /\ copy' = [copy EXCEPT ![h] = None]
      /\ fresh' = [fresh EXCEPT ![h] = FALSE]
      /\ ok' = [ok EXCEPT ![h] = FALSE]
      /\ UNCHANGED <<data, cached, inSync, workloads, pods, stamped, rolling, swallowed,
                     inbox, sent, lost, faults>>
  BY DEF SendEmergencyAck, AckOf, Goto, cmVars, podVars
<1>2. i \in Command /\ i.to = h /\ i # None /\ GateOpen(h) /\ i.n <= sent
  BY <1>1, SentinelAssumption DEF IInv, TypeOK, HandlersOK, Untouched, Numbered, Content
<1>3. /\ cmd'[h] = None
      /\ \A g \in Clients \ {h} : cmd'[g] = cmd[g] /\ pc'[g] = pc[g] /\ ok'[g] = ok[g]
  BY <1>1 DEF IInv, TypeOK, HandlersOK
<1>4. ConfigMapsOK' /\ PodsOK' /\ faults' \in 0..MaxFaults
  BY <1>1 DEF IInv, TypeOK, ConfigMapsOK, PodsOK
<1>5. ServerOK'
  <2>1. [cmd |-> i, ok |-> ok[h]] \in Ack
    BY <1>2 DEF IInv, TypeOK, HandlersOK, Ack
  <2>2. QED
    BY <1>1, <2>1 DEF IInv, TypeOK, ServerOK
<1>6. HandlersOK'
  BY <1>1 DEF IInv, TypeOK, HandlersOK
<1>7. CacheFresh'
  BY <1>1 DEF IInv, CacheFresh
<1>8. CopyFresh' /\ Untouched'
  BY <1>1 DEF IInv, TypeOK, HandlersOK, CopyFresh, Untouched, GateOpen
<1>9. Numbered'
  <2>1. \A j : Acked(j)' => Acked(j) \/ j = i
    BY <1>1 DEF Acked
  <2>2. \A g \in Clients : cmd'[g] # None => cmd'[g].n <= sent' /\ ~Acked(cmd[g])'
    <3> SUFFICES ASSUME NEW g \in Clients, cmd'[g] # None
                 PROVE  cmd'[g].n <= sent' /\ ~Acked(cmd[g])'
      OBVIOUS
    <3>1. g # h /\ cmd'[g] = cmd[g] /\ cmd[g].to = g
      BY <1>3 DEF IInv, TypeOK, HandlersOK
    <3>2. cmd[g] # i
      BY <1>2, <3>1
    <3>3. QED
      BY <1>1, <2>1, <3>1, <3>2 DEF IInv, Numbered
  <2>3. \A g \in Clients : \A p \in 1..Len(inbox'[g]) :
            /\ inbox'[g][p].to = g
            /\ inbox'[g][p].n <= sent'
            /\ inbox'[g][p] # cmd'[g]
            /\ ~Acked(inbox[g][p])'
    <3> SUFFICES ASSUME NEW g \in Clients, NEW p \in 1..Len(inbox[g])
                 PROVE  /\ inbox[g][p].to = g
                        /\ inbox[g][p].n <= sent
                        /\ inbox[g][p] # cmd'[g]
                        /\ ~Acked(inbox[g][p])'
      BY <1>1
    <3>1. /\ inbox[g][p] \in Command
          /\ inbox[g][p].to = g
          /\ inbox[g][p].n <= sent
          /\ inbox[g][p] # cmd[g]
          /\ ~Acked(inbox[g][p])
      BY DEF IInv, TypeOK, ServerOK, Numbered
    <3>2. inbox[g][p] # i /\ inbox[g][p] # None
      BY <1>2, <3>1, SentinelAssumption DEF Content
    <3>3. ~Acked(inbox[g][p])'
      BY <1>1, <2>1, <3>1, <3>2
    <3>4. QED
      BY <1>3, <3>1, <3>2, <3>3
  <2>4. \A a \in Answers' : a.cmd.n <= sent'
    BY <1>1, <1>2 DEF IInv, Numbered
  <2>5. \A g \in Clients : \A p, q \in 1..Len(inbox'[g]) :
            p # q => inbox'[g][p] # inbox'[g][q]
    BY <1>1 DEF IInv, Numbered
  <2>6. QED
    BY <2>2, <2>3, <2>4, <2>5 DEF Numbered
<1>10. Delivered'
  <2> SUFFICES ASSUME NEW j \in Command \ swallowed', Succeeded(j)'
               PROVE  Reaches(j)'
    BY DEF Delivered
  <2>1. Succeeded(j)
    BY <1>1, <1>2, <1>3 DEF IInv, TypeOK, HandlersOK, Succeeded, Command
  <2>2. QED
    BY <1>1, <2>1 DEF IInv, Delivered, Reaches, Holds, Runs, RunsText
<1>11. ReadOnlyWhenOff'
  BY <1>1, <1>2 DEF IInv, ReadOnlyWhenOff, Contains, GateOpen
<1>12. QED
  BY <1>4, <1>5, <1>6, <1>7, <1>8, <1>9, <1>10, <1>11 DEF IInv, TypeOK
-----------------------------------------------------------------------------
LEMMA StutterIInv == ASSUME IInv, UNCHANGED vars PROVE IInv'
<1> USE DEF vars, cmVars, podVars, serverVars, handlerVars
<1>1. TypeOK'
  BY DEF IInv, TypeOK, ConfigMapsOK, PodsOK, ServerOK, HandlersOK
<1>2. CacheFresh' /\ CopyFresh' /\ Numbered'
  BY DEF IInv, CacheFresh, CopyFresh, Numbered, Acked
<1>3. Delivered' /\ Untouched' /\ ReadOnlyWhenOff'
  BY DEF IInv, Delivered, Succeeded, Reaches, Holds, Runs, RunsText, Untouched, GateOpen,
         ReadOnlyWhenOff, Contains
<1>4. QED
  BY <1>1, <1>2, <1>3 DEF IInv

LEMMA NextIInv == ASSUME IInv, [Next]_vars PROVE IInv'
<1>1. ASSUME NEW h \in Clients, Handler(h) PROVE IInv'
  BY <1>1, ReceiveIInv, GetConfigMapIInv, UpdateConfigMapIInv, DiscoverWorkloadIInv,
     PatchWorkloadIInv, SendEmergencyAckIInv DEF Handler
<1>2. ASSUME NEW h \in Clients, Send(h) \/ Disconnect(h) \/ UpdateTimesOut(h) \/ CallFails(h)
      PROVE  IInv'
  BY <1>2, SendIInv, DisconnectIInv, UpdateTimesOutIInv, CallFailsIInv
<1>3. CASE Cluster
  BY <1>3, GitSyncIInv, DeleteConfigMapIInv, WatchIInv, DeleteWorkloadIInv,
     CreateWorkloadIInv, RolloutIInv, TickIInv DEF Cluster
<1>4. CASE Restart
  BY <1>4, RestartIInv
<1>5. CASE UNCHANGED vars
  BY <1>5, StutterIInv
<1>6. QED
  BY <1>1, <1>2, <1>3, <1>4, <1>5 DEF Next
-----------------------------------------------------------------------------
(* The strengthening is an invariant. *)
THEOREM InductiveInvariant == Safe => []IInv
<1>1. Init => IInv
  BY InitIInv
<1>2. IInv /\ [Next]_vars => IInv'
  BY NextIInv
<1>3. QED
  BY <1>1, <1>2, PTL DEF Safe

(* Type correctness: in particular a client works on a command exactly when it is
   not idle, and only on commands sent to it. *)
THEOREM TypeCorrect == Spec => []TypeOK
<1>1. IInv => TypeOK
  BY DEF IInv
<1>2. QED
  BY <1>1, InductiveInvariant, PTL DEF Spec

(* The strengthening says all that the two invariants say. *)
LEMMA IInvSuffices == IInv => AckedConfigReachesPods /\ ReadOnlyWhenOff
<1>1. ASSUME IInv, NEW a \in Answers, a.ok, a.cmd \notin swallowed PROVE Reaches(a.cmd)
  <2>1. a.cmd \in Command
    BY <1>1 DEF IInv, TypeOK, ServerOK, Ack
  <2>2. QED
    BY <1>1, <2>1 DEF IInv, Delivered, Succeeded
<1>2. QED
  BY <1>1 DEF IInv, AckedConfigReachesPods, Reaches

(* A command answered with success reaches the pods, whatever fails, conflicts,
   is deleted or dies in between: SendEmergencyAck(true) is never a lie. *)
THEOREM AnswersAreTrue == Spec => []AckedConfigReachesPods
  BY IInvSuffices, InductiveInvariant, PTL DEF Spec

(* A client whose captured emergencyMode is false never writes a ConfigMap and
   answers nothing, whatever it is sent. *)
THEOREM OffIsReadOnly == Spec => []ReadOnlyWhenOff
  BY IInvSuffices, InductiveInvariant, PTL DEF Spec

(* Only the update changes what is under update's feet, and it writes what it has
   read, but for one key. *)
LEMMA OneKeyAlways == Safe => NoLostUpdate
<1> DEFINE Keeps(h) ==
             LET c == Captured[h].cm
             IN  pc[h] = "update" /\ pc'[h] # "update" /\ data'[c] # data[c] =>
                     /\ data[c] # None
                     /\ \A k \in Keys \ {Captured[h].key} : data'[c][k] = data[c][k]
<1>1. IInv /\ IInv' /\ [Next]_vars => [\A h \in Clients : Keeps(h)]_vars
  <2> SUFFICES ASSUME IInv, Next, NEW h \in Clients, pc[h] = "update", pc'[h] # "update",
                      data'[Captured[h].cm] # data[Captured[h].cm]
               PROVE  /\ data[Captured[h].cm] # None
                      /\ \A k \in Keys \ {Captured[h].key} :
                            data'[Captured[h].cm][k] = data[Captured[h].cm][k]
    BY DEF Keeps
  <2>1. UpdateConfigMap(h) \/ UpdateTimesOut(h)
    <3>1. pc \in [Clients -> {"idle", "get", "update", "discover", "patch", "ack"}]
      BY DEF IInv, TypeOK, HandlersOK
    <3>2. data' # data
      OBVIOUS
    <3>3. ASSUME NEW g \in Clients, Handler(g) PROVE UpdateConfigMap(h)
      <4>1. UpdateConfigMap(g)
        BY <3>1, <3>2, <3>3 DEF Handler, Receive, GetConfigMap, Die, DiscoverWorkload, PatchWorkload,
           SendEmergencyAck, cmVars
      <4>2. g = h
        BY <3>1, <4>1 DEF UpdateConfigMap, AfterUpdate, Answer, Goto
      <4> QED
        BY <4>1, <4>2
    <3>4. ASSUME NEW g \in Clients, Send(g) \/ Disconnect(g) \/ UpdateTimesOut(g) \/ CallFails(g)
          PROVE  UpdateTimesOut(h)
      <4>1. UpdateTimesOut(g)
        BY <3>2, <3>4 DEF Send, Disconnect, CallFails, cmVars
      <4>2. g = h
        BY <3>1, <4>1 DEF UpdateTimesOut, Answer, Goto
      <4> QED
        BY <4>1, <4>2
    <3>5. CASE Cluster
      BY <3>5 DEF Cluster, GitSync, DeleteConfigMap, Watch, DeleteWorkload, CreateWorkload, Rollout,
         Tick, handlerVars
    <3>6. CASE Restart
      BY <3>2, <3>6 DEF Restart, Die
    <3> QED
      BY <3>3, <3>4, <3>5, <3>6 DEF Next
  <2>2. Accepted(h) /\ WriteConfigMap(Captured[h].cm, copy[h])
    BY <2>1 DEF UpdateConfigMap, UpdateTimesOut, cmVars
  <2>3. /\ Captured[h].cm \in ConfigMaps
        /\ data[Captured[h].cm] # None
        /\ copy[h] = [data[Captured[h].cm] EXCEPT ![Captured[h].key] = cmd[h]]
    BY <2>2, CapturedAssumption DEF IInv, CopyFresh, Accepted
  <2>4. data[Captured[h].cm] \in Data /\ data'[Captured[h].cm] = copy[h]
    BY <2>2, <2>3 DEF WriteConfigMap, IInv, TypeOK, ConfigMapsOK
  <2>5. QED
    BY <2>3, <2>4 DEF Data
<1>2. QED
  BY <1>1, InductiveInvariant, PTL DEF Safe, NoLostUpdate, Keeps

(* An override never undoes what others wrote: the optimistic lock of the API
   server makes the read of a stale cache harmless. *)
THEOREM OverridesOneKey == Spec => NoLostUpdate
  BY OneKeyAlways, PTL DEF Spec
-----------------------------------------------------------------------------
(* A command that was lost is not on its way any more and none with its number
   will be sent. *)
LostForGood ==
    \A i \in lost :
        /\ i.n <= sent
        /\ \A h \in Clients : \A p \in 1..Len(inbox[h]) : inbox[h][p] # i

OnceInv == OneOutcome /\ LostForGood

LEMMA InitOnce == Init => OnceInv
  BY SentinelAssumption DEF Init, OnceInv, OneOutcome, LostForGood

(* A step that neither hands out, answers nor loses a command. *)
LEMMA SameCommandsOnce ==
    ASSUME OnceInv, UNCHANGED <<cmd, acks, refused, lost, inbox, sent>>
    PROVE  OnceInv'
  BY DEF OnceInv, OneOutcome, LostForGood

LEMMA SendOnce == ASSUME IInv, OnceInv, NEW h \in Clients, Send(h) PROVE OnceInv'
<1> DEFINE i == [to |-> h, n |-> sent + 1]
<1>1. /\ sent \in Nat /\ sent' = sent + 1 /\ i.n = sent + 1
      /\ inbox' = [inbox EXCEPT ![h] = Append(@, i)]
      /\ UNCHANGED <<cmd, acks, refused, lost>>
  BY BoundsAssumption DEF Send, handlerVars, IInv, TypeOK, ServerOK
<1>2. \A j \in lost : j.n \in Nat /\ j.n <= sent
  BY DEF IInv, TypeOK, ServerOK, Command, OnceInv, LostForGood
<1>3. \A j \in lost : j.n <= sent' /\ j # i
  BY <1>1, <1>2
<1>4. \A g \in Clients : \A p \in 1..Len(inbox'[g]) :
          inbox'[g][p] = i \/ (p \in 1..Len(inbox[g]) /\ inbox'[g][p] = inbox[g][p])
  <2>1. inbox \in [Clients -> Seq(Command)] /\ i \in Command
    <3>1. sent < MaxCommands
      BY DEF Send
    <3>2. sent + 1 \in 1..MaxCommands
      BY <1>1, <3>1, BoundsAssumption
    <3>3. QED
      BY <3>2 DEF IInv, TypeOK, ServerOK, Command
  <2>2. /\ Len(inbox'[h]) = Len(inbox[h]) + 1
        /\ Len(inbox[h]) \in Nat
        /\ inbox'[h][Len(inbox[h]) + 1] = i
        /\ \A p \in 1..Len(inbox[h]) : inbox'[h][p] = inbox[h][p]
    BY <1>1, <2>1
  <2>3. QED
    BY <1>1, <2>1, <2>2
<1>5. QED
  BY <1>1, <1>3, <1>4 DEF OnceInv, OneOutcome, LostForGood

LEMMA DisconnectOnce == ASSUME IInv, OnceInv, NEW h \in Clients, Disconnect(h) PROVE OnceInv'
<1>1. \A g \in Clients : inbox'[g] = inbox[g] \/ Len(inbox'[g]) = 0
  BY DEF Disconnect, IInv, TypeOK, ServerOK
<1>2. UNCHANGED <<cmd, acks, refused, lost, sent>>
  BY DEF Disconnect, handlerVars
<1>3. QED
  BY <1>1, <1>2 DEF OnceInv, OneOutcome, LostForGood

LEMMA DieOnce == ASSUME IInv, OnceInv, Die PROVE OnceInv'
<1>1. \A i \in lost' : i \in Command /\ (i \in lost \/ \E h \in Clients : cmd[h] # None /\ i = cmd[h])
  BY DEF Die, IInv, TypeOK, ServerOK, HandlersOK
<1>2. /\ cmd' = [h \in Clients |-> None] /\ inbox' = [h \in Clients |-> <<>>]
      /\ UNCHANGED <<acks, refused, sent>>
  BY DEF Die
<1>3. \A i \in lost' : i.n <= sent
  BY <1>1 DEF IInv, Numbered, OnceInv, LostForGood
<1>4. \A i \in lost' : ~Acked(i)
  BY <1>1 DEF IInv, Numbered, OnceInv, OneOutcome, Acked
<1>5. \A i \in Command : i.to \in Clients /\ i # None
  BY SentinelAssumption DEF Command, Content
<1>6. \A a \in Answers : a.cmd \in Command
  BY DEF IInv, TypeOK, ServerOK, Ack
<1>7. OneOutcome'
  BY <1>1, <1>2, <1>4, <1>5, <1>6 DEF OnceInv, OneOutcome, Acked
<1>8. LostForGood'
  BY <1>2, <1>3 DEF LostForGood
<1>9. QED
  BY <1>7, <1>8 DEF OnceInv

LEMMA ReceiveOnce == ASSUME IInv, OnceInv, NEW h \in Clients, Receive(h) PROVE OnceInv'
<1> DEFINE i == Head(inbox[h])
<1>1. /\ inbox[h] \in Seq(Command) /\ inbox[h] # <<>>
      /\ inbox' = [inbox EXCEPT ![h] = Tail(inbox[h])]
      /\ UNCHANGED <<acks, refused, lost, sent>>
      /\ cmd' = [cmd EXCEPT ![h] = i] \/ cmd' = cmd
  BY DEF Receive, IInv, TypeOK, ServerOK
<1>2. i = inbox[h][1] /\ 1 \in 1..Len(inbox[h])
  BY <1>1
<1>3. ~Acked(i) /\ i \notin lost
  BY <1>2 DEF IInv, Numbered, OnceInv, LostForGood
<1>4. \A g \in Clients : cmd'[g] = cmd[g] \/ cmd'[g] = i
  BY <1>1 DEF IInv, TypeOK, HandlersOK
<1>5. OneOutcome'
  <2>1. \A a \in Answers : a.cmd.to \in Clients
    BY DEF IInv, TypeOK, ServerOK, Ack, Command
  <2>2. \A j \in lost : j.to \in Clients
    BY DEF IInv, TypeOK, ServerOK, Command
  <2>3. QED
    BY <1>1, <1>3, <1>4, <2>1, <2>2 DEF OnceInv, OneOutcome, Acked
<1>6. \A p \in 1..Len(Tail(inbox[h])) :
          Tail(inbox[h])[p] = inbox[h][p + 1] /\ p + 1 \in 1..Len(inbox[h])
  BY <1>1, TailLemma
<1>7. LostForGood'
  BY <1>1, <1>6 DEF IInv, TypeOK, ServerOK, OnceInv, LostForGood
<1>8. QED
  BY <1>5, <1>7 DEF OnceInv

LEMMA SendEmergencyAckOnce ==
    ASSUME IInv, OnceInv, NEW h \in Clients, SendEmergencyAck(h)
    PROVE  OnceInv'
<1> DEFINE i == cmd[h]
<1>1. /\ Answers' = Answers \cup {[cmd |-> i, ok |-> ok[h]]}
      /\ \/ acks' = acks \cup {[cmd |-> i, ok |-> ok[h]]} /\ refused' = refused
         \/ refused' = refused \cup {[cmd |-> i, ok |-> ok[h]]} /\ acks' = acks
      /\ cmd' = [cmd EXCEPT ![h] = None]
      /\ UNCHANGED <<inbox, sent, lost>>
  BY DEF SendEmergencyAck, AckOf
<1>2. i \in Command /\ i.to = h /\ i # None /\ ~Acked(i)
  BY SentinelAssumption DEF SendEmergencyAck, IInv, TypeOK, HandlersOK, Numbered, Content
<1>3. i \notin lost
  BY <1>2 DEF OnceInv, OneOutcome
<1>4. cmd'[h] = None /\ \A g \in Clients \ {h} : cmd'[g] = cmd[g]
  BY <1>1 DEF IInv, TypeOK, HandlersOK
<1>5. /\ \A a \in Answers : a.cmd.to \in Clients /\ a.cmd # None
      /\ \A j \in lost : j.to \in Clients /\ j # None
  BY SentinelAssumption DEF IInv, TypeOK, ServerOK, Ack, Command, Content
<1>6. \A a, b \in Answers' : a.cmd = b.cmd => a = b
  BY <1>1, <1>2 DEF OnceInv, OneOutcome, Acked
<1>7. \A a \in Answers' : a.cmd \notin lost /\ cmd'[a.cmd.to] # a.cmd
  BY <1>1, <1>2, <1>3, <1>4, <1>5 DEF OnceInv, OneOutcome
<1>8. \A j \in lost : cmd'[j.to] # j
  BY <1>4, <1>5 DEF OnceInv, OneOutcome
<1>9. acks' \cap refused' = {}
  BY <1>1, <1>2 DEF OnceInv, OneOutcome, Acked
<1>10. QED
  BY <1>1, <1>6, <1>7, <1>8, <1>9 DEF OnceInv, OneOutcome, LostForGood

LEMMA NextOnce == ASSUME IInv, OnceInv, [Next]_vars PROVE OnceInv'
<1> USE DEF cmVars, podVars, serverVars, handlerVars
<1>1. ASSUME NEW h \in Clients, Handler(h) PROVE OnceInv'
  <2>1. CASE GetConfigMap(h)
    <3>1. CASE Die
      BY <3>1, DieOnce
    <3>2. CASE ~Die
      BY <2>1, <3>2, SameCommandsOnce DEF GetConfigMap
    <3>3. QED
      BY <3>1, <3>2
  <2>2. CASE UpdateConfigMap(h) \/ DiscoverWorkload(h) \/ PatchWorkload(h)
    BY <2>2, SameCommandsOnce DEF UpdateConfigMap, DiscoverWorkload, PatchWorkload
  <2>3. QED
    BY <1>1, <2>1, <2>2, ReceiveOnce, SendEmergencyAckOnce DEF Handler
<1>2. ASSUME NEW h \in Clients, Send(h) \/ Disconnect(h) \/ UpdateTimesOut(h) \/ CallFails(h)
      PROVE  OnceInv'
  BY <1>2, SendOnce, DisconnectOnce, SameCommandsOnce DEF UpdateTimesOut, CallFails
<1>3. CASE Cluster
  BY <1>3, SameCommandsOnce DEF Cluster, GitSync, DeleteConfigMap, Watch, DeleteWorkload,
     CreateWorkload, Rollout, Tick
<1>4. CASE Restart
  BY <1>4, DieOnce DEF Restart
<1>5. CASE UNCHANGED vars
  BY <1>5, SameCommandsOnce DEF vars
<1>6. QED
  BY <1>1, <1>2, <1>3, <1>4, <1>5 DEF Next

(* A command has one outcome, whatever is lost, fails or dies in between. *)
LEMMA OnceInvariant == Safe => []OnceInv
<1>1. IInv /\ OnceInv /\ [Next]_vars => OnceInv'
  BY NextOnce
<1>2. QED
  BY <1>1, InitOnce, InductiveInvariant, PTL DEF Safe

LEMMA OneOutcomeAlways == Safe => []OneOutcome
<1>1. OnceInv => OneOutcome
  BY DEF OnceInv
<1>2. QED
  BY <1>1, OnceInvariant, PTL

(* SendEmergencyAck is called once for a command that was let through, and never
   for one that was lost with the process: the server can take an answer for
   final. *)
THEOREM AnswersAreFinal == Spec => []OneOutcome
  BY OneOutcomeAlways, PTL DEF Spec
-----------------------------------------------------------------------------
(* The refinement of AtomicOverrides: every step is a step there or changes
   neither the ConfigMaps nor the stage of a command. *)

LEMMA StageSame ==
    ASSUME NEW i \in Command, cmd'[i.to] = cmd[i.to], pc'[i.to] = pc[i.to],
           ok'[i.to] = ok[i.to], UNCHANGED <<acks, refused, lost>>
    PROVE  Stage(i)' = Stage(i)
  BY DEF Stage, StageOf, Outcome

(* One command advances and the others stay where they are. *)
LEMMA AdvanceStep ==
    ASSUME NEW i \in Command, NEW from, NEW to, Stage(i) \in from, Stage(i)' = to,
           \A j \in Command \ {i} : Stage(j)' = Stage(j)
    PROVE  Atomic!Advance(i, from, to)
  BY DEF Atomic!Advance

(* A step of the handler of h that leaves answers and lost alone moves no command
   but the one h is working on. *)
LEMMA OthersStay ==
    ASSUME IInv, NEW h \in Clients, cmd[h] # None, UNCHANGED <<acks, refused, lost, cmd>>,
           \A g \in Clients \ {h} : pc'[g] = pc[g] /\ ok'[g] = ok[g]
    PROVE  \A j \in Command \ {cmd[h]} : Stage(j)' = Stage(j)
<1> SUFFICES ASSUME NEW j \in Command, j # cmd[h] PROVE Stage(j)' = Stage(j)
  OBVIOUS
<1>1. j.to \in Clients
  BY DEF Command
<1>2. CASE j.to = h
  BY <1>2 DEF Stage, Outcome
<1>3. CASE j.to # h
  BY <1>1, <1>3, StageSame
<1>4. QED
  BY <1>2, <1>3

(* The command h is working on is a command for h. *)
LEMMA InHand ==
    ASSUME IInv, NEW h \in Clients, pc[h] # "idle"
    PROVE  /\ cmd[h] \in Command /\ cmd[h].to = h /\ cmd[h] # None
           /\ Stage(cmd[h]) = StageOf(h)
<1>1. cmd[h] \in Command /\ cmd[h].to = h /\ cmd[h] # None
  BY DEF IInv, TypeOK, HandlersOK
<1>2. QED
  BY <1>1 DEF Stage

(* applyEmergencyConfig returns an error and has written nothing. *)
LEMMA ErrorStep ==
    ASSUME IInv, NEW h \in Clients, pc[h] \in {"get", "update", "discover", "patch"},
           Answer(h, FALSE), UNCHANGED <<data, cmd, acks, refused, lost>>
    PROVE  Atomic!Next
<1> DEFINE i == cmd[h]
<1>1. i \in Command /\ i.to = h /\ i # None /\ Stage(i) = StageOf(h)
  BY InHand
<1>2. /\ pc'[h] = "ack" /\ ok'[h] = FALSE
      /\ \A g \in Clients \ {h} : pc'[g] = pc[g] /\ ok'[g] = ok[g]
  BY DEF Answer, Goto, IInv, TypeOK, HandlersOK
<1>3. Stage(i) \in {"open", "written"}
  BY <1>1 DEF StageOf
<1>4. Stage(i)' = "failed"
  BY <1>1, <1>2 DEF Stage, StageOf
<1>5. Atomic!Advance(i, {"open", "written"}, "failed")
  BY <1>1, <1>2, <1>3, <1>4, OthersStay, AdvanceStep
<1>6. QED
  BY <1>1, <1>5 DEF Atomic!Next, Atomic!Fail

(* An accepted update is the override of one key, whatever the copy was read
   from. *)
LEMMA WriteStep ==
    ASSUME IInv, NEW h \in Clients, pc[h] = "update", Accepted(h),
           WriteConfigMap(Captured[h].cm, copy[h]),
           \/ AfterUpdate(h)
           \/ Answer(h, FALSE),
           UNCHANGED <<cmd, acks, refused, lost>>
    PROVE  Atomic!Next
<1> DEFINE i == cmd[h]
<1>1. i \in Command /\ i.to = h /\ i # None /\ Stage(i) = StageOf(h)
  BY InHand
<1>2. \A g \in Clients \ {h} : pc'[g] = pc[g] /\ ok'[g] = ok[g]
  BY DEF Answer, AfterUpdate, Goto, IInv, TypeOK, HandlersOK
<1>3. Stage(i) \in {"open"}
  BY <1>1 DEF StageOf
<1>4. ASSUME AfterUpdate(h) PROVE Atomic!Advance(i, {"open"}, "written")
  <2>1. pc'[h] = "discover"
    BY <1>4 DEF AfterUpdate, Goto, IInv, TypeOK, HandlersOK
  <2>2. Stage(i)' = "written"
    BY <1>1, <2>1 DEF Stage, StageOf
  <2>3. QED
    BY <1>1, <1>2, <1>3, <2>2, OthersStay, AdvanceStep
<1>5. ASSUME Answer(h, FALSE) PROVE Atomic!Advance(i, {"open"}, "failed")
  <2>1. pc'[h] = "ack" /\ ok'[h] = FALSE
    BY <1>5 DEF Answer, Goto, IInv, TypeOK, HandlersOK
  <2>2. Stage(i)' = "failed"
    BY <1>1, <2>1 DEF Stage, StageOf
  <2>3. QED
    BY <1>1, <1>2, <1>3, <2>2, OthersStay, AdvanceStep
<1>6. data[Captured[h].cm] # None
      /\ data' = [data EXCEPT ![Captured[h].cm] = [data[Captured[h].cm] EXCEPT ![Captured[h].key] = i]]
  BY DEF WriteConfigMap, IInv, CopyFresh, Accepted
<1>7. Captured[h].cm \in ConfigMaps /\ [j \in Command |-> Captured[j.to]][i] = Captured[h]
  BY <1>1, CapturedAssumption
<1>8. Atomic!Write(i)
  BY <1>4, <1>5, <1>6, <1>7 DEF Atomic!Write
<1>9. QED
  BY <1>1, <1>8 DEF Atomic!Next

(* The death of the process loses what was being handled and nothing else. *)
LEMMA DieStep == ASSUME IInv, Die PROVE Atomic!Next
<1>1. ASSUME NEW i \in Command
      PROVE  Stage(i)' = IF Stage(i) \in Atomic!Handled THEN "lost" ELSE Stage(i)
  <2>1. i.to \in Clients /\ i # None
    BY SentinelAssumption DEF Command, Content
  <2>2. cmd'[i.to] # i /\ UNCHANGED <<acks, refused>>
    BY <2>1 DEF Die
  <2>3. CASE cmd[i.to] = i
    <3>1. i \in lost'
      BY <2>1, <2>3 DEF Die
    <3>2. pc[i.to] \in {"get", "update", "discover", "patch", "ack"}
      BY <2>1, <2>3 DEF IInv, TypeOK, HandlersOK
    <3>3. Stage(i) \in Atomic!Handled
      BY <2>3, <3>2 DEF Stage, StageOf, Atomic!Handled
    <3>4. QED
      BY <2>2, <3>1, <3>3 DEF Stage, Outcome
  <2>4. CASE cmd[i.to] # i
    <3>1. i \in lost' <=> i \in lost
      <4>1. \A h \in Clients : cmd[h] # None => cmd[h].to = h
        BY DEF IInv, TypeOK, HandlersOK
      <4>2. QED
        BY <2>1, <2>4, <4>1 DEF Die
    <3>2. Stage(i)' = Stage(i)
      BY <2>2, <2>4, <3>1 DEF Stage, Outcome
    <3>3. Stage(i) \notin Atomic!Handled
      BY <2>4 DEF Stage, Outcome, Atomic!Handled
    <3>4. QED
      BY <3>2, <3>3
  <2>5. QED
    BY <2>3, <2>4
<1>2. data' = data
  BY DEF Die
<1>3. Atomic!Die
  BY <1>1, <1>2 DEF Atomic!Die
<1>4. QED
  BY <1>3 DEF Atomic!Next

LEMMA StageStutter ==
    ASSUME UNCHANGED <<data, pc, cmd, ok, acks, refused, lost>>
    PROVE  UNCHANGED Atomic!vars
  BY DEF Atomic!vars, Stage, StageOf, Outcome

(* Two places of the code that are one stage: nobody sees the step between. *)
LEMMA SameStage ==
    ASSUME IInv, NEW h \in Clients, pc[h] # "idle", StageOf(h)' = StageOf(h),
           \A g \in Clients \ {h} : pc'[g] = pc[g],
           UNCHANGED <<data, cmd, ok, acks, refused, lost>>
    PROVE  UNCHANGED Atomic!vars
<1>1. ASSUME NEW j \in Command PROVE Stage(j)' = Stage(j)
  <2>1. j.to \in Clients
    BY DEF Command
  <2>2. CASE j.to = h
    BY <2>2 DEF Stage, Outcome
  <2>3. CASE j.to # h
    BY <2>1, <2>3, StageSame
  <2>4. QED
    BY <2>2, <2>3
<1>2. QED
  BY <1>1 DEF Atomic!vars

LEMMA WithinOpen ==
    ASSUME IInv, NEW h \in Clients, pc[h] = "get", Goto(h, "update"),
           UNCHANGED <<data, cmd, ok, acks, refused, lost>>
    PROVE  UNCHANGED Atomic!vars
<1>1. pc'[h] = "update" /\ \A g \in Clients \ {h} : pc'[g] = pc[g]
  BY DEF Goto, IInv, TypeOK, HandlersOK
<1>2. StageOf(h) = "open" /\ StageOf(h)' = "open"
  BY <1>1 DEF StageOf
<1>3. QED
  BY <1>1, <1>2, SameStage

LEMMA WithinWritten ==
    ASSUME IInv, NEW h \in Clients, pc[h] = "discover", Goto(h, "patch"),
           UNCHANGED <<data, cmd, ok, acks, refused, lost>>
    PROVE  UNCHANGED Atomic!vars
<1>1. pc'[h] = "patch" /\ \A g \in Clients \ {h} : pc'[g] = pc[g]
  BY DEF Goto, IInv, TypeOK, HandlersOK
<1>2. StageOf(h) = "written" /\ StageOf(h)' = "written"
  BY <1>1 DEF StageOf
<1>3. QED
  BY <1>1, <1>2, SameStage

(* The patch that requests the restart. *)
LEMMA RestartStep ==
    ASSUME IInv, NEW h \in Clients, pc[h] = "patch", Answer(h, TRUE),
           UNCHANGED <<data, cmd, acks, refused, lost>>
    PROVE  Atomic!Next
<1> DEFINE i == cmd[h]
<1>1. i \in Command /\ i.to = h /\ i # None /\ Stage(i) = StageOf(h)
  BY InHand
<1>2. /\ pc'[h] = "ack" /\ ok'[h] = TRUE
      /\ \A g \in Clients \ {h} : pc'[g] = pc[g] /\ ok'[g] = ok[g]
  BY DEF Answer, Goto, IInv, TypeOK, HandlersOK
<1>3. Stage(i) \in {"written"}
  BY <1>1 DEF StageOf
<1>4. Stage(i)' = "restarted"
  BY <1>1, <1>2 DEF Stage, StageOf
<1>5. Atomic!Advance(i, {"written"}, "restarted")
  BY <1>1, <1>2, <1>3, <1>4, OthersStay, AdvanceStep
<1>6. QED
  BY <1>1, <1>5 DEF Atomic!Next, Atomic!RequestRestart

(* Others write the ConfigMap. *)
LEMMA ExternalStep ==
    ASSUME NEW c \in ConfigMaps, NEW d \in FromGit \cup {None},
           WriteConfigMap(c, d), UNCHANGED <<pc, cmd, ok, acks, refused, lost>>
    PROVE  Atomic!Next
<1>1. UNCHANGED [i \in Command |-> Stage(i)]
  BY DEF Stage, StageOf, Outcome
<1>2. Atomic!External(c)
  BY <1>1 DEF Atomic!External, Atomic!FromGit, FromGit, WriteConfigMap
<1>3. QED
  BY <1>2 DEF Atomic!Next

(* onMessage takes up a command that nobody has seen. *)
LEMMA ReceiveStep ==
    ASSUME IInv, OnceInv, NEW h \in Clients, Receive(h)
    PROVE  [Atomic!Next]_Atomic!vars
<1> SUFFICES ASSUME NEW i \in Command, i = Head(inbox[h])
             PROVE  [Atomic!Next]_Atomic!vars
  BY DEF Receive, IInv, TypeOK, ServerOK
<1>1. /\ pc[h] = "idle" /\ cmd[h] = None
      /\ inbox[h] \in Seq(Command) /\ inbox[h] # <<>>
      /\ UNCHANGED <<data, acks, refused, lost, ok>>
  BY DEF Receive, cmVars, IInv, TypeOK, ServerOK, HandlersOK
<1>2. CASE ~GateOpen(h)
  BY <1>1, <1>2, StageStutter DEF Receive
<1>3. CASE GateOpen(h)
  <2>1. pc' = [pc EXCEPT ![h] = "get"] /\ cmd' = [cmd EXCEPT ![h] = i]
    BY <1>3 DEF Receive, Goto
  <2>2. i = inbox[h][1] /\ 1 \in 1..Len(inbox[h]) /\ i \in Command
    BY <1>1
  <2>3. i.to = h /\ ~Acked(i) /\ i \notin lost /\ i # None
    BY <2>2, SentinelAssumption DEF IInv, Numbered, OnceInv, LostForGood, Content
  <2>4. Stage(i) = "new"
    BY <1>1, <2>3 DEF Stage, Outcome, Acked
  <2>5. cmd'[h] = i /\ pc'[h] = "get"
        /\ \A g \in Clients \ {h} : cmd'[g] = cmd[g] /\ pc'[g] = pc[g]
    BY <2>1 DEF IInv, TypeOK, HandlersOK
  <2>6. Stage(i)' = "open"
    BY <2>3, <2>5 DEF Stage, StageOf
  <2>7. ASSUME NEW j \in Command \ {i} PROVE Stage(j)' = Stage(j)
    <3>1. j.to \in Clients /\ j # None
      BY SentinelAssumption DEF Command, Content
    <3>2. CASE j.to = h
      BY <1>1, <2>5, <3>1, <3>2 DEF Stage, Outcome
    <3>3. CASE j.to # h
      BY <1>1, <2>5, <3>1, <3>3, StageSame
    <3>4. QED
      BY <3>2, <3>3
  <2>8. Atomic!Advance(i, {"new"}, "open")
    BY <2>2, <2>4, <2>6, <2>7, AdvanceStep
  <2>9. QED
    BY <1>1, <2>2, <2>8 DEF Atomic!Next, Atomic!Begin
<1>4. QED
  BY <1>2, <1>3

(* The answer. *)
LEMMA SendEmergencyAckStep ==
    ASSUME IInv, OnceInv, NEW h \in Clients, SendEmergencyAck(h)
    PROVE  Atomic!Next
<1>1. cmd[h] \in Command /\ cmd[h].to = h /\ cmd[h] # None /\ Stage(cmd[h]) = StageOf(h)
  BY InHand DEF SendEmergencyAck
<1> SUFFICES ASSUME NEW i \in Command, i = cmd[h]
             PROVE  Atomic!Next
  BY <1>1
<1>2. /\ pc[h] = "ack"
      /\ \/ acks' = acks \cup {[cmd |-> i, ok |-> ok[h]]} /\ refused' = refused
         \/ refused' = refused \cup {[cmd |-> i, ok |-> ok[h]]} /\ acks' = acks
      /\ UNCHANGED <<data, lost>>
      /\ ok[h] \in BOOLEAN
  BY DEF SendEmergencyAck, AckOf, cmVars, IInv, TypeOK, HandlersOK
<1>3. /\ cmd'[h] = None
      /\ \A g \in Clients \ {h} : cmd'[g] = cmd[g] /\ pc'[g] = pc[g] /\ ok'[g] = ok[g]
  BY DEF SendEmergencyAck, Goto, IInv, TypeOK, HandlersOK
<1>4. ~Acked(i) /\ i \notin lost
  BY <1>1 DEF IInv, Numbered, OnceInv, OneOutcome
<1>5. ASSUME NEW j \in Command \ {i} PROVE Stage(j)' = Stage(j)
  <2>1. j.to \in Clients /\ j # None
    BY SentinelAssumption DEF Command, Content
  <2>2. CASE cmd[j.to] = j
    <3>1. j.to # h
      BY <1>1, <2>2
    <3>2. /\ cmd'[j.to] = j
          /\ pc'[j.to] = pc[j.to]
          /\ ok'[j.to] = ok[j.to]
      BY <1>3, <2>1, <2>2, <3>1
    <3>3. StageOf(j.to)' = StageOf(j.to)
      BY <3>2 DEF StageOf
    <3>4. QED
      BY <2>2, <3>2, <3>3 DEF Stage
  <2>3. CASE cmd[j.to] # j
    <3>1. cmd'[j.to] # j
      BY <1>3, <2>1, <2>3
    <3>2. /\ \A b \in BOOLEAN : [cmd |-> j, ok |-> b] \in acks' <=> [cmd |-> j, ok |-> b] \in acks
          /\ (\E a \in refused' : a.cmd = j) <=> (\E a \in refused : a.cmd = j)
      BY <1>2
    <3>3. QED
      BY <1>2, <2>3, <3>1, <3>2 DEF Stage, Outcome
  <2>4. QED
    BY <2>2, <2>3
<1>6. cmd'[i.to] # i
  BY <1>1, <1>3
<1>7. ASSUME acks' # acks, ok[h] PROVE Atomic!Advance(i, {"restarted"}, "success")
  <2>1. Stage(i) \in {"restarted"}
    BY <1>1, <1>2, <1>7 DEF StageOf
  <2>2. Stage(i)' = "success"
    BY <1>2, <1>4, <1>6, <1>7 DEF Stage, Outcome
  <2>3. QED
    BY <1>5, <2>1, <2>2, AdvanceStep
<1>8. ASSUME acks' # acks, ~ok[h] PROVE Atomic!Advance(i, {"failed"}, "error")
  <2>1. Stage(i) \in {"failed"}
    BY <1>1, <1>2, <1>8 DEF StageOf
  <2>2. [cmd |-> i, ok |-> TRUE] \notin acks'
    BY <1>2, <1>4, <1>8 DEF Acked
  <2>3. Stage(i)' = "error"
    BY <1>2, <1>4, <1>6, <1>8, <2>2 DEF Stage, Outcome
  <2>4. QED
    BY <1>5, <2>1, <2>3, AdvanceStep
<1>9. ASSUME acks' = acks PROVE Atomic!Advance(i, {"restarted", "failed"}, "unanswered")
  <2>1. Stage(i) \in {"restarted", "failed"}
    BY <1>1, <1>2 DEF StageOf
  <2>2. \A b \in BOOLEAN : [cmd |-> i, ok |-> b] \notin acks'
    BY <1>4, <1>9 DEF Acked
  <2>3. \E a \in refused' : a.cmd = i
    <3>1. [cmd |-> i, ok |-> ok[h]] \in acks' \cup refused'
      BY <1>2
    <3>2. QED
      BY <1>2, <2>2, <3>1
  <2>4. Stage(i)' = "unanswered"
    BY <1>2, <1>4, <1>6, <2>2, <2>3 DEF Stage, Outcome
  <2>5. QED
    BY <1>5, <2>1, <2>4, AdvanceStep
<1>10. Atomic!Answer(i)
  BY <1>2, <1>7, <1>8, <1>9 DEF Atomic!Answer
<1>11. QED
  BY <1>10 DEF Atomic!Next

LEMMA NextStep ==
    ASSUME IInv, OnceInv, [Next]_vars
    PROVE  [Atomic!Next]_Atomic!vars
<1> USE DEF cmVars, podVars, serverVars, handlerVars
<1>1. ASSUME NEW h \in Clients, Handler(h) PROVE [Atomic!Next]_Atomic!vars
  <2>1. CASE GetConfigMap(h)
    <3>1. CASE Die
      BY <3>1, DieStep
    <3>2. CASE ~Die /\ Answer(h, FALSE)
      BY <2>1, <3>2, ErrorStep DEF GetConfigMap
    <3>3. CASE ~Die /\ ~Answer(h, FALSE)
      <4>1. Goto(h, "update") /\ pc[h] = "get" /\ UNCHANGED <<data, cmd, ok, acks, refused, lost>>
        BY <2>1, <3>3 DEF GetConfigMap
      <4>2. UNCHANGED Atomic!vars
        BY <4>1, WithinOpen
      <4>3. QED
        BY <4>2
    <3>4. QED
      BY <3>1, <3>2, <3>3
  <2>2. CASE UpdateConfigMap(h)
    <3>1. CASE Accepted(h)
      BY <2>2, <3>1, WriteStep DEF UpdateConfigMap
    <3>2. CASE ~Accepted(h)
      BY <2>2, <3>2, ErrorStep DEF UpdateConfigMap
    <3>3. QED
      BY <3>1, <3>2
  <2>3. CASE DiscoverWorkload(h)
    <3>1. CASE Captured[h].workload \in workloads
      <4>1. Goto(h, "patch") /\ pc[h] = "discover" /\ UNCHANGED <<data, cmd, ok, acks, refused, lost>>
        BY <2>3, <3>1 DEF DiscoverWorkload
      <4>2. UNCHANGED Atomic!vars
        BY <4>1, WithinWritten
      <4>3. QED
        BY <4>2
    <3>2. CASE Captured[h].workload \notin workloads
      BY <2>3, <3>2, ErrorStep DEF DiscoverWorkload
    <3>3. QED
      BY <3>1, <3>2
  <2>4. CASE PatchWorkload(h)
    <3>1. CASE CanPatch /\ Captured[h].workload \in workloads
      BY <2>4, <3>1, RestartStep DEF PatchWorkload
    <3>2. CASE ~(CanPatch /\ Captured[h].workload \in workloads)
      BY <2>4, <3>2, ErrorStep DEF PatchWorkload
    <3>3. QED
      BY <3>1, <3>2
  <2>5. QED
    BY <1>1, <2>1, <2>2, <2>3, <2>4, ReceiveStep, SendEmergencyAckStep DEF Handler
<1>2. ASSUME NEW h \in Clients, Send(h) \/ Disconnect(h) \/ UpdateTimesOut(h) \/ CallFails(h)
      PROVE  [Atomic!Next]_Atomic!vars
  <2>1. CASE Send(h) \/ Disconnect(h)
    BY <2>1, StageStutter DEF Send, Disconnect
  <2>2. CASE UpdateTimesOut(h)
    BY <2>2, WriteStep DEF UpdateTimesOut
  <2>3. CASE CallFails(h)
    BY <2>3, ErrorStep DEF CallFails
  <2>4. QED
    BY <1>2, <2>1, <2>2, <2>3
<1>3. CASE Cluster
  <2>1. CASE \E c \in ConfigMaps : GitSync(c) \/ DeleteConfigMap(c)
    BY <2>1, ExternalStep DEF GitSync, DeleteConfigMap
  <2>2. CASE ~\E c \in ConfigMaps : GitSync(c) \/ DeleteConfigMap(c)
    BY <1>3, <2>2, StageStutter DEF Cluster, Watch, DeleteWorkload, CreateWorkload, Rollout, Tick
  <2>3. QED
    BY <2>1, <2>2
<1>4. CASE Restart
  BY <1>4, DieStep DEF Restart
<1>5. CASE UNCHANGED vars
  BY <1>5, StageStutter DEF vars
<1>6. QED
  BY <1>1, <1>2, <1>3, <1>4, <1>5 DEF Next

LEMMA InitStep == Init => Atomic!Init
<1> SUFFICES ASSUME Init PROVE Atomic!Init
  OBVIOUS
<1>1. ASSUME NEW i \in Command PROVE Stage(i) = "new"
  BY SentinelAssumption DEF Init, Stage, Outcome, Command, Content
<1>2. QED
  BY <1>1 DEF Init, Atomic!Init, Atomic!FromGit, FromGit

LEMMA AtomicAlways == Safe => ImplementsOverrides
<1>1. Safe => []IInv /\ []OnceInv
  BY InductiveInvariant, OnceInvariant
<1>2. IInv /\ OnceInv /\ [Next]_vars => [Atomic!Next]_Atomic!vars
  BY NextStep
<1>3. QED
  BY <1>1, <1>2, InitStep, PTL DEF Safe, ImplementsOverrides, Atomic!Spec

(* Overrides are atomic and answers tell what was done: the handler, with its
   cache, its copy, its errors and its crashes, implements AtomicOverrides. *)
THEOREM OverridesAreAtomic == Spec => ImplementsOverrides
  BY AtomicAlways, PTL DEF Spec
-----------------------------------------------------------------------------
(* A command comes closer to its answer. *)

(* The steps of the callback from where it is to its return. *)
Rank(step) ==
    CASE step = "idle" -> 0
      [] step = "get" -> 5
      [] step = "update" -> 4
      [] step = "discover" -> 3
      [] step = "patch" -> 2
      [] step = "ack" -> 1

LEMMA Ranks ==
    /\ Rank("idle") = 0 /\ Rank("get") = 5 /\ Rank("update") = 4
    /\ Rank("discover") = 3 /\ Rank("patch") = 2 /\ Rank("ack") = 1
  BY DEF Rank

(* The command of h stays where it is; its callback comes closer to its return;
   or it is over, with an answer or with the process. *)
Onward(h) ==
    \/ UNCHANGED <<pc[h], cmd[h]>>
    \/ cmd'[h] = cmd[h] /\ Rank(pc'[h]) < Rank(pc[h])
    \/ cmd'[h] = None /\ ((\E a \in Answers' : a.cmd = cmd[h]) \/ cmd[h] \in lost')

(* A command that was let through is never sent back and never dropped: no other
   command, no failing call and no change of the cluster makes its callback start
   over, and it ends with an answer, which the OpAMP client accepts or refuses, or
   with the process (OnEmergencyCmd has no loop, no retry and no return behind the
   gate that passes SendEmergencyAck by). *)
CommandComesCloser == [][\A h \in Clients : cmd[h] # None => Onward(h)]_vars

LEMMA GotoOnward ==
    ASSUME IInv, NEW h \in Clients, NEW g \in Clients, NEW step, Goto(g, step), UNCHANGED cmd,
           Rank(step) < Rank(pc[g])
    PROVE  Onward(h)
  BY DEF IInv, TypeOK, HandlersOK, Goto, Onward

LEMMA DieOnward == ASSUME NEW h \in Clients, cmd[h] # None, Die PROVE Onward(h)
  BY DEF Die, Onward

LEMMA ReceiveOnward ==
    ASSUME IInv, NEW h \in Clients, cmd[h] # None, NEW g \in Clients, Receive(g)
    PROVE  Onward(h)
<1>1. g # h
  BY DEF IInv, TypeOK, HandlersOK, Receive
<1>2. QED
  BY <1>1 DEF IInv, TypeOK, HandlersOK, Receive, Goto, Onward

LEMMA CallsOnward ==
    ASSUME IInv, NEW h \in Clients, cmd[h] # None, NEW g \in Clients,
           \/ GetConfigMap(g) \/ UpdateConfigMap(g) \/ DiscoverWorkload(g) \/ PatchWorkload(g)
           \/ UpdateTimesOut(g) \/ CallFails(g)
    PROVE  Onward(h)
<1>1. CASE Die
  BY <1>1, DieOnward
<1>2. CASE ~Die
  <2>1. UNCHANGED cmd
    BY <1>2 DEF GetConfigMap, UpdateConfigMap, DiscoverWorkload, PatchWorkload, UpdateTimesOut,
                CallFails
  <2>2. \/ pc[g] = "get" /\ (Goto(g, "update") \/ Goto(g, "ack"))
        \/ pc[g] = "update" /\ (Goto(g, "discover") \/ Goto(g, "ack"))
        \/ pc[g] = "discover" /\ (Goto(g, "patch") \/ Goto(g, "ack"))
        \/ pc[g] = "patch" /\ Goto(g, "ack")
    BY <1>2 DEF GetConfigMap, UpdateConfigMap, DiscoverWorkload, PatchWorkload, UpdateTimesOut,
                CallFails, Answer, AfterUpdate
  <2>3. QED
    BY <2>1, <2>2, Ranks, GotoOnward
<1>3. QED
  BY <1>1, <1>2

LEMMA AnswerOnward ==
    ASSUME IInv, NEW h \in Clients, cmd[h] # None, NEW g \in Clients, SendEmergencyAck(g)
    PROVE  Onward(h)
<1>1. CASE g = h
  <2>1. cmd'[h] = None
    BY <1>1 DEF IInv, TypeOK, HandlersOK, SendEmergencyAck
  <2>2. [cmd |-> cmd[h], ok |-> ok[h]] \in Answers'
    BY <1>1 DEF SendEmergencyAck, AckOf
  <2>3. QED
    BY <2>1, <2>2 DEF Onward
<1>2. CASE g # h
  BY <1>2 DEF IInv, TypeOK, HandlersOK, SendEmergencyAck, Goto, Onward
<1>3. QED
  BY <1>1, <1>2

LEMMA NextOnward ==
    ASSUME IInv, [Next]_vars, NEW h \in Clients, cmd[h] # None
    PROVE  Onward(h)
<1>1. ASSUME NEW g \in Clients, Handler(g) PROVE Onward(h)
  BY <1>1, ReceiveOnward, CallsOnward, AnswerOnward DEF Handler
<1>2. ASSUME NEW g \in Clients, UpdateTimesOut(g) \/ CallFails(g) PROVE Onward(h)
  BY <1>2, CallsOnward
<1>3. CASE UNCHANGED <<pc, cmd>>
  BY <1>3 DEF Onward
<1>4. ASSUME NEW g \in Clients, Send(g) \/ Disconnect(g) PROVE Onward(h)
  BY <1>3, <1>4 DEF Send, Disconnect, handlerVars
<1>5. CASE Cluster
  BY <1>3, <1>5 DEF Cluster, GitSync, DeleteConfigMap, Watch, DeleteWorkload, CreateWorkload,
                    Rollout, Tick, handlerVars
<1>6. CASE Restart
  BY <1>6, DieOnward DEF Restart
<1>7. CASE UNCHANGED vars
  BY <1>3, <1>7 DEF vars, handlerVars
<1>8. QED
  BY <1>1, <1>2, <1>4, <1>5, <1>6, <1>7 DEF Next

LEMMA CommandAlwaysCloser == Safe => CommandComesCloser
<1>1. IInv /\ [Next]_vars => [\A h \in Clients : cmd[h] # None => Onward(h)]_vars
  BY NextOnward
<1>2. QED
  BY <1>1, InductiveInvariant, PTL DEF Safe, CommandComesCloser

(* Five steps of its callback, at most, and a command is over: the safety core of
   EveryCommandEnds, which adds that the callback goes on.  That the server gets
   the answer is not promised: an answer that is refused is not given again. *)
THEOREM AnswerComesCloser == Spec => CommandComesCloser
  BY CommandAlwaysCloser, PTL DEF Spec
-----------------------------------------------------------------------------
(* Where the documentation is right. *)

(* emergencyMode is opt-in as the guide says if it is given in every monitor: the
   only command that is let through against it meets an absent value, for which
   the gate of OnEmergencyCmd is open. *)
THEOREM OptInIfGiven ==
    ASSUME \A h \in Clients : Captured[h].emergency # "unset"
    PROVE  Spec => []OptIn
<1>1. ASSUME IInv PROVE OptIn
  <2> SUFFICES ASSUME NEW c \in ConfigMaps, NEW k \in Keys, data[c] # None, data[c][k] \in Command
               PROVE  Captured[data[c][k].to].emergency = "on"
    BY DEF OptIn
  <2>1. data[c][k].to \in Clients /\ Contains(c, data[c][k])
    BY DEF Command, Contains
  <2>2. Captured[data[c][k].to].emergency # "off"
    BY <1>1, <2>1 DEF IInv, ReadOnlyWhenOff
  <2>3. QED
    BY <2>1, <2>2, CapturedAssumption
<1>2. QED
  BY <1>1, InductiveInvariant, PTL DEF Spec

(* There is data in it, if it is there at all. *)
Filled(d) == d # None => ~IsNil(d)

(* The handler adds to what it has read, so a ConfigMap is empty only if GitOps
   has emptied it. *)
NoneEmpty ==
    /\ ConfigMaps # {} => Keys # {}
    /\ \A c \in ConfigMaps : Filled(data[c]) /\ Filled(cached[c])
    /\ \A h \in Clients : Filled(copy[h])

LEMMA OverrideFills ==
    ASSUME IInv, NEW h \in Clients, NEW d \in Data, pc[h] # "idle"
    PROVE  ~IsNil(WithOverride(h, d))
<1>1. cmd[h] # None /\ Captured[h].key \in Keys
  BY CapturedAssumption DEF IInv, TypeOK, HandlersOK
<1>2. WithOverride(h, d)[Captured[h].key] = cmd[h]
  BY <1>1 DEF WithOverride, Data
<1>3. QED
  BY <1>1, <1>2 DEF IsNil

(* The cache has a ConfigMap without data for the callback of h. *)
ReadsNil(h) == cached[Captured[h].cm] # None /\ IsNil(cached[Captured[h].cm])

LEMMA DieNoneEmpty == ASSUME NoneEmpty, Die PROVE NoneEmpty'
  BY DEF NoneEmpty, Die, Filled

LEMMA WriteNoneEmpty ==
    ASSUME IInv, NoneEmpty, NEW c \in ConfigMaps, NEW d, Filled(d), WriteConfigMap(c, d),
           UNCHANGED copy
    PROVE  NoneEmpty'
  BY DEF IInv, TypeOK, ConfigMapsOK, NoneEmpty, WriteConfigMap, Filled

LEMMA HandlerNoneEmpty ==
    ASSUME IInv, NoneEmpty, NEW h \in Clients,
           Handler(h) \/ UpdateTimesOut(h) \/ CallFails(h)
    PROVE  NoneEmpty' /\ (UNCHANGED lost \/ ReadsNil(h))
<1>1. Captured[h].cm \in ConfigMaps
  BY CapturedAssumption
<1>2. CASE UNCHANGED <<data, cached, copy, lost>>
  BY <1>2 DEF NoneEmpty, Filled
<1>3. CASE Receive(h) \/ DiscoverWorkload(h) \/ PatchWorkload(h) \/ CallFails(h)
  BY <1>2, <1>3 DEF Receive, DiscoverWorkload, PatchWorkload, CallFails, cmVars, serverVars
<1>4. CASE GetConfigMap(h)
  <2> DEFINE seen == cached[Captured[h].cm]
  <2>1. CASE Die
    <3>1. UNCHANGED lost \/ ReadsNil(h)
      BY <1>4 DEF GetConfigMap, ReadsNil
    <3>2. QED
      BY <2>1, <3>1, DieNoneEmpty
  <2>2. CASE ~Die /\ UNCHANGED copy
    BY <1>2, <1>4, <2>2 DEF GetConfigMap, cmVars
  <2>3. CASE ~Die /\ copy' = [copy EXCEPT ![h] = WithOverride(h, seen)] /\ seen # None
    <3>1. seen \in Data /\ pc[h] # "idle"
      BY <1>1, <1>4, <2>3 DEF IInv, TypeOK, ConfigMapsOK, GetConfigMap
    <3>2. Filled(WithOverride(h, seen))
      BY <3>1, OverrideFills DEF Filled
    <3>3. UNCHANGED <<data, cached, lost>>
      BY <1>4, <2>3 DEF GetConfigMap, cmVars
    <3>4. \A g \in Clients : Filled(copy'[g])
      BY <2>3, <3>2 DEF IInv, TypeOK, HandlersOK, NoneEmpty
    <3>5. QED
      BY <3>3, <3>4 DEF NoneEmpty
  <2>4. QED
    BY <1>4, <2>1, <2>2, <2>3 DEF GetConfigMap
<1>5. CASE UpdateConfigMap(h) \/ UpdateTimesOut(h)
  <2>1. UNCHANGED <<copy, lost>>
    BY <1>5 DEF UpdateConfigMap, UpdateTimesOut, serverVars
  <2>2. CASE WriteConfigMap(Captured[h].cm, copy[h])
    BY <1>1, <2>1, <2>2, WriteNoneEmpty DEF NoneEmpty
  <2>3. CASE UNCHANGED cmVars
    BY <1>2, <2>1, <2>3 DEF cmVars
  <2>4. QED
    BY <1>5, <2>2, <2>3 DEF UpdateConfigMap, UpdateTimesOut
<1>6. CASE SendEmergencyAck(h)
  <2>1. UNCHANGED <<data, cached, lost>> /\ copy' = [copy EXCEPT ![h] = None]
    BY <1>6 DEF SendEmergencyAck, cmVars
  <2>2. QED
    BY <2>1 DEF IInv, TypeOK, HandlersOK, NoneEmpty, Filled
<1>7. QED
  BY <1>3, <1>4, <1>5, <1>6 DEF Handler

(* GitOps does not write a ConfigMap without data. *)
GitHasData == \A c \in ConfigMaps : GitSync(c) => Filled(data'[c])

LEMMA ClusterNoneEmpty ==
    ASSUME IInv, NoneEmpty, Cluster, GitHasData
    PROVE  NoneEmpty' /\ UNCHANGED lost
<1>1. ASSUME NEW c \in ConfigMaps, GitSync(c) \/ DeleteConfigMap(c) PROVE NoneEmpty' /\ UNCHANGED lost
  <2>1. PICK d : WriteConfigMap(c, d) /\ (d = None \/ GitSync(c)) /\ UNCHANGED <<copy, lost>>
    BY <1>1 DEF GitSync, DeleteConfigMap, serverVars
  <2>2. d = None \/ d = data'[c]
    BY <2>1 DEF WriteConfigMap, IInv, TypeOK, ConfigMapsOK
  <2>3. Filled(d)
    BY <2>1, <2>2 DEF GitHasData, Filled
  <2>4. QED
    BY <2>1, <2>3, WriteNoneEmpty
<1>2. ASSUME NEW c \in ConfigMaps, Watch(c) PROVE NoneEmpty' /\ UNCHANGED lost
  BY <1>2 DEF Watch, NoneEmpty, IInv, TypeOK, ConfigMapsOK, serverVars, handlerVars
<1>3. CASE UNCHANGED <<data, cached, copy, lost>>
  BY <1>3 DEF NoneEmpty
<1>4. QED
  BY <1>1, <1>2, <1>3 DEF Cluster, DeleteWorkload, CreateWorkload, Rollout, Tick, cmVars, handlerVars,
                          serverVars

LEMMA NextNoneEmpty ==
    ASSUME IInv, NoneEmpty, [Next]_vars, [GitHasData]_vars
    PROVE  NoneEmpty' /\ (lost' = lost \/ Restart)
<1>1. ASSUME NEW h \in Clients, Handler(h) \/ UpdateTimesOut(h) \/ CallFails(h)
      PROVE  NoneEmpty' /\ lost' = lost
  <2>1. Captured[h].cm \in ConfigMaps
    BY CapturedAssumption
  <2>2. ~ReadsNil(h)
    BY <2>1 DEF NoneEmpty, Filled, ReadsNil
  <2>3. QED
    BY <1>1, <2>2, HandlerNoneEmpty
<1>2. CASE UNCHANGED <<data, cached, copy, lost>>
  BY <1>2 DEF NoneEmpty
<1>3. CASE Cluster
  BY <1>2, <1>3, ClusterNoneEmpty DEF vars, cmVars, serverVars, handlerVars
<1>4. CASE Restart
  BY <1>4, DieNoneEmpty DEF Restart
<1>5. QED
  BY <1>1, <1>2, <1>3, <1>4 DEF Next, Send, Disconnect, vars, cmVars, serverVars, handlerVars

(* No command ends the process if ConfigMaps have data in the beginning and GitOps
   never writes one without: what the handlers write, deletions, stale caches and
   crashes then leave no nil map behind, and commands are lost only when the
   process is restarted from outside. *)
THEOREM NoPanicIfFilled ==
    Spec /\ (\A c \in ConfigMaps : ~IsNil(data[c])) /\ [][GitHasData]_vars
        => [][lost' # lost => Restart]_vars
<1>1. Init /\ (\A c \in ConfigMaps : ~IsNil(data[c])) => NoneEmpty
  BY DEF Init, NoneEmpty, FromGit, Filled, IsNil
<1>2. IInv /\ NoneEmpty /\ [Next]_vars /\ [GitHasData]_vars
          => NoneEmpty' /\ [lost' # lost => Restart]_vars
  BY NextNoneEmpty
<1>3. QED
  BY <1>1, <1>2, InductiveInvariant, PTL DEF Spec, Safe
=============================================================================
