-------------------------- MODULE RunAndLinksProofs --------------------------
(***************************************************************************)
(* Proofs about RunControl, for any number of nodes, rounds and starts,    *)
(* and about QuicLinks, for any number of connections.                     *)
(*                                                                         *)
(* The barrier and the late joiners go by what the manager was told, so    *)
(* the invariant of RunControl relates that to the rounds the nodes are    *)
(* in: no push, however late, tells more than is true of its container,    *)
(* and the manager knows which starts it has heard of since a clear.       *)
(*                                                                         *)
(* In QuicLinks, OneDial, which the lock and the second look give, carries *)
(* NoOrphanConnection: the event of a connection removes whatever is       *)
(* registered, and that is the connection itself only because no other     *)
(* can be open.                                                            *)
(***************************************************************************)
EXTENDS RunControl, QuicLinks, TLAPS

-----------------------------------------------------------------------------
(* RunControl *)

TypeOK ==
    /\ request \in {"none", "start", "stop", "launch"}
    /\ todo \subseteq Node
    /\ configs \in Seq(Config)
    /\ highestRound \in Nat
    /\ roundPerNode \in [Node -> Nat]
    /\ writeQueue \subseteq Nat
    /\ proc \in [Node -> {"none", "exited", "wait", "train", "barrier", "leave"}]
    /\ launched \in [Node -> Nat]
    /\ round \in [Node -> Nat]
    /\ inFlight \subseteq Node \X Nat \X Nat
    /\ drained \in Nat /\ stragglers \subseteq Nat /\ heard \subseteq Nat
    /\ disturbed \in BOOLEAN

\* A start launches its nodes after it has drained the queue, each once.
Launching ==
    /\ drained <= run
    /\ request = "none" => todo = {}
    /\ request = "start" => drained < run
    /\ request = "launch" => /\ run > 0 /\ drained = run
                             /\ todo \subseteq configs[run].nodes
                             /\ \A n \in todo : launched[n] < run
    /\ \A n \in Node :
         /\ launched[n] <= drained
         /\ launched[n] > 0 => n \in Own(n).nodes
         /\ Alive(n) => launched[n] > 0

\* A file has points of other runs only from what outlived the stop.
OneRun ==
    drained = run =>
      /\ writeQueue \subseteq {run} \cup stragglers
      /\ \A x \in inFlight : x[3] \in {run} \cup stragglers
      /\ \A n \in Node : Alive(n) => launched[n] \in {run} \cup stragglers

\* No push tells more than is true of its container; what the manager has from
\* the last start alone is true of its nodes.
Reports ==
    /\ heard \subseteq 1..drained
    /\ heard = {} => highestRound = 0 /\ roundPerNode = NoRounds
    /\ \A n \in Node : roundPerNode[n] <= highestRound
    /\ \A x \in inFlight :
         /\ x[3] \in 1..drained
         /\ x[3] = run => launched[x[1]] = run /\ x[2] <= round[x[1]]
    /\ heard \subseteq {run} =>
         /\ \A n \in Node : roundPerNode[n] > 0 =>
              launched[n] = run /\ roundPerNode[n] <= round[n]
         /\ highestRound > 0 =>
              \E n \in Node : launched[n] = run /\ highestRound <= round[n]

\* Who waits joins late, and who is at the barrier is through.
Stages ==
    \A n \in Node :
        /\ proc[n] = "wait" => n \in Own(n).late
        /\ proc[n] = "barrier" => round[n] = Own(n).rounds + 1

\* In a run in which nothing fails every node that has been launched is there,
\* exits early, or has told of its end; who leaves does for one of the latter
\* reasons.
Completed ==
    ~disturbed =>
      /\ request \in {"none", "launch"}
      /\ drained = run
      /\ run > 0 =>
           \A n \in configs[run].nodes \ todo :
             /\ launched[n] = run
             /\ \/ Alive(n) /\ proc[n] # "leave"
                \/ n \in configs[run].early
                \/ roundPerNode[n] > configs[run].rounds

IInv == TypeOK /\ Launching /\ OneRun /\ Reports /\ Stages /\ Completed

-----------------------------------------------------------------------------
LEMMA Schedule ==
    ASSUME NEW c \in Config, NEW n \in Node
    PROVE  /\ c.nodes \subseteq Node /\ c.late \subseteq c.nodes
           /\ c.early \subseteq c.nodes /\ c.rounds \in Nat \ {0}
           /\ JoinRound(c, n) \in 0..c.rounds /\ ExitRound(c, n) \in Nat
           /\ JoinRound(c, n) > 0 => n \in c.late
           /\ ExitRound(c, n) > 0 => n \in c.early
BY ControlAssumption, SMT DEF JoinRound, ExitRound

LEMMA Appended ==
    ASSUME NEW s \in Seq(Config), NEW c \in Config
    PROVE  /\ Append(s, c) \in Seq(Config)
           /\ Len(s) \in Nat /\ Len(Append(s, c)) = Len(s) + 1
           /\ Append(s, c)[Len(s) + 1] = c
           /\ \A i \in 1..Len(s) : Append(s, c)[i] = s[i]
OBVIOUS

\* The configurations of the starts so far.
LEMMA Configurations ==
    ASSUME TypeOK
    PROVE  run \in Nat /\ \A i \in 1..run : configs[i] \in Config
BY DEF TypeOK, run

LEMMA LastConfig ==
    ASSUME TypeOK, run > 0
    PROVE  /\ configs[run] \in Config
           /\ configs[run].nodes \subseteq Node /\ configs[run].rounds \in Nat
<1>1. configs[run] \in Config BY Configurations
<1> QED BY <1>1, ControlAssumption

LEMMA OwnConfig ==
    ASSUME TypeOK, Launching, NEW n \in Node, Alive(n)
    PROVE  /\ Own(n) \in Config
           /\ JoinRound(Own(n), n) \in Nat /\ ExitRound(Own(n), n) \in Nat
           /\ ExitRound(Own(n), n) > 0 => n \in Own(n).early
<1>1. launched[n] \in 1..run BY Configurations DEF Launching, TypeOK
<1>2. Own(n) \in Config BY <1>1, Configurations DEF Own
<1>3. JoinRound(Own(n), n) \in 0..Own(n).rounds /\ Own(n).rounds \in Nat
  BY <1>2, Schedule
<1> QED BY <1>2, <1>3, Schedule

LEMMA InitIInv == Init => IInv
<1> SUFFICES ASSUME Init PROVE IInv
  OBVIOUS
<1> USE DEF Init, NoRounds, Alive
<1>1. configs \in Seq(Config) /\ run = 0
  BY DEF run
<1>2. disturbed \in BOOLEAN
  BY Zenon
<1>3. TypeOK
  BY <1>1, <1>2 DEF TypeOK
<1>4. Launching /\ OneRun
  BY <1>1 DEF Launching, OneRun
<1>5. Reports
  BY <1>1 DEF Reports
<1>6. Stages /\ Completed BY <1>1 DEF Stages, Completed
<1> QED BY <1>3, <1>4, <1>5, <1>6 DEF IInv

LEMMA TypeOKStep == IInv /\ [Next]_vars => TypeOK'
<1> SUFFICES ASSUME IInv, [Next]_vars PROVE TypeOK'
  OBVIOUS
<1>0. TypeOK /\ Launching BY DEF IInv
<1> USE DEF TypeOK, managerVars, nodeVars, history, NoRounds
<1>1. ASSUME NEW c \in Config, StartRequest(c) PROVE TypeOK'
  <2>1. disturbed' \in BOOLEAN
    BY <1>0, <1>1, Zenon DEF StartRequest
  <2>2. configs' \in Seq(Config)
    BY <1>0, <1>1, Appended DEF StartRequest
  <2>3. todo' \subseteq Node
    BY <1>0, <1>1 DEF StartRequest, Containers
  <2> QED BY <1>0, <1>1, <2>1, <2>2, <2>3 DEF StartRequest
<1>2. CASE StopRequest
  <2>1. disturbed' \in BOOLEAN
    BY <1>0, <1>2, Zenon DEF StopRequest
  <2>2. todo' \subseteq Node
    BY <1>0, <1>2 DEF StopRequest, Containers
  <2> QED BY <1>0, <1>2, <2>1, <2>2 DEF StopRequest
<1>3. CASE DrainAndLaunch
  <2>1. disturbed' \in BOOLEAN
    BY <1>0, <1>3, Zenon DEF DrainAndLaunch
  <2>2. run \in Nat /\ configs[run].nodes \subseteq Node
    <3>1. drained \in Nat /\ drained < run
      BY <1>0, <1>3 DEF DrainAndLaunch, Launching
    <3>2. run \in Nat
      BY <1>0, Configurations
    <3>3. run > 0
      BY <3>1, <3>2
    <3> QED
      BY <1>0, <3>2, <3>3, LastConfig
  <2>3. launched' \in [Node -> Nat] /\ round' \in [Node -> Nat]
    BY <1>0, <1>3 DEF DrainAndLaunch, ForgetRemoved
  <2>4. stragglers' \subseteq Nat
    BY <1>0, <1>3 DEF DrainAndLaunch
  <2> QED BY <1>0, <1>3, <2>1, <2>2, <2>3, <2>4 DEF DrainAndLaunch
<1>4. CASE Stopped
  BY <1>0, <1>4 DEF Stopped
<1>5. CASE RequestFails
  BY <1>0, <1>5 DEF RequestFails
<1>6. CASE Clear
  BY <1>0, <1>6 DEF Clear
<1>7. ASSUME NEW n \in Node, StopContainer(n) PROVE TypeOK'
  BY <1>0, <1>7 DEF StopContainer
<1>8. ASSUME NEW n \in Node, Launch(n) PROVE TypeOK'
  <2>1. disturbed' \in BOOLEAN
    BY <1>0, <1>8, Zenon DEF Launch
  <2>2. run \in Nat
    BY <1>0, Configurations
  <2>3. launched' \in [Node -> Nat] /\ round' \in [Node -> Nat]
    <3>1. /\ launched' = launched \/ launched' = [launched EXCEPT ![n] = run]
          /\ round' = round \/ round' = [round EXCEPT ![n] = 0]
      BY <1>8 DEF Launch
    <3> QED BY <1>0, <2>2, <3>1
  <2>4. proc' \in [Node -> {"none", "exited", "wait", "train", "barrier", "leave"}]
    BY <1>0, <1>8 DEF Launch
  <2> QED BY <1>0, <1>8, <2>1, <2>3, <2>4 DEF Launch
<1>9. ASSUME NEW n \in Node, Push(n) PROVE TypeOK'
  <2>1. <<n, round[n], launched[n]>> \in Node \X Nat \X Nat
    BY <1>0
  <2> QED BY <1>0, <1>9, <2>1 DEF Push
<1>10. ASSUME NEW x \in inFlight, LosePush(x) PROVE TypeOK'
  BY <1>0, <1>10 DEF LosePush
<1>11. ASSUME NEW x \in inFlight, ReceivePush(x) PROVE TypeOK'
  BY <1>0, <1>11 DEF ReceivePush, RaisedRound, Larger
<1>12. ASSUME NEW n \in Node, Join(n) PROVE TypeOK'
  BY <1>0, <1>12 DEF Join
<1>13. ASSUME NEW n \in Node, NextRound(n) PROVE TypeOK'
  <2>1. JoinRound(Own(n), n) \in Nat
    BY <1>0, <1>13, OwnConfig DEF NextRound, Alive
  <2>2. Larger(round[n] + 1, JoinRound(Own(n), n)) \in Nat
    BY <1>0, <2>1 DEF Larger
  <2> QED BY <1>0, <1>13, <2>2 DEF NextRound
<1>14. ASSUME NEW n \in Node, Finish(n) PROVE TypeOK'
  BY <1>0, <1>14 DEF Finish
<1>15. ASSUME NEW n \in Node, BarrierOpens(n) PROVE TypeOK'
  BY <1>0, <1>15 DEF BarrierOpens
<1>16. ASSUME NEW n \in Node, BarrierGivesUp(n) PROVE TypeOK'
  BY <1>0, <1>16 DEF BarrierGivesUp
<1>17. ASSUME NEW n \in Node, Leave(n) PROVE TypeOK'
  BY <1>0, <1>17 DEF Leave
<1>18. ASSUME NEW n \in Node, Crash(n) PROVE TypeOK'
  <2>1. disturbed' \in BOOLEAN
    BY <1>0, <1>18, Zenon DEF Crash
  <2> QED BY <1>0, <1>18, <2>1 DEF Crash
<1>19. CASE UNCHANGED vars
  BY <1>0, <1>19 DEF vars
<1> QED
  BY <1>1, <1>2, <1>3, <1>4, <1>5, <1>6, <1>7, <1>8, <1>9, <1>10, <1>11,
     <1>12, <1>13, <1>14, <1>15, <1>16, <1>17, <1>18, <1>19 DEF Next

LEMMA LaunchingStep == IInv /\ [Next]_vars => Launching'
<1> SUFFICES ASSUME IInv, [Next]_vars PROVE Launching'
  OBVIOUS
<1>0. TypeOK /\ Launching BY DEF IInv
<1>a. run \in Nat BY <1>0, Configurations
<1> USE DEF TypeOK, Launching, managerVars, nodeVars, history, NoRounds, Alive, Own, run
<1>1. ASSUME NEW c \in Config, StartRequest(c) PROVE Launching'
  BY <1>0, <1>1, <1>a, Appended DEF StartRequest
<1>2. CASE StopRequest
  BY <1>0, <1>2 DEF StopRequest
<1>3. CASE DrainAndLaunch
  <2>1. run' = run /\ drained' = run /\ drained < run /\ run > 0
    BY <1>0, <1>a, <1>3 DEF DrainAndLaunch
  <2>2. request' = "launch" /\ todo' = configs[run].nodes /\ configs' = configs
    BY <1>3 DEF DrainAndLaunch
  <2>3. ASSUME NEW n \in Node
        PROVE  /\ launched'[n] <= drained /\ (launched'[n] > 0 => n \in Own(n).nodes')
               /\ Alive(n)' => launched'[n] > 0
    BY <1>0, <1>3 DEF DrainAndLaunch, ForgetRemoved
  <2>4. \A n \in todo' : n \in Node
    BY <1>0, <1>a, <2>1, <2>2, LastConfig
  <2>5. \A n \in Node : launched'[n] \in Nat
    BY <1>0, <1>3 DEF DrainAndLaunch, ForgetRemoved
  <2> QED BY <1>0, <1>a, <2>1, <2>2, <2>3, <2>4, <2>5
<1>4. CASE Stopped
  BY <1>0, <1>4 DEF Stopped
<1>5. CASE RequestFails
  BY <1>0, <1>5 DEF RequestFails
<1>6. CASE Clear
  BY <1>0, <1>6 DEF Clear
<1>7. ASSUME NEW n \in Node, StopContainer(n) PROVE Launching'
  BY <1>0, <1>7, <1>a DEF StopContainer
<1>8. ASSUME NEW n \in Node, Launch(n) PROVE Launching'
  <2>1. /\ request = "launch" /\ n \in todo /\ todo' = todo \ {n}
        /\ request' \in {"none", "launch"} /\ (request' = "none" => todo' = {})
        /\ configs' = configs /\ run' = run /\ drained' = drained
    BY <1>8 DEF Launch
  <2>2. /\ run > 0 /\ drained = run /\ n \in configs[run].nodes
        /\ \A m \in todo : launched[m] < run
    BY <1>0, <2>1
  <2>3. \/ /\ launched' = [launched EXCEPT ![n] = run]
           /\ \E s \in {"exited", "wait", "train"} : proc' = [proc EXCEPT ![n] = s]
        \/ launched' = launched /\ proc' = proc
    BY <1>8, Zenon DEF Launch
  <2>4. ASSUME NEW m \in Node
        PROVE  \/ launched'[m] = launched[m] /\ proc'[m] = proc[m]
               \/ m = n /\ launched'[m] = run
    BY <1>0, <2>3
  <2>5. ASSUME NEW m \in Node
        PROVE  /\ launched'[m] <= drained'
               /\ launched'[m] > 0 => m \in configs[launched'[m]].nodes
               /\ Alive(m)' => launched'[m] > 0
    BY <1>0, <1>a, <2>1, <2>2, <2>4
  <2>6. \A m \in todo' : launched'[m] < run'
    BY <1>0, <2>1, <2>2, <2>4
  <2>7. /\ request' = "none" => todo' = {}
        /\ request' # "start"
        /\ request' = "launch" => /\ run' > 0 /\ drained' = run'
                                  /\ todo' \subseteq configs'[run'].nodes
    BY <1>0, <2>1, <2>2
  <2>8. drained' <= run'
    BY <1>a, <2>1, <2>2
  <2>9. \A m \in Node : launched'[m] > 0 => m \in Own(m).nodes'
    BY <2>1, <2>5
  <2> HIDE DEF Alive, Own, run
  <2> QED BY <2>5, <2>6, <2>7, <2>8, <2>9
<1>9. ASSUME NEW n \in Node, Push(n) PROVE Launching'
  BY <1>0, <1>9 DEF Push
<1>10. ASSUME NEW x \in inFlight, LosePush(x) PROVE Launching'
  BY <1>0, <1>10 DEF LosePush
<1>11. ASSUME NEW x \in inFlight, ReceivePush(x) PROVE Launching'
  BY <1>0, <1>11 DEF ReceivePush
<1>12. ASSUME NEW n \in Node, Join(n) PROVE Launching'
  BY <1>0, <1>12 DEF Join
<1>13. ASSUME NEW n \in Node, NextRound(n) PROVE Launching'
  BY <1>0, <1>13 DEF NextRound
<1>14. ASSUME NEW n \in Node, Finish(n) PROVE Launching'
  BY <1>0, <1>14 DEF Finish
<1>15. ASSUME NEW n \in Node, BarrierOpens(n) PROVE Launching'
  BY <1>0, <1>15 DEF BarrierOpens
<1>16. ASSUME NEW n \in Node, BarrierGivesUp(n) PROVE Launching'
  BY <1>0, <1>16 DEF BarrierGivesUp
<1>17. ASSUME NEW n \in Node, Leave(n) PROVE Launching'
  BY <1>0, <1>17 DEF Leave
<1>18. ASSUME NEW n \in Node, Crash(n) PROVE Launching'
  BY <1>0, <1>18 DEF Crash
<1>19. CASE UNCHANGED vars
  BY <1>0, <1>19 DEF vars
<1> QED
  BY <1>1, <1>2, <1>3, <1>4, <1>5, <1>6, <1>7, <1>8, <1>9, <1>10, <1>11,
     <1>12, <1>13, <1>14, <1>15, <1>16, <1>17, <1>18, <1>19 DEF Next

LEMMA OneRunStep == IInv /\ [Next]_vars => OneRun'
<1> SUFFICES ASSUME IInv, [Next]_vars PROVE OneRun'
  OBVIOUS
<1>0. TypeOK /\ Launching /\ OneRun BY DEF IInv
<1>a. run \in Nat BY <1>0, Configurations
<1> USE DEF TypeOK, Launching, OneRun, managerVars, nodeVars, history, NoRounds, Alive, run
<1>1. ASSUME NEW c \in Config, StartRequest(c) PROVE OneRun'
  BY <1>0, <1>1, <1>a, Appended DEF StartRequest
<1>2. CASE StopRequest
  BY <1>0, <1>2 DEF StopRequest
<1>3. CASE DrainAndLaunch
  BY <1>0, <1>3, <1>a DEF DrainAndLaunch, ForgetRemoved
<1>4. CASE Stopped
  BY <1>0, <1>4 DEF Stopped
<1>5. CASE RequestFails
  BY <1>0, <1>5 DEF RequestFails
<1>6. CASE Clear
  BY <1>0, <1>6 DEF Clear
<1>7. ASSUME NEW n \in Node, StopContainer(n) PROVE OneRun'
  BY <1>0, <1>7 DEF StopContainer
<1>8. ASSUME NEW n \in Node, Launch(n) PROVE OneRun'
  BY <1>0, <1>8, <1>a DEF Launch
<1>9. ASSUME NEW n \in Node, Push(n) PROVE OneRun'
  BY <1>0, <1>9 DEF Push
<1>10. ASSUME NEW x \in inFlight, LosePush(x) PROVE OneRun'
  BY <1>0, <1>10 DEF LosePush
<1>11. ASSUME NEW x \in inFlight, ReceivePush(x) PROVE OneRun'
  BY <1>0, <1>11 DEF ReceivePush
<1>12. ASSUME NEW n \in Node, Join(n) PROVE OneRun'
  BY <1>0, <1>12 DEF Join
<1>13. ASSUME NEW n \in Node, NextRound(n) PROVE OneRun'
  BY <1>0, <1>13 DEF NextRound
<1>14. ASSUME NEW n \in Node, Finish(n) PROVE OneRun'
  BY <1>0, <1>14 DEF Finish
<1>15. ASSUME NEW n \in Node, BarrierOpens(n) PROVE OneRun'
  BY <1>0, <1>15 DEF BarrierOpens
<1>16. ASSUME NEW n \in Node, BarrierGivesUp(n) PROVE OneRun'
  BY <1>0, <1>16 DEF BarrierGivesUp
<1>17. ASSUME NEW n \in Node, Leave(n) PROVE OneRun'
  BY <1>0, <1>17 DEF Leave
<1>18. ASSUME NEW n \in Node, Crash(n) PROVE OneRun'
  BY <1>0, <1>18 DEF Crash
<1>19. CASE UNCHANGED vars
  BY <1>0, <1>19 DEF vars
<1> QED
  BY <1>1, <1>2, <1>3, <1>4, <1>5, <1>6, <1>7, <1>8, <1>9, <1>10, <1>11,
     <1>12, <1>13, <1>14, <1>15, <1>16, <1>17, <1>18, <1>19 DEF Next

LEMMA ReportsStep == IInv /\ [Next]_vars => Reports'
<1> SUFFICES ASSUME IInv, [Next]_vars PROVE Reports'
  OBVIOUS
<1>0. TypeOK /\ Launching /\ Reports BY DEF IInv
<1>a. run \in Nat BY <1>0, Configurations
<1> USE DEF TypeOK, Launching, Reports, managerVars, nodeVars, history, NoRounds, Alive, run
<1>1. ASSUME NEW c \in Config, StartRequest(c) PROVE Reports'
  BY <1>0, <1>1, <1>a, Appended DEF StartRequest
<1>2. CASE StopRequest
  BY <1>0, <1>2 DEF StopRequest
<1>3. CASE DrainAndLaunch
  BY <1>0, <1>3, <1>a DEF DrainAndLaunch, ForgetRemoved
<1>4. CASE Stopped
  BY <1>0, <1>4 DEF Stopped
<1>5. CASE RequestFails
  BY <1>0, <1>5 DEF RequestFails
<1>6. CASE Clear
  BY <1>0, <1>6 DEF Clear
<1>7. ASSUME NEW n \in Node, StopContainer(n) PROVE Reports'
  BY <1>0, <1>7 DEF StopContainer
<1>8. ASSUME NEW n \in Node, Launch(n) PROVE Reports'
  <2>1. /\ launched[n] < run /\ run > 0 /\ drained = run
    BY <1>0, <1>a, <1>8 DEF Launch
  <2>2. /\ run' = run
        /\ \A m \in Node : launched[m] = run =>
             launched'[m] = run /\ round'[m] = round[m]
    BY <1>0, <1>a, <1>8, <2>1 DEF Launch
  <2>3. /\ UNCHANGED <<highestRound, roundPerNode, inFlight, drained, heard>>
    BY <1>8 DEF Launch
  <2>4. \A m \in Node : round[m] \in Nat /\ roundPerNode[m] \in Nat
    BY <1>0
  <2>5. heard \subseteq {run} =>
         /\ \A m \in Node : roundPerNode[m] > 0 =>
              launched'[m] = run /\ roundPerNode[m] <= round'[m]
         /\ highestRound > 0 =>
              \E m \in Node : launched'[m] = run /\ highestRound <= round'[m]
    BY <1>0, <2>2
  <2>6. \A x \in inFlight : x[3] = run => launched'[x[1]] = run /\ x[2] <= round'[x[1]]
    BY <1>0, <2>2
  <2> QED BY <1>0, <2>2, <2>3, <2>5, <2>6
<1>9. ASSUME NEW n \in Node, Push(n) PROVE Reports'
  BY <1>0, <1>9 DEF Push
<1>10. ASSUME NEW x \in inFlight, LosePush(x) PROVE Reports'
  BY <1>0, <1>10 DEF LosePush
<1>11. ASSUME NEW x \in inFlight, ReceivePush(x) PROVE Reports'
  <2> DEFINE m == x[1] r == x[2] s == x[3]
  <2>1. m \in Node /\ r \in Nat /\ s \in 1..drained
    BY <1>0
  <2>2. s = run => launched[m] = run /\ r <= round[m]
    BY <1>0
  <2> HIDE DEF m, r, s
  <2>3. /\ UNCHANGED <<configs, launched, round, drained>>
        /\ inFlight' \subseteq inFlight
        /\ heard' = heard \cup {s}
    BY <1>11 DEF ReceivePush, m, r, s
  <2>4. /\ highestRound' \in {highestRound, r}
        /\ highestRound' >= highestRound /\ highestRound' >= r
    BY <1>0, <1>11, <2>1 DEF ReceivePush, RaisedRound, Larger, r
  <2>5. \A k \in Node : \/ roundPerNode'[k] = roundPerNode[k]
                        \/ k = m /\ roundPerNode'[k] = r
    BY <1>0, <1>11, <2>1 DEF ReceivePush, RaisedRound, Larger, m, r
  <2>6. /\ \A k \in Node : roundPerNode'[k] <= highestRound'
        /\ heard' \subseteq 1..drained' /\ heard' # {}
    <3>1. \A k \in Node : roundPerNode[k] \in Nat /\ roundPerNode[k] <= highestRound
      BY <1>0
    <3>2. heard \subseteq 1..drained /\ highestRound \in Nat
      BY <1>0
    <3>3. \A k \in Node : roundPerNode'[k] <= highestRound'
      BY <2>1, <2>4, <2>5, <3>1, <3>2
    <3> QED BY <2>1, <2>3, <3>2, <3>3
  <2>7. ASSUME heard' \subseteq {run}
        PROVE  /\ \A k \in Node : roundPerNode'[k] > 0 =>
                    launched[k] = run /\ roundPerNode'[k] <= round[k]
               /\ highestRound' > 0 =>
                    \E k \in Node : launched[k] = run /\ highestRound' <= round[k]
    <3>1. heard \subseteq {run} /\ launched[m] = run /\ r <= round[m]
      BY <2>2, <2>3, <2>7
    <3>2. \A k \in Node : roundPerNode[k] > 0 =>
                             launched[k] = run /\ roundPerNode[k] <= round[k]
      BY <1>0, <3>1
    <3>3. highestRound > 0 => \E k \in Node : launched[k] = run /\ highestRound <= round[k]
      BY <1>0, <3>1
    <3>4. \A k \in Node : roundPerNode'[k] > 0 =>
                             launched[k] = run /\ roundPerNode'[k] <= round[k]
      BY <2>5, <3>1, <3>2
    <3>5. CASE highestRound' = highestRound
      BY <3>3, <3>4, <3>5
    <3>6. CASE highestRound' = r
      BY <2>1, <3>1, <3>4, <3>6
    <3> QED BY <2>4, <3>5, <3>6
  <2> QED BY <1>0, <2>3, <2>6, <2>7
<1>12. ASSUME NEW n \in Node, Join(n) PROVE Reports'
  BY <1>0, <1>12 DEF Join
<1>13. ASSUME NEW n \in Node, NextRound(n) PROVE Reports'
  <2>1. JoinRound(Own(n), n) \in Nat /\ round[n] \in Nat
    BY <1>0, <1>13, OwnConfig DEF NextRound
  <2>2. /\ UNCHANGED <<managerVars, launched, inFlight, history>>
        /\ \A m \in Node : round'[m] >= round[m] /\ round'[m] \in Nat
    <3>1. \A m \in Node : round[m] \in Nat
      BY <1>0
    <3>2. round' = [round EXCEPT ![n] = Larger(round[n] + 1, JoinRound(Own(n), n))]
      BY <1>13 DEF NextRound
    <3>3. \A m \in Node : round'[m] >= round[m] /\ round'[m] \in Nat
      BY <1>0, <2>1, <3>1, <3>2 DEF Larger
    <3> QED BY <1>13, <3>3 DEF NextRound
  <2>3. \A m \in Node : round[m] \in Nat /\ roundPerNode[m] \in Nat
    BY <1>0
  <2>4. \A x \in inFlight : /\ x[1] \in Node /\ x[2] \in Nat
                            /\ x[3] \in 1..drained
                            /\ x[3] = run => launched[x[1]] = run /\ x[2] <= round[x[1]]
    BY <1>0
  <2>5. \A x \in inFlight : x[3] = run => launched[x[1]] = run /\ x[2] <= round'[x[1]]
    BY <2>2, <2>3, <2>4
  <2>6. heard \subseteq {run} =>
          /\ \A m \in Node : roundPerNode[m] > 0 =>
               launched[m] = run /\ roundPerNode[m] <= round'[m]
          /\ highestRound > 0 =>
               \E m \in Node : launched[m] = run /\ highestRound <= round'[m]
    <3>1. highestRound \in Nat
      BY <1>0
    <3> SUFFICES ASSUME heard \subseteq {run}
                 PROVE  /\ \A m \in Node : roundPerNode[m] > 0 =>
                             launched[m] = run /\ roundPerNode[m] <= round'[m]
                        /\ highestRound > 0 =>
                             \E m \in Node : launched[m] = run /\ highestRound <= round'[m]
      OBVIOUS
    <3>2. /\ \A m \in Node : roundPerNode[m] > 0 =>
               launched[m] = run /\ roundPerNode[m] <= round[m]
          /\ highestRound > 0 =>
               \E m \in Node : launched[m] = run /\ highestRound <= round[m]
      BY <1>0
    <3>3. \A m \in Node : roundPerNode[m] > 0 => launched[m] = run /\ roundPerNode[m] <= round'[m]
      BY <2>2, <2>3, <3>2
    <3>4. highestRound > 0 => \E m \in Node : launched[m] = run /\ highestRound <= round'[m]
      BY <2>2, <2>3, <3>1, <3>2
    <3> QED BY <3>3, <3>4
  <2> QED BY <1>0, <2>2, <2>4, <2>5, <2>6
<1>14. ASSUME NEW n \in Node, Finish(n) PROVE Reports'
  <2>1. /\ UNCHANGED <<managerVars, launched, inFlight, history>>
        /\ \A m \in Node : round'[m] >= round[m] /\ round'[m] \in Nat
    BY <1>0, <1>14 DEF Finish
  <2>2. \A m \in Node : round[m] \in Nat /\ roundPerNode[m] \in Nat
    BY <1>0
  <2>3. \A x \in inFlight : /\ x[1] \in Node /\ x[2] \in Nat
                            /\ x[3] \in 1..drained
                            /\ x[3] = run => launched[x[1]] = run /\ x[2] <= round[x[1]]
    BY <1>0
  <2>4. \A x \in inFlight : x[3] = run => launched[x[1]] = run /\ x[2] <= round'[x[1]]
    BY <2>1, <2>2, <2>3
  <2>5. ASSUME heard \subseteq {run}
        PROVE  /\ \A m \in Node : roundPerNode[m] > 0 =>
                    launched[m] = run /\ roundPerNode[m] <= round'[m]
               /\ highestRound > 0 =>
                    \E m \in Node : launched[m] = run /\ highestRound <= round'[m]
    <3>1. /\ \A m \in Node : roundPerNode[m] > 0 =>
               launched[m] = run /\ roundPerNode[m] <= round[m]
          /\ highestRound > 0 =>
               \E m \in Node : launched[m] = run /\ highestRound <= round[m]
          /\ highestRound \in Nat
      BY <1>0, <2>5
    <3>2. \A m \in Node : roundPerNode[m] > 0 => launched[m] = run /\ roundPerNode[m] <= round'[m]
      BY <2>1, <2>2, <3>1
    <3>3. highestRound > 0 => \E m \in Node : launched[m] = run /\ highestRound <= round'[m]
      BY <2>1, <2>2, <3>1
    <3> QED BY <3>2, <3>3
  <2> QED BY <1>0, <2>1, <2>3, <2>4, <2>5
<1>15. ASSUME NEW n \in Node, BarrierOpens(n) PROVE Reports'
  BY <1>0, <1>15 DEF BarrierOpens
<1>16. ASSUME NEW n \in Node, BarrierGivesUp(n) PROVE Reports'
  BY <1>0, <1>16 DEF BarrierGivesUp
<1>17. ASSUME NEW n \in Node, Leave(n) PROVE Reports'
  BY <1>0, <1>17 DEF Leave
<1>18. ASSUME NEW n \in Node, Crash(n) PROVE Reports'
  BY <1>0, <1>18 DEF Crash
<1>19. CASE UNCHANGED vars
  BY <1>0, <1>19 DEF vars
<1> QED
  BY <1>1, <1>2, <1>3, <1>4, <1>5, <1>6, <1>7, <1>8, <1>9, <1>10, <1>11,
     <1>12, <1>13, <1>14, <1>15, <1>16, <1>17, <1>18, <1>19 DEF Next

LEMMA StagesStep == IInv /\ [Next]_vars => Stages'
<1> SUFFICES ASSUME IInv, [Next]_vars PROVE Stages'
  OBVIOUS
<1>0. TypeOK /\ Launching /\ Stages BY DEF IInv
<1>a. run \in Nat BY <1>0, Configurations
<1> USE DEF TypeOK, Launching, Stages, managerVars, nodeVars, history, NoRounds, Alive, Own, run
<1>1. ASSUME NEW c \in Config, StartRequest(c) PROVE Stages'
  <2>1. UNCHANGED <<proc, launched, round>>
    BY <1>1 DEF StartRequest
  <2>2. ASSUME NEW n \in Node, Alive(n) PROVE configs'[launched[n]] = configs[launched[n]]
    BY <1>0, <1>a, <1>1, <2>2, Appended DEF StartRequest
  <2> QED BY <1>0, <2>1, <2>2
<1>2. CASE StopRequest
  BY <1>0, <1>2 DEF StopRequest
<1>3. CASE DrainAndLaunch
  BY <1>0, <1>3, <1>a DEF DrainAndLaunch, ForgetRemoved
<1>4. CASE Stopped
  BY <1>0, <1>4 DEF Stopped
<1>5. CASE RequestFails
  BY <1>0, <1>5 DEF RequestFails
<1>6. CASE Clear
  BY <1>0, <1>6 DEF Clear
<1>7. ASSUME NEW n \in Node, StopContainer(n) PROVE Stages'
  BY <1>0, <1>7 DEF StopContainer
<1>8. ASSUME NEW n \in Node, Launch(n) PROVE Stages'
  <2>1. /\ configs' = configs /\ run > 0 /\ configs[run] \in Config
    BY <1>0, <1>a, <1>8, Configurations DEF Launch
  <2>2. CASE UNCHANGED <<proc, launched, round>>
    BY <1>0, <2>1, <2>2
  <2>3. CASE /\ launched' = [launched EXCEPT ![n] = run]
             /\ round' = [round EXCEPT ![n] = 0]
             /\ \E p \in {"up", "exited"} : proc' = [proc EXCEPT ![n] =
                     IF p = "exited" THEN p
                     ELSE IF JoinRound(configs[run], n) > 0 THEN "wait" ELSE "train"]
    <3>1. proc'[n] = "wait" => n \in configs[run].late
      BY <1>0, <2>1, <2>3, Schedule
    <3>2. proc'[n] # "barrier"
      BY <1>0, <2>3
    <3>3. \A m \in Node \ {n} : proc'[m] = proc[m] /\ launched'[m] = launched[m] /\ round'[m] = round[m]
      BY <1>0, <2>3
    <3>4. launched'[n] = run
      BY <1>0, <2>3
    <3> QED BY <1>0, <2>1, <3>1, <3>2, <3>3, <3>4
  <2> QED BY <1>8, <2>2, <2>3 DEF Launch
<1>9. ASSUME NEW n \in Node, Push(n) PROVE Stages'
  BY <1>0, <1>9 DEF Push
<1>10. ASSUME NEW x \in inFlight, LosePush(x) PROVE Stages'
  BY <1>0, <1>10 DEF LosePush
<1>11. ASSUME NEW x \in inFlight, ReceivePush(x) PROVE Stages'
  BY <1>0, <1>11 DEF ReceivePush
<1>12. ASSUME NEW n \in Node, Join(n) PROVE Stages'
  BY <1>0, <1>12 DEF Join
<1>13. ASSUME NEW n \in Node, NextRound(n) PROVE Stages'
  BY <1>0, <1>13, Configurations, Schedule DEF NextRound, Larger
<1>14. ASSUME NEW n \in Node, Finish(n) PROVE Stages'
  BY <1>0, <1>14 DEF Finish
<1>15. ASSUME NEW n \in Node, BarrierOpens(n) PROVE Stages'
  BY <1>0, <1>15 DEF BarrierOpens
<1>16. ASSUME NEW n \in Node, BarrierGivesUp(n) PROVE Stages'
  BY <1>0, <1>16 DEF BarrierGivesUp
<1>17. ASSUME NEW n \in Node, Leave(n) PROVE Stages'
  BY <1>0, <1>17 DEF Leave
<1>18. ASSUME NEW n \in Node, Crash(n) PROVE Stages'
  BY <1>0, <1>18 DEF Crash
<1>19. CASE UNCHANGED vars
  BY <1>0, <1>19 DEF vars
<1> QED
  BY <1>1, <1>2, <1>3, <1>4, <1>5, <1>6, <1>7, <1>8, <1>9, <1>10, <1>11,
     <1>12, <1>13, <1>14, <1>15, <1>16, <1>17, <1>18, <1>19 DEF Next

LEMMA CompletedStep == IInv /\ [Next]_vars => Completed'
<1> SUFFICES ASSUME IInv, [Next]_vars PROVE Completed'
  OBVIOUS
<1>0. TypeOK /\ Launching /\ Stages /\ Completed BY DEF IInv
<1>a. run \in Nat BY <1>0, Configurations
<1> USE DEF TypeOK, Launching, Stages, Completed, managerVars, nodeVars, history, NoRounds, Alive, Own, run
<1>1. ASSUME NEW c \in Config, StartRequest(c) PROVE Completed'
  BY <1>0, <1>1, <1>a DEF StartRequest
<1>2. CASE StopRequest
  BY <1>0, <1>2 DEF StopRequest
<1>3. CASE DrainAndLaunch
  BY <1>0, <1>3, <1>a DEF DrainAndLaunch, ForgetRemoved
<1>4. CASE Stopped
  BY <1>0, <1>4 DEF Stopped
<1>5. CASE RequestFails
  BY <1>0, <1>5 DEF RequestFails
<1>6. CASE Clear
  BY <1>0, <1>6 DEF Clear
<1>7. ASSUME NEW n \in Node, StopContainer(n) PROVE Completed'
  BY <1>0, <1>7 DEF StopContainer
<1>8. ASSUME NEW n \in Node, Launch(n) PROVE Completed'
  <2> SUFFICES ASSUME ~disturbed' PROVE Completed'
    OBVIOUS
  <2>1. /\ ~disturbed /\ request' \in {"none", "launch"}
        /\ UNCHANGED <<configs, roundPerNode, drained>> /\ todo' = todo \ {n}
        /\ proc' = [proc EXCEPT ![n] = IF JoinRound(configs[run], n) > 0 THEN "wait" ELSE "train"]
        /\ launched' = [launched EXCEPT ![n] = run]
    BY <1>8 DEF Launch
  <2> QED BY <1>0, <1>a, <2>1
<1>9. ASSUME NEW n \in Node, Push(n) PROVE Completed'
  BY <1>0, <1>9 DEF Push
<1>10. ASSUME NEW x \in inFlight, LosePush(x) PROVE Completed'
  BY <1>0, <1>10 DEF LosePush
<1>11. ASSUME NEW x \in inFlight, ReceivePush(x) PROVE Completed'
  <2>1. UNCHANGED <<request, todo, configs, proc, launched, drained, disturbed>>
    BY <1>11 DEF ReceivePush
  <2>2. x[1] \in Node /\ x[2] \in Nat
    BY <1>0
  <2>3. \A k \in Node : roundPerNode'[k] \in Nat /\ roundPerNode'[k] >= roundPerNode[k]
    BY <1>0, <1>11, <2>2 DEF ReceivePush, RaisedRound, Larger
  <2>4. run > 0 => configs[run].nodes \subseteq Node /\ configs[run].rounds \in Nat
    BY <1>0, LastConfig
  <2>5. \A k \in Node : roundPerNode[k] \in Nat
    BY <1>0
  <2> QED BY <1>0, <1>a, <2>1, <2>3, <2>4, <2>5
<1>12. ASSUME NEW n \in Node, Join(n) PROVE Completed'
  BY <1>0, <1>12 DEF Join
<1>13. ASSUME NEW n \in Node, NextRound(n) PROVE Completed'
  BY <1>0, <1>13, Configurations, Schedule DEF NextRound, Larger
<1>14. ASSUME NEW n \in Node, Finish(n) PROVE Completed'
  BY <1>0, <1>14 DEF Finish
<1>15. ASSUME NEW n \in Node, BarrierOpens(n) PROVE Completed'
  BY <1>0, <1>15, <1>a, Configurations, Schedule DEF BarrierOpens, AllCompleted, Expected
<1>16. ASSUME NEW n \in Node, BarrierGivesUp(n) PROVE Completed'
  BY <1>0, <1>16 DEF BarrierGivesUp
<1>17. ASSUME NEW n \in Node, Leave(n) PROVE Completed'
  BY <1>0, <1>17, <1>a DEF Leave
<1>18. ASSUME NEW n \in Node, Crash(n) PROVE Completed'
  <2> SUFFICES ASSUME ~disturbed' PROVE Completed'
    OBVIOUS
  <2>1. /\ ~disturbed /\ Told(n) /\ proc' = [proc EXCEPT ![n] = "exited"]
        /\ UNCHANGED <<managerVars, launched, drained>>
    BY <1>18 DEF Crash
  <2>2. ASSUME run > 0, NEW m \in configs[run].nodes \ todo
        PROVE  /\ launched[m] = run
               /\ \/ proc'[m] # "exited" /\ Alive(m) /\ proc[m] # "leave"
                  \/ m \in configs[run].early
                  \/ roundPerNode[m] > configs[run].rounds
    <3>1. m \in Node /\ configs[run].rounds \in Nat
      BY <1>0, <2>2, LastConfig
    <3>2. CASE m = n /\ proc[n] = "barrier"
      BY <1>0, <2>1, <2>2, <3>1, <3>2 DEF Told
    <3> QED BY <1>0, <2>1, <2>2, <3>1, <3>2 DEF Told
  <2> QED BY <1>0, <1>a, <2>1, <2>2
<1>19. CASE UNCHANGED vars
  BY <1>0, <1>19 DEF vars
<1> QED
  BY <1>1, <1>2, <1>3, <1>4, <1>5, <1>6, <1>7, <1>8, <1>9, <1>10, <1>11,
     <1>12, <1>13, <1>14, <1>15, <1>16, <1>17, <1>18, <1>19 DEF Next

LEMMA AlwaysIInv == Spec => []IInv
<1>1. IInv /\ [Next]_vars => IInv'
  BY TypeOKStep, LaunchingStep, OneRunStep, ReportsStep, StagesStep, CompletedStep DEF IInv
<1> QED BY InitIInv, <1>1, PTL DEF Spec

-----------------------------------------------------------------------------
\* The manager's rounds, its requests and the stages of the containers keep
\* their types.
THEOREM TypeCorrect == Spec => []TypeOK
<1>1. IInv => TypeOK BY DEF IInv
<1> QED BY AlwaysIInv, <1>1, PTL

\* Whenever the completion barrier lets a node of the last run go, all its
\* expected nodes have finished (peer_node.py, metrics_service.py), whatever
\* pushes are late or lost, if the manager has heard of no other run since its
\* metrics were cleared.
THEOREM BarrierSafeAlways == Spec => BarrierSafe
<1>1. IInv => [\A n \in Node :
        BarrierOpens(n) /\ launched[n] = run /\ heard \subseteq {run} =>
          \A m \in Expected(configs[run]) :
            launched[m] = run /\ round[m] > configs[run].rounds]_vars
  <2> SUFFICES ASSUME IInv, AllCompleted, heard \subseteq {run},
                      NEW m \in Expected(configs[run])
               PROVE  launched[m] = run /\ round[m] > configs[run].rounds
    BY DEF BarrierOpens
  <2>1. run \in Nat /\ configs[run] \in Config
    BY Configurations DEF AllCompleted, IInv
  <2>2. m \in Node /\ configs[run].rounds \in Nat /\ roundPerNode[m] > configs[run].rounds
    BY <2>1, ControlAssumption DEF AllCompleted, Expected
  <2> QED BY <2>1, <2>2 DEF IInv, Reports, TypeOK
<1> QED BY AlwaysIInv, <1>1, PTL DEF BarrierSafe

\* wait_for_round lets a late joiner of the last run in only after a node of
\* the same run has reached its join round, under the same proviso.
THEOREM JoinsLateAlways == Spec => JoinsLate
<1>1. IInv => [\A n \in Node :
        Join(n) /\ launched[n] = run /\ heard \subseteq {run} =>
          \E m \in Node : launched[m] = run /\ round[m] >= JoinRound(Own(n), n)]_vars
  <2> SUFFICES ASSUME IInv, NEW n \in Node, Join(n), launched[n] = run,
                      heard \subseteq {run}
               PROVE  \E m \in Node : launched[m] = run /\ round[m] >= JoinRound(Own(n), n)
    OBVIOUS
  <2>1. /\ run \in Nat /\ launched[n] > 0
        /\ \A m \in Node : round[m] \in Nat
        /\ highestRound \in Nat
    BY Configurations DEF IInv, TypeOK, Launching, Join, Alive
  <2>2. JoinRound(Own(n), n) \in Nat /\ highestRound >= JoinRound(Own(n), n)
    BY <2>1, Configurations, Schedule DEF IInv, Own, Join
  <2>3. CASE highestRound > 0
    BY <2>1, <2>2, <2>3 DEF IInv, Reports
  <2>4. CASE highestRound = 0
    BY <2>1, <2>2, <2>4
  <2> QED BY <2>1, <2>3, <2>4
<1> QED BY AlwaysIInv, <1>1, PTL DEF JoinsLate

\* After the drain of start_nodes only what outlived the stop puts points of
\* another run into the file of this one.
THEOREM OneRunPerFileAlways == Spec => []OneRunPerFile
<1>1. IInv => OneRunPerFile
  BY DEF IInv, OneRun, OneRunPerFile
<1> QED BY AlwaysIInv, <1>1, PTL

\* Late joiners, early leavers and nodes at the barrier never all wait for one
\* another: what has been reported is enough for one of them to go on.
THEOREM NobodyStrandedAlways == Spec => []NobodyStranded
<1>1. ASSUME IInv PROVE NobodyStranded
  <2> DEFINE c == configs[run]
             up == {n \in c.nodes : Alive(n)}
             waiting == {n \in up : proc[n] = "wait"}
  <2> SUFFICES
        ASSUME run > 0, c.late \cup c.early # c.nodes, request = "none", ~disturbed,
               \A n \in up : proc[n] \in {"wait", "barrier"} /\ roundPerNode[n] >= round[n]
        PROVE  /\ \A n \in waiting : highestRound >= JoinRound(c, n)
               /\ waiting = {} => AllCompleted
    BY DEF NobodyStranded
  <2>1. c \in Config /\ c.nodes \subseteq Node /\ c.late \subseteq c.nodes /\ c.early \subseteq c.nodes
        /\ c.rounds \in Nat \ {0} /\ run \in Nat
    <3>1. run \in Nat /\ c \in Config
      BY <1>1, Configurations DEF IInv
    <3> QED BY <3>1, ControlAssumption
  <2>2. ASSUME NEW n \in c.nodes, n \notin c.early, n \notin waiting
        PROVE  roundPerNode[n] > c.rounds
    <3>1. launched[n] = run /\ (Alive(n) \/ roundPerNode[n] > c.rounds)
      BY <1>1, <2>2 DEF IInv, Completed, Launching
    <3>2. CASE Alive(n)
      <4>1. proc[n] = "barrier" /\ roundPerNode[n] >= round[n]
        BY <2>2, <3>2
      <4>2. round[n] = c.rounds + 1
        BY <1>1, <2>1, <3>1, <4>1 DEF IInv, Stages, Own
      <4> QED BY <1>1, <2>1, <4>1, <4>2 DEF IInv, TypeOK
    <3> QED BY <3>1, <3>2
  <2>3. PICK m \in c.nodes : m \notin c.late \cup c.early
    BY <2>1
  <2>4. m \notin waiting
    <3>1. ASSUME m \in waiting PROVE FALSE
      <4>1. launched[m] = run
        BY <1>1, <2>1, <2>3 DEF IInv, Completed, Launching
      <4> QED BY <1>1, <2>1, <2>3, <3>1, <4>1 DEF IInv, Stages, Own
    <3> QED BY <3>1
  <2>5. highestRound > c.rounds
    BY <1>1, <2>1, <2>2, <2>3, <2>4 DEF IInv, Reports, TypeOK
  <2>6. ASSUME NEW n \in waiting PROVE highestRound >= JoinRound(c, n)
    BY <1>1, <2>1, <2>5, Schedule DEF IInv, TypeOK
  <2>7. waiting = {} => AllCompleted
    BY <2>2 DEF AllCompleted, Expected
  <2> QED BY <2>6, <2>7
<1> QED BY AlwaysIInv, <1>1, PTL

-----------------------------------------------------------------------------
(* QuicLinks *)


LinksInv == LinksTypeOK /\ OneDial /\ LinkOrLoop /\ NoOrphanConnection /\ IncomingIsNewest

\* A node starts in the invariant.
LEMMA InitLinksInv == LinksInit => LinksInv
<1> SUFFICES ASSUME LinksInit PROVE LinksInv
  OBVIOUS
<1>1. /\ state \in PeerStates /\ peerState \in PeerStates
      /\ peer \in {"absent", "up", "gone"}
      /\ dialAttempts \in 0..FailLimit
  BY LinksAssumption DEF LinksInit, PeerStates
<1>2. LinksTypeOK
  BY <1>1 DEF LinksInit, LinksTypeOK
<1>3. OneDial /\ LinkOrLoop
  BY DEF LinksInit, OneDial, LinkOrLoop
<1>4. NoOrphanConnection
  BY DEF LinksInit, NoOrphanConnection
<1>5. IncomingIsNewest
  BY DEF LinksInit, IncomingIsNewest
<1> QED BY <1>2, <1>3, <1>4, <1>5 DEF LinksInv

\* Starting to dial: the connection taken is free at both ends.
LEMMA DialLinksInv ==
    ASSUME LinksInv, NEW who \in {"loop", "send"}, Dial(who), lock = "free",
           connection = NoConn, UNCHANGED <<shutVars, state, connection, started, joined>>,
           \/ who = "loop" /\ loop' = "dial" /\ send' = send
           \/ who = "send" /\ send' = "dial" /\ loop' = loop
    PROVE  LinksInv'
<1> PICK c \in Conns :
      /\ clientEnd[c] \in {"unused", "closed", "quit"} /\ c \notin toClose
      /\ serverEnd[c] # "open"
      /\ lock' = who /\ dialed' = c
      /\ clientEnd' = [clientEnd EXCEPT ![c] = "dialing"]
      /\ serverEnd' = [serverEnd EXCEPT ![c] = "unused"]
      /\ newest' = IF newest = c THEN NoConn ELSE newest
      /\ UNCHANGED <<dialAttempts, peer, incoming, peerState>>
  BY DEF Dial
<1> USE DEF shutVars
<1>1. LinksTypeOK'
  BY LinksAssumption DEF LinksInv, LinksTypeOK
<1>2. OneDial' /\ LinkOrLoop'
  BY DEF LinksInv, OneDial, LinkOrLoop, LinksTypeOK
<1>3. NoOrphanConnection'
  BY LinksAssumption DEF LinksInv, NoOrphanConnection, LinksTypeOK
<1>4. IncomingIsNewest'
  BY LinksAssumption DEF LinksInv, IncomingIsNewest, LinksTypeOK
<1> QED BY <1>1, <1>2, <1>3, <1>4 DEF LinksInv

\* Every step of either node preserves the invariant.
LEMMA StepLinksInv == LinksInv /\ [LinksNext]_linksVars => LinksInv'
<1> SUFFICES ASSUME LinksInv, [LinksNext]_linksVars PROVE LinksInv'
  OBVIOUS
<1> USE DEF shutVars, loopVars, dialVars, acceptor
<1>1. CASE ConnectPeers
  <2>1. LinksTypeOK'
    BY LinksAssumption, <1>1
       DEF LinksInv, LinksTypeOK, OneDial, PeerStates, ConnectPeers, Spawned
  <2>2. OneDial' /\ LinkOrLoop'
    BY LinksAssumption, <1>1
       DEF LinksInv, LinksTypeOK, OneDial, LinkOrLoop, ConnectPeers, Spawned
  <2>3. NoOrphanConnection'
    BY LinksAssumption, <1>1
       DEF LinksInv, LinksTypeOK, OneDial, NoOrphanConnection, ConnectPeers, Spawned
  <2>4. IncomingIsNewest'
    BY LinksAssumption, <1>1
       DEF LinksInv, LinksTypeOK, IncomingIsNewest, ConnectPeers, Spawned
  <2> QED BY <2>1, <2>2, <2>3, <2>4 DEF LinksInv
<1>2. CASE LoopExits
  <2>1. LinksTypeOK'
    BY LinksAssumption, <1>2
       DEF LinksInv, LinksTypeOK, OneDial, PeerStates, LoopExits, LoopAwake
  <2>2. OneDial' /\ LinkOrLoop'
    BY LinksAssumption, <1>2
       DEF LinksInv, LinksTypeOK, OneDial, LinkOrLoop, LoopExits, LoopAwake
  <2>3. NoOrphanConnection'
    BY LinksAssumption, <1>2
       DEF LinksInv, LinksTypeOK, OneDial, NoOrphanConnection, LoopExits, LoopAwake
  <2>4. IncomingIsNewest'
    BY LinksAssumption, <1>2
       DEF LinksInv, LinksTypeOK, IncomingIsNewest, LoopExits, LoopAwake
  <2> QED BY <2>1, <2>2, <2>3, <2>4 DEF LinksInv
<1>3. CASE LoopWaits
  <2>1. LinksTypeOK'
    BY LinksAssumption, <1>3
       DEF LinksInv, LinksTypeOK, OneDial, PeerStates, LoopWaits, LoopAwake
  <2>2. OneDial' /\ LinkOrLoop'
    BY LinksAssumption, <1>3
       DEF LinksInv, LinksTypeOK, OneDial, LinkOrLoop, LoopWaits, LoopAwake
  <2>3. NoOrphanConnection'
    BY LinksAssumption, <1>3
       DEF LinksInv, LinksTypeOK, OneDial, NoOrphanConnection, LoopWaits, LoopAwake
  <2>4. IncomingIsNewest'
    BY LinksAssumption, <1>3
       DEF LinksInv, LinksTypeOK, IncomingIsNewest, LoopWaits, LoopAwake
  <2> QED BY <2>1, <2>2, <2>3, <2>4 DEF LinksInv
<1>4. CASE ClientHandshake
  <2>1. LinksTypeOK'
    BY LinksAssumption, <1>4 DEF LinksInv, LinksTypeOK, OneDial, PeerStates, ClientHandshake, Dialing
  <2>2. OneDial' /\ LinkOrLoop'
    BY LinksAssumption, <1>4 DEF LinksInv, LinksTypeOK, OneDial, LinkOrLoop, ClientHandshake, Dialing
  <2>3. NoOrphanConnection'
    BY LinksAssumption, <1>4
       DEF LinksInv, LinksTypeOK, OneDial, NoOrphanConnection, ClientHandshake, Dialing
  <2>4. IncomingIsNewest'
    BY LinksAssumption, <1>4 DEF LinksInv, LinksTypeOK, IncomingIsNewest, ClientHandshake, Dialing
  <2> QED BY <2>1, <2>2, <2>3, <2>4 DEF LinksInv
<1>5. CASE DialTimesOut
  <2>1. LinksTypeOK'
    BY LinksAssumption, <1>5
       DEF LinksInv, LinksTypeOK, OneDial, PeerStates, DialTimesOut, Dialing, ClientTerminated,
           Spawned
  <2>2. OneDial' /\ LinkOrLoop'
    BY LinksAssumption, <1>5
       DEF LinksInv, LinksTypeOK, OneDial, LinkOrLoop, DialTimesOut, Dialing, ClientTerminated,
           Spawned
  <2>3. NoOrphanConnection'
    BY LinksAssumption, <1>5
       DEF LinksInv, LinksTypeOK, OneDial, NoOrphanConnection, DialTimesOut, Dialing,
           ClientTerminated, Spawned
  <2>4. IncomingIsNewest'
    BY LinksAssumption, <1>5
       DEF LinksInv, LinksTypeOK, IncomingIsNewest, DialTimesOut, Dialing, ClientTerminated,
           Spawned
  <2> QED BY <2>1, <2>2, <2>3, <2>4 DEF LinksInv
<1>6. CASE DialReturns
  <2>1. LinksTypeOK'
    BY LinksAssumption, <1>6
       DEF LinksInv, LinksTypeOK, OneDial, PeerStates, DialReturns, Dialing, Release
  <2>2. OneDial' /\ LinkOrLoop'
    BY LinksAssumption, <1>6
       DEF LinksInv, LinksTypeOK, OneDial, LinkOrLoop, DialReturns, Dialing, Release
  <2>3. NoOrphanConnection'
    BY LinksAssumption, <1>6
       DEF LinksInv, LinksTypeOK, OneDial, NoOrphanConnection, DialReturns, Dialing, Release
  <2>4. IncomingIsNewest'
    BY LinksAssumption, <1>6
       DEF LinksInv, LinksTypeOK, IncomingIsNewest, DialReturns, Dialing, Release
  <2> QED BY <2>1, <2>2, <2>3, <2>4 DEF LinksInv
<1>7. CASE DialRaises
  <2>1. LinksTypeOK'
    BY LinksAssumption, <1>7
       DEF LinksInv, LinksTypeOK, OneDial, PeerStates, DialRaises, Dialing, Release
  <2>2. OneDial' /\ LinkOrLoop'
    BY LinksAssumption, <1>7
       DEF LinksInv, LinksTypeOK, OneDial, LinkOrLoop, DialRaises, Dialing, Release
  <2>3. NoOrphanConnection'
    BY LinksAssumption, <1>7
       DEF LinksInv, LinksTypeOK, OneDial, NoOrphanConnection, DialRaises, Dialing, Release
  <2>4. IncomingIsNewest'
    BY LinksAssumption, <1>7 DEF LinksInv, LinksTypeOK, IncomingIsNewest, DialRaises, Dialing, Release
  <2> QED BY <2>1, <2>2, <2>3, <2>4 DEF LinksInv
<1>8. CASE PeerStarts
  <2>1. LinksTypeOK'
    BY LinksAssumption, <1>8 DEF LinksInv, LinksTypeOK, OneDial, PeerStates, PeerStarts
  <2>2. OneDial' /\ LinkOrLoop'
    BY LinksAssumption, <1>8 DEF LinksInv, LinksTypeOK, OneDial, LinkOrLoop, PeerStarts
  <2>3. NoOrphanConnection'
    BY LinksAssumption, <1>8
       DEF LinksInv, LinksTypeOK, OneDial, NoOrphanConnection, PeerStarts
  <2>4. IncomingIsNewest'
    BY LinksAssumption, <1>8 DEF LinksInv, LinksTypeOK, IncomingIsNewest, PeerStarts
  <2> QED BY <2>1, <2>2, <2>3, <2>4 DEF LinksInv
<1>9. CASE PeerStops
  <2>1. LinksTypeOK'
    BY LinksAssumption, <1>9 DEF LinksInv, LinksTypeOK, OneDial, PeerStates, PeerStops
  <2>2. OneDial' /\ LinkOrLoop'
    BY LinksAssumption, <1>9 DEF LinksInv, LinksTypeOK, OneDial, LinkOrLoop, PeerStops
  <2>3. NoOrphanConnection'
    BY LinksAssumption, <1>9
       DEF LinksInv, LinksTypeOK, OneDial, NoOrphanConnection, PeerStops
  <2>4. IncomingIsNewest'
    BY LinksAssumption, <1>9 DEF LinksInv, LinksTypeOK, IncomingIsNewest, PeerStops
  <2> QED BY <2>1, <2>2, <2>3, <2>4 DEF LinksInv
<1>10. CASE JoinRoundReached
  <2>1. LinksTypeOK'
    BY LinksAssumption, <1>10 DEF LinksInv, LinksTypeOK, OneDial, PeerStates, JoinRoundReached
  <2>2. OneDial' /\ LinkOrLoop'
    BY LinksAssumption, <1>10 DEF LinksInv, LinksTypeOK, OneDial, LinkOrLoop, JoinRoundReached
  <2>3. NoOrphanConnection'
    BY LinksAssumption, <1>10
       DEF LinksInv, LinksTypeOK, OneDial, NoOrphanConnection, JoinRoundReached
  <2>4. IncomingIsNewest'
    BY LinksAssumption, <1>10 DEF LinksInv, LinksTypeOK, IncomingIsNewest, JoinRoundReached
  <2> QED BY <2>1, <2>2, <2>3, <2>4 DEF LinksInv
<1>11. CASE SessionChanges
  <2>1. LinksTypeOK'
    BY LinksAssumption, <1>11 DEF LinksInv, LinksTypeOK, OneDial, PeerStates, SessionChanges
  <2>2. OneDial' /\ LinkOrLoop'
    BY LinksAssumption, <1>11 DEF LinksInv, LinksTypeOK, OneDial, LinkOrLoop, SessionChanges
  <2>3. NoOrphanConnection'
    BY LinksAssumption, <1>11
       DEF LinksInv, LinksTypeOK, OneDial, NoOrphanConnection, SessionChanges
  <2>4. IncomingIsNewest'
    BY LinksAssumption, <1>11 DEF LinksInv, LinksTypeOK, IncomingIsNewest, SessionChanges
  <2> QED BY <2>1, <2>2, <2>3, <2>4 DEF LinksInv
<1>12. CASE ShutDown
  <2>1. LinksTypeOK'
    BY LinksAssumption, <1>12 DEF LinksInv, LinksTypeOK, OneDial, PeerStates, ShutDown
  <2>2. OneDial' /\ LinkOrLoop'
    BY LinksAssumption, <1>12 DEF LinksInv, LinksTypeOK, OneDial, LinkOrLoop, ShutDown
  <2>3. NoOrphanConnection'
    BY LinksAssumption, <1>12
       DEF LinksInv, LinksTypeOK, OneDial, NoOrphanConnection, ShutDown
  <2>4. IncomingIsNewest'
    BY LinksAssumption, <1>12 DEF LinksInv, LinksTypeOK, IncomingIsNewest, ShutDown
  <2> QED BY <2>1, <2>2, <2>3, <2>4 DEF LinksInv
<1>13. CASE CancelLoop
  <2>1. LinksTypeOK'
    <3>1. loop' \in {"off", "cancelled"} /\ (loop' = "cancelled" <=> loop \in {"dial", "cancelled"})
      <4>1. loop # "cancelled" BY <1>13 DEF LinksInv, LinksTypeOK, CancelLoop
      <4> QED BY <1>13, <4>1 DEF CancelLoop
    <3> QED BY LinksAssumption, <1>13, <3>1
            DEF LinksInv, LinksTypeOK, OneDial, PeerStates, CancelLoop
  <2>2. OneDial' /\ LinkOrLoop'
    BY LinksAssumption, <1>13
       DEF LinksInv, LinksTypeOK, OneDial, LinkOrLoop, CancelLoop
  <2>3. NoOrphanConnection'
    BY LinksAssumption, <1>13
       DEF LinksInv, LinksTypeOK, OneDial, NoOrphanConnection, CancelLoop
  <2>4. IncomingIsNewest'
    BY LinksAssumption, <1>13
       DEF LinksInv, LinksTypeOK, IncomingIsNewest, CancelLoop
  <2> QED BY <2>1, <2>2, <2>3, <2>4 DEF LinksInv
<1>22. CASE CancelledDialEnds
  <2>1. LinksTypeOK'
    BY LinksAssumption, <1>22
       DEF LinksInv, LinksTypeOK, OneDial, PeerStates, CancelledDialEnds
  <2>2. OneDial' /\ LinkOrLoop'
    BY LinksAssumption, <1>22
       DEF LinksInv, LinksTypeOK, OneDial, LinkOrLoop, CancelledDialEnds
  <2>3. NoOrphanConnection'
    BY LinksAssumption, <1>22
       DEF LinksInv, LinksTypeOK, OneDial, NoOrphanConnection, CancelledDialEnds
  <2>4. IncomingIsNewest'
    BY LinksAssumption, <1>22
       DEF LinksInv, LinksTypeOK, IncomingIsNewest, CancelledDialEnds
  <2> QED BY <2>1, <2>2, <2>3, <2>4 DEF LinksInv
<1>23. CASE ForgetConnections
  <2>1. LinksTypeOK'
    BY LinksAssumption, <1>23
       DEF LinksInv, LinksTypeOK, OneDial, PeerStates, ForgetConnections
  <2>2. OneDial' /\ LinkOrLoop'
    BY LinksAssumption, <1>23
       DEF LinksInv, LinksTypeOK, OneDial, LinkOrLoop, ForgetConnections
  <2>3. NoOrphanConnection'
    BY LinksAssumption, <1>23
       DEF LinksInv, LinksTypeOK, OneDial, NoOrphanConnection, ForgetConnections
  <2>4. IncomingIsNewest'
    BY LinksAssumption, <1>23
       DEF LinksInv, LinksTypeOK, IncomingIsNewest, ForgetConnections
  <2> QED BY <2>1, <2>2, <2>3, <2>4 DEF LinksInv
<1>24. ASSUME NEW c \in Conns, CloseConnection(c) PROVE LinksInv'
  <2>1. LinksTypeOK'
    BY LinksAssumption, <1>24
       DEF LinksInv, LinksTypeOK, OneDial, PeerStates, CloseConnection
  <2>2. OneDial' /\ LinkOrLoop'
    BY LinksAssumption, <1>24
       DEF LinksInv, LinksTypeOK, OneDial, LinkOrLoop, CloseConnection
  <2>3. NoOrphanConnection'
    BY LinksAssumption, <1>24
       DEF LinksInv, LinksTypeOK, OneDial, NoOrphanConnection, CloseConnection
  <2>4. IncomingIsNewest'
    BY LinksAssumption, <1>24
       DEF LinksInv, LinksTypeOK, IncomingIsNewest, CloseConnection
  <2> QED BY <2>1, <2>2, <2>3, <2>4 DEF LinksInv
<1>14. ASSUME NEW c \in Conns, ClientEndLost(c) PROVE LinksInv'
  <2>1. LinksTypeOK'
    <3>1. PICK reason \in {"", "Idle timeout"} : ClientTerminated(reason)
      BY <1>14 DEF ClientEndLost
    <3>2. state' \in PeerStates /\ loop' \in {"off", "begin", "wait", "locked", "dial", "backoff", "cancelled"}
      BY <3>1 DEF LinksInv, LinksTypeOK, PeerStates, ClientTerminated, Spawned
    <3>3. /\ lock = "loop" <=> loop' \in {"dial", "cancelled"}
          /\ loop' = "cancelled" => loop = "cancelled"
      BY <3>1 DEF LinksInv, LinksTypeOK, ClientTerminated, Spawned
    <3>4. /\ connection' = NoConn
          /\ clientEnd' \in [Conns -> {"unused", "dialing", "open", "failed", "closed", "quit"}]
      BY <1>14, <3>1 DEF LinksInv, LinksTypeOK, ClientEndLost, ClientTerminated
    <3>5. UNCHANGED <<shutVars, started, joined, send, dialVars, acceptor>>
      BY <1>14 DEF ClientEndLost
    <3>6. /\ UNCHANGED <<started, joined, closing, toClose, send, lock, dialed, incoming,
                         newest, dialAttempts, peer, peerState, serverEnd>>
          /\ shuttingDown' = shuttingDown
      BY <3>5 DEF shutVars, dialVars, acceptor
    <3>7. LinksTypeOK
      BY DEF LinksInv
    <3>8. /\ started' \in BOOLEAN /\ shuttingDown' \in BOOLEAN /\ joined' \in BOOLEAN
          /\ closing' # "no" => shuttingDown'
      BY <3>6, <3>7, Zenon DEF LinksTypeOK
    <3> QED
      BY <3>2, <3>3, <3>4, <3>6, <3>7, <3>8 DEF LinksTypeOK
  <2>2. OneDial' /\ LinkOrLoop'
    BY LinksAssumption, <1>14
       DEF LinksInv, LinksTypeOK, OneDial, LinkOrLoop, ClientEndLost, ClientTerminated,
           Spawned
  <2>3. NoOrphanConnection'
    <3>1. PICK reason \in {"", "Idle timeout"} : ClientTerminated(reason)
      BY <1>14 DEF ClientEndLost
    <3>2. /\ clientEnd' = [clientEnd EXCEPT ![c] = "closed"] /\ closing' = closing
          /\ dialed' = dialed /\ connection' = NoConn /\ clientEnd[c] = "open"
      BY <1>14, <3>1 DEF ClientEndLost, ClientTerminated, dialVars
    <3>3. ASSUME closing # "links", NEW d \in Conns, clientEnd'[d] = "open" PROVE d = dialed
      <4>1. clientEnd[d] = "open" /\ d # c
        BY <3>2, <3>3 DEF LinksInv, LinksTypeOK
      <4>2. {c, d} \subseteq {connection, dialed}
        BY <3>2, <3>3, <4>1 DEF LinksInv, NoOrphanConnection
      <4>3. dialed = NoConn \/ connection = NoConn
        BY DEF LinksInv, LinksTypeOK, OneDial
      <4> QED
        BY <4>1, <4>2, <4>3, LinksAssumption
    <3> QED
      BY <3>2, <3>3 DEF NoOrphanConnection
  <2>4. IncomingIsNewest'
    BY LinksAssumption, <1>14
       DEF LinksInv, LinksTypeOK, IncomingIsNewest, ClientEndLost, ClientTerminated,
           Spawned
  <2> QED BY <2>1, <2>2, <2>3, <2>4 DEF LinksInv
<1>15. ASSUME NEW c \in Conns, ServerHandshake(c) PROVE LinksInv'
  <2>1. LinksTypeOK'
    BY LinksAssumption, <1>15 DEF LinksInv, LinksTypeOK, OneDial, PeerStates, ServerHandshake
  <2>2. OneDial' /\ LinkOrLoop'
    BY LinksAssumption, <1>15 DEF LinksInv, LinksTypeOK, OneDial, LinkOrLoop, ServerHandshake
  <2>3. NoOrphanConnection'
    BY LinksAssumption, <1>15
       DEF LinksInv, LinksTypeOK, OneDial, NoOrphanConnection, ServerHandshake
  <2>4. IncomingIsNewest'
    BY LinksAssumption, <1>15 DEF LinksInv, LinksTypeOK, IncomingIsNewest, ServerHandshake
  <2> QED BY <2>1, <2>2, <2>3, <2>4 DEF LinksInv
<1>16. ASSUME NEW c \in Conns, ServerEndLost(c) PROVE LinksInv'
  <2>1. LinksTypeOK'
    <3>1. peerState' \in PeerStates
      BY <1>16 DEF LinksInv, LinksTypeOK, PeerStates, ServerEndLost
    <3>2. incoming' \in Conns \cup {NoConn}
      BY <1>16 DEF LinksInv, LinksTypeOK, ServerEndLost, Removed
    <3>3. serverEnd' \in [Conns -> {"unused", "open", "closed"}]
      BY <1>16 DEF LinksInv, LinksTypeOK, ServerEndLost
    <3>4. UNCHANGED <<shutVars, state, connection, clientEnd, loopVars, dialVars, peer, newest>>
      BY <1>16 DEF ServerEndLost
    <3> QED
      BY <3>1, <3>2, <3>3, <3>4 DEF LinksInv, LinksTypeOK, loopVars, dialVars
  <2>2. OneDial' /\ LinkOrLoop'
    BY LinksAssumption, <1>16
       DEF LinksInv, LinksTypeOK, OneDial, LinkOrLoop, ServerEndLost, Removed
  <2>3. NoOrphanConnection'
    BY LinksAssumption, <1>16
       DEF LinksInv, LinksTypeOK, OneDial, NoOrphanConnection, ServerEndLost, Removed
  <2>4. IncomingIsNewest'
    BY LinksAssumption, <1>16
       DEF LinksInv, LinksTypeOK, IncomingIsNewest, ServerEndLost, Removed
  <2> QED BY <2>1, <2>2, <2>3, <2>4 DEF LinksInv
<1>17. CASE LoopDials
  <2>1. CASE lock = "free"
    BY <1>17, <2>1, DialLinksInv DEF LoopDials, LoopAwake
  <2>2. CASE ~(lock = "free")
    <3>1. LinksTypeOK'
      BY LinksAssumption, <1>17, <2>2 DEF LinksInv, LinksTypeOK, LoopDials, LoopAwake
    <3>2. OneDial' /\ LinkOrLoop' /\ NoOrphanConnection' /\ IncomingIsNewest'
      BY <1>17, <2>2 DEF LinksInv, LinksTypeOK, OneDial, LinkOrLoop, NoOrphanConnection,
         IncomingIsNewest, LoopDials, LoopAwake
    <3> QED BY <3>1, <3>2 DEF LinksInv
  <2> QED BY <2>1, <2>2
<1>18. CASE LoopGetsLock
  <2>1. CASE connection = NoConn
    BY <1>18, <2>1, DialLinksInv DEF LoopGetsLock
  <2>2. CASE ~(connection = NoConn)
    <3>1. LinksTypeOK'
      BY LinksAssumption, <1>18, <2>2 DEF LinksInv, LinksTypeOK, LoopGetsLock
    <3>2. OneDial' /\ LinkOrLoop' /\ NoOrphanConnection' /\ IncomingIsNewest'
      BY <1>18, <2>2 DEF LinksInv, LinksTypeOK, OneDial, LinkOrLoop, NoOrphanConnection,
         IncomingIsNewest, LoopGetsLock
    <3> QED BY <3>1, <3>2 DEF LinksInv
  <2> QED BY <2>1, <2>2
<1>19. CASE SendDials
  <2>1. CASE lock = "free"
    BY <1>19, <2>1, DialLinksInv DEF SendDials
  <2>2. CASE ~(lock = "free")
    <3>1. LinksTypeOK'
      BY LinksAssumption, <1>19, <2>2 DEF LinksInv, LinksTypeOK, SendDials
    <3>2. OneDial' /\ LinkOrLoop' /\ NoOrphanConnection' /\ IncomingIsNewest'
      BY <1>19, <2>2 DEF LinksInv, LinksTypeOK, OneDial, LinkOrLoop, NoOrphanConnection,
         IncomingIsNewest, SendDials
    <3> QED BY <3>1, <3>2 DEF LinksInv
  <2> QED BY <2>1, <2>2
<1>20. CASE SendGetsLock
  <2>1. CASE connection = NoConn
    BY <1>20, <2>1, DialLinksInv DEF SendGetsLock
  <2>2. CASE ~(connection = NoConn)
    <3>1. LinksTypeOK'
      BY LinksAssumption, <1>20, <2>2 DEF LinksInv, LinksTypeOK, SendGetsLock
    <3>2. OneDial' /\ LinkOrLoop' /\ NoOrphanConnection' /\ IncomingIsNewest'
      BY <1>20, <2>2 DEF LinksInv, LinksTypeOK, OneDial, LinkOrLoop, NoOrphanConnection,
         IncomingIsNewest, SendGetsLock
    <3> QED BY <3>1, <3>2 DEF LinksInv
  <2> QED BY <2>1, <2>2
<1>21. CASE UNCHANGED linksVars
  BY <1>21 DEF LinksInv, LinksTypeOK, OneDial, LinkOrLoop, NoOrphanConnection,
     IncomingIsNewest, linksVars
<1> QED
  BY <1>1, <1>2, <1>3, <1>4, <1>5, <1>6, <1>7, <1>8, <1>9, <1>10, <1>11, <1>12, <1>13, <1>14, <1>15, <1>16, <1>17, <1>18, <1>19, <1>20, <1>21, <1>22, <1>23, <1>24
     DEF LinksNext

LEMMA AlwaysLinksInv == LinksSpec => []LinksInv
BY InitLinksInv, StepLinksInv, PTL DEF LinksSpec

\* The state of both nodes has its type and the lock its holder.
THEOREM LinksTypeCorrect == LinksSpec => []LinksTypeOK
BY AlwaysLinksInv, PTL DEF LinksInv

\* Nothing is registered while a dial is under way.
THEOREM OneDialAlways == LinksSpec => []OneDial
BY AlwaysLinksInv, PTL DEF LinksInv

\* A running node without a connection has a reconnect loop.
THEOREM LinkOrLoopAlways == LinksSpec => []LinkOrLoop
BY AlwaysLinksInv, PTL DEF LinksInv

\* No open connection is forgotten by the dialer.
THEOREM NoOrphanConnectionAlways == LinksSpec => []NoOrphanConnection
BY AlwaysLinksInv, PTL DEF LinksInv

\* What the acceptor has registered is the newest connection and open.
THEOREM IncomingIsNewestAlways == LinksSpec => []IncomingIsNewest
BY AlwaysLinksInv, PTL DEF LinksInv
=============================================================================
