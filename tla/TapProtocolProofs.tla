------------------------- MODULE TapProtocolProofs -------------------------
(***************************************************************************)
(* Proofs about TapProtocol: in both demos, for any calls and any ends of  *)
(* processes, an alarm accuses one call, of an answer that was released    *)
(* and that a recomputation contradicts, and a training digest can be      *)
(* fetched from the run of the Host that answered with it.                 *)
(***************************************************************************)
EXTENDS TapProtocol, TLAPS

-----------------------------------------------------------------------------
(* The inductive invariant *)

Domains ==
    /\ DOMAIN request = Calls /\ DOMAIN run = Calls
    /\ DOMAIN answer = Calls /\ DOMAIN answered = Calls

Started(c) == gateway[c] # "idle"

\* A call gets the next number of the Gateway's run, and keeps it.
NumberInv ==
    \A c \in Calls :
        /\ ~Started(c) => request[c].id = 0
        /\ Started(c) =>
              /\ request[c] = Sign(c, request[c].id) /\ request[c].id > 0
              /\ run[c] <= ends["gateway"]
              /\ run[c] = ends["gateway"] => request[c].id <= counter

\* No two calls of one run of the Gateway have one number.
UniqueInv ==
    \A c, d \in Calls :
        Started(c) /\ Started(d) /\ run[c] = run[d] /\ request[c].id = request[d].id
            => c = d

\* How far a call has come; an answer that was passed on stays what it was.
RelayInv ==
    \A c \in Calls :
        /\ tap[c] # "idle" => Started(c)
        /\ host[c] # "idle" => tap[c] # "idle"
        /\ tap[c] \in {"sent", "done", "broken"} \/ gateway[c] = "ok" => host[c] = "answered"
        /\ host[c] \in {"trained", "answered"} =>
              answer[c] = Sign(answer[c].payload, request[c].id)
        /\ copy[c] # "idle" => tap[c] = "done"

\* What this run of the Host has answered is in its registry.
AdapterInv ==
    \A c \in Calls :
        /\ host[c] = "trained" => answer[c].payload \in disk
        /\ host[c] = "answered" => answered[c] <= ends["host"]
        /\ host[c] = "answered" /\ demo = "training" /\ answered[c] = ends["host"] =>
              answer[c].payload \in adapters
        /\ fetched[c] = "unknown" => host[c] = "answered" /\ answered[c] < ends["host"]

\* An alarm is the record of a call's one judgement.
AlarmInv ==
    /\ \A a \in alarms :
          /\ a.call \in Calls /\ copy[a.call] = "alarmed"
          /\ a.id = request[a.call].id /\ a.run = run[a.call]
          /\ a.expected = answer[a.call].payload /\ a.expected # a.actual
    /\ \A a, b \in alarms : a.call = b.call => a = b

IInv == TypeOK /\ Domains /\ NumberInv /\ UniqueInv /\ RelayInv /\ AdapterInv /\ AlarmInv

-----------------------------------------------------------------------------
(* What the steps leave alone *)

\* Numbers are the Gateway's.
LEMMA GatewayFrame ==
  ASSUME IInv, [Next]_vars
  PROVE  \/ \E c \in Calls : Gateway(c)
         \/ GatewayEnds
         \/ UNCHANGED gatewayVars /\ ends'["gateway"] = ends["gateway"]
<1>1. DOMAIN ends = Processes
  BY DEF IInv, TypeOK
<1>2. ASSUME NEW p \in Processes \ {"gateway"}, Ends(p)
      PROVE  ends'["gateway"] = ends["gateway"]
  BY <1>1, <1>2 DEF Ends, Processes
<1>3. ASSUME NEW c \in Calls,
             Tap(c) \/ InferenceHost(c) \/ TrainingHost(c) \/ ClientFetches(c)
      PROVE  UNCHANGED gatewayVars /\ ends'["gateway"] = ends["gateway"]
  BY <1>3 DEF Tap, TapReceives, TapReleases, TapSpawns, TapGivesUp, InferenceHost,
     HostReceives, HostFails, HostInfers, TrainingHost, HostTakesLock, HostRegisters,
     Registered, HostTrains, Trained, ClientFetches
<1>4. ASSUME NEW c \in Calls, InferenceRecomp(c) \/ TrainingRecomp(c)
      PROVE  UNCHANGED gatewayVars /\ ends'["gateway"] = ends["gateway"]
  BY <1>4 DEF InferenceRecomp, RecompReceives, RecompFails, Raises, RecompInfers,
     TrainingRecomp, RecompTakesLock, RecompTrains
<1>5. ASSUME TapEnds \/ HostEnds \/ RecompEnds
      PROVE  UNCHANGED gatewayVars /\ ends'["gateway"] = ends["gateway"]
  BY <1>2, <1>5 DEF TapEnds, HostEnds, RecompEnds, Processes, Clusters
<1>6. ASSUME NEW p \in Processes, Starts(p) \/ HostBoots \/ RecompBoots \/ UNCHANGED vars
      PROVE  UNCHANGED gatewayVars /\ ends'["gateway"] = ends["gateway"]
  BY <1>6 DEF Starts, HostBoots, RecompBoots, Warms, vars
<1>7. "gateway" \in Processes
  BY DEF Processes
<1> QED
  BY <1>3, <1>4, <1>5, <1>6, <1>7 DEF Next

\* A call that has a number keeps it.
LEMMA NumbersKept ==
  ASSUME IInv, [Next]_vars, NEW c \in Calls, Started(c)
  PROVE  request'[c] = request[c] /\ run'[c] = run[c] /\ Started(c)'
<1>1. DOMAIN request = Calls /\ DOMAIN run = Calls /\ DOMAIN gateway = Calls
  BY DEF IInv, Domains, TypeOK
<1>2. ASSUME NEW d \in Calls, Gateway(d)
      PROVE  request'[c] = request[c] /\ run'[c] = run[c] /\ gateway'[c] # "idle"
  BY <1>1, <1>2 DEF Gateway, GatewayAccepts, Numbered, GatewayReturns, GatewayGivesUp, Started
<1>3. ASSUME GatewayEnds
      PROVE  request'[c] = request[c] /\ run'[c] = run[c] /\ gateway'[c] # "idle"
  BY <1>1, <1>3 DEF GatewayEnds, Drop, Started
<1>4. ASSUME UNCHANGED gatewayVars
      PROVE  request'[c] = request[c] /\ run'[c] = run[c] /\ gateway'[c] # "idle"
  BY <1>4 DEF gatewayVars, Started
<1> QED
  BY <1>2, <1>3, <1>4, GatewayFrame DEF Started

-----------------------------------------------------------------------------
(* Numbers *)

LEMMA NumberStep ==
  ASSUME IInv, [Next]_vars
  PROVE  (NumberInv /\ UniqueInv)'
<1>1. /\ DOMAIN request = Calls /\ DOMAIN run = Calls /\ DOMAIN gateway = Calls
      /\ counter \in Nat /\ ends["gateway"] \in Nat
      /\ \A c \in Calls : request[c].id \in Nat /\ run[c] \in Nat
  BY DEF IInv, Domains, TypeOK, Processes
<1>2. ASSUME NEW c \in Calls, GatewayAccepts(c) PROVE (NumberInv /\ UniqueInv)'
  <2>1. /\ ~Started(c) /\ counter' = counter + 1 /\ ends' = ends
        /\ request' = [request EXCEPT ![c] = Sign(c, counter + 1)]
        /\ run' = [run EXCEPT ![c] = ends["gateway"]]
        /\ gateway' = [gateway EXCEPT ![c] = "waiting"]
    BY <1>2 DEF GatewayAccepts, Numbered, Started
  <2>2. Sign(c, counter + 1).id = counter + 1
    BY DEF Sign
  <2>3. /\ request'[c] = Sign(c, counter + 1) /\ run'[c] = ends["gateway"] /\ Started(c)'
        /\ request'[c].id = counter + 1
    BY <1>1, <2>1, <2>2 DEF Started
  <2>4. \A d \in Calls \ {c} : /\ request'[d] = request[d] /\ run'[d] = run[d]
                               /\ gateway'[d] = gateway[d]
    BY <1>1, <2>1
  <2>5. ASSUME NEW d \in Calls
        PROVE  /\ ~Started(d)' => request'[d].id = 0
               /\ Started(d)' =>
                     /\ request'[d] = Sign(d, request'[d].id) /\ request'[d].id > 0
                     /\ run'[d] <= ends'["gateway"]
                     /\ run'[d] = ends'["gateway"] => request'[d].id <= counter'
    <3>1. CASE d = c
      BY <1>1, <2>1, <2>3, <3>1
    <3>2. CASE d # c
      <4>1. /\ ~Started(d) => request[d].id = 0
            /\ Started(d) =>
                  /\ request[d] = Sign(d, request[d].id) /\ request[d].id > 0
                  /\ run[d] <= ends["gateway"]
                  /\ run[d] = ends["gateway"] => request[d].id <= counter
        BY DEF IInv, NumberInv
      <4> QED
        BY <1>1, <2>1, <2>4, <3>2, <4>1 DEF Started
    <3> QED
      BY <3>1, <3>2
  <2>6. ASSUME NEW d \in Calls, NEW e \in Calls, Started(d)', Started(e)',
               run'[d] = run'[e], request'[d].id = request'[e].id
        PROVE  d = e
    <3>1. ASSUME NEW x \in Calls \ {c}, Started(x)'
          PROVE  ~(run'[x] = run'[c] /\ request'[x].id = request'[c].id)
      <4>1. Started(x) /\ request'[x] = request[x] /\ run'[x] = run[x]
        BY <2>4, <3>1 DEF Started
      <4>2. run[x] = ends["gateway"] => request[x].id <= counter
        BY <4>1 DEF IInv, NumberInv
      <4> QED
        BY <1>1, <2>3, <4>1, <4>2
    <3>2. CASE d # c /\ e # c
      BY <2>4, <2>6, <3>2 DEF IInv, UniqueInv, Started
    <3> QED
      BY <2>6, <3>1, <3>2
  <2> QED
    BY <2>5, <2>6 DEF NumberInv, UniqueInv
<1>3. ASSUME NEW c \in Calls, GatewayReturns(c) \/ GatewayGivesUp(c)
      PROVE  (NumberInv /\ UniqueInv)'
  <2>1. /\ UNCHANGED <<request, run, counter, ends>>
        /\ \A d \in Calls : Started(d)' = Started(d)
    BY <1>1, <1>3 DEF GatewayReturns, GatewayGivesUp, Started
  <2> QED
    BY <2>1 DEF IInv, NumberInv, UniqueInv
<1>4. CASE GatewayEnds
  <2>1. /\ UNCHANGED <<request, run>> /\ ends'["gateway"] = ends["gateway"] + 1
        /\ \A d \in Calls : Started(d)' = Started(d)
    BY <1>1, <1>4 DEF GatewayEnds, Ends, Drop, Started, IInv, TypeOK, Processes
  <2>2. ASSUME NEW d \in Calls, Started(d)
        PROVE  run[d] <= ends["gateway"] + 1 /\ run[d] # ends["gateway"] + 1
    BY <1>1, <2>2 DEF IInv, NumberInv
  <2>3. NumberInv'
    BY <2>1, <2>2 DEF IInv, NumberInv
  <2> QED
    BY <2>1, <2>3 DEF IInv, UniqueInv
<1>5. CASE UNCHANGED gatewayVars /\ ends'["gateway"] = ends["gateway"]
  BY <1>5 DEF gatewayVars, IInv, NumberInv, UniqueInv, Started
<1> QED
  BY <1>2, <1>3, <1>4, <1>5, GatewayFrame DEF Gateway

-----------------------------------------------------------------------------
(* Where a call is *)

LEMMA RelayStep ==
  ASSUME IInv, [Next]_vars
  PROVE  RelayInv'
<1>1. /\ DOMAIN request = Calls /\ DOMAIN answer = Calls /\ DOMAIN gateway = Calls
      /\ DOMAIN tap = Calls /\ DOMAIN host = Calls /\ DOMAIN copy = Calls
  BY DEF IInv, Domains, TypeOK
<1>2. RelayInv
  BY DEF IInv
<1>3. ASSUME NEW c \in Calls, GatewayAccepts(c) PROVE RelayInv'
  <2>1. UNCHANGED <<tap, host, answer, copy>> /\ tap[c] = "idle" /\ host[c] = "idle"
    BY <1>2, <1>3 DEF GatewayAccepts, Numbered, RelayInv, Started, hostVars
  <2>2. /\ gateway'[c] = "waiting"
        /\ \A d \in Calls \ {c} : gateway'[d] = gateway[d] /\ request'[d] = request[d]
    BY <1>1, <1>3 DEF GatewayAccepts, Numbered
  <2>3. copy[c] = "idle"
    BY <1>2, <2>1 DEF RelayInv
  <2> QED
    BY <1>2, <2>1, <2>2, <2>3 DEF RelayInv, Started
<1>4. ASSUME NEW c \in Calls, GatewayReturns(c) \/ GatewayGivesUp(c) PROVE RelayInv'
  <2>1. UNCHANGED <<tap, host, answer, copy, request>>
    BY <1>4 DEF GatewayReturns, GatewayGivesUp, hostVars
  <2>2. /\ gateway'[c] = "ok" => tap[c] \in {"sent", "done"}
        /\ gateway'[c] # "idle"
        /\ \A d \in Calls \ {c} : gateway'[d] = gateway[d]
    BY <1>1, <1>4 DEF GatewayReturns, GatewayGivesUp
  <2> QED
    BY <1>2, <2>1, <2>2 DEF RelayInv, Started
<1>5. ASSUME NEW c \in Calls, TapReceives(c) \/ TapGivesUp(c) PROVE RelayInv'
  <2>1. UNCHANGED <<host, answer, copy, request, gateway>>
    BY <1>5 DEF TapReceives, TapGivesUp, hostVars, gatewayVars
  <2>2. /\ tap'[c] \in {"waiting", "error"} /\ gateway[c] # "idle"
        /\ tap[c] \in {"idle", "waiting"}
        /\ \A d \in Calls \ {c} : tap'[d] = tap[d]
    BY <1>1, <1>2, <1>5 DEF TapReceives, TapGivesUp, RelayInv, Started
  <2> QED
    BY <1>2, <2>1, <2>2 DEF RelayInv, Started
<1>6. ASSUME NEW c \in Calls, TapReleases(c) PROVE RelayInv'
  <2>1. UNCHANGED <<host, answer, copy, request, gateway>> /\ host[c] = "answered"
    BY <1>6 DEF TapReleases, hostVars, gatewayVars
  <2>2. /\ tap'[c] \in {"sent", "broken", "error"} /\ tap[c] = "waiting"
        /\ \A d \in Calls \ {c} : tap'[d] = tap[d]
    BY <1>1, <1>6 DEF TapReleases
  <2> QED
    BY <1>2, <2>1, <2>2 DEF RelayInv, Started
<1>7. ASSUME NEW c \in Calls, TapSpawns(c) PROVE RelayInv'
  <2>1. UNCHANGED <<host, answer, request, gateway>> /\ tap[c] = "sent"
    BY <1>7 DEF TapSpawns, hostVars, gatewayVars
  <2>2. /\ tap'[c] = "done"
        /\ \A d \in Calls \ {c} : tap'[d] = tap[d] /\ copy'[d] = copy[d]
    BY <1>1, <1>7 DEF TapSpawns
  <2> QED
    BY <1>2, <2>1, <2>2 DEF RelayInv, Started
<1>8. ASSUME NEW c \in Calls,
             HostReceives(c) \/ HostTakesLock(c) \/ HostFails(c) \/ HostRegisters(c)
      PROVE  RelayInv'
  <2>1. UNCHANGED <<tap, answer, copy, request, gateway>>
    BY <1>8 DEF HostReceives, HostTakesLock, HostFails, HostRegisters, Registered, gatewayVars
  <2>2. /\ host[c] \notin {"answered"} /\ host'[c] # "trained" /\ tap[c] # "idle"
        /\ host'[c] = "answered" => host[c] = "trained"
        /\ \A d \in Calls \ {c} : host'[d] = host[d]
    BY <1>1, <1>2, <1>8 DEF HostReceives, HostTakesLock, HostFails, HostRegisters, Registered,
       RelayInv
  <2> QED
    BY <1>2, <2>1, <2>2 DEF RelayInv, Started
<1>9. ASSUME NEW c \in Calls, NEW o \in Outputs, HostInfers(c, o) \/ HostTrains(c, o)
      PROVE  RelayInv'
  <2>1. UNCHANGED <<tap, copy, request, gateway>> /\ host[c] = "computing"
    BY <1>9 DEF HostInfers, HostTrains, Trained, gatewayVars
  <2>2. /\ answer'[c] = Sign(o, request[c].id) /\ tap[c] # "idle"
        /\ host'[c] \in {"trained", "answered"}
        /\ \A d \in Calls \ {c} : host'[d] = host[d] /\ answer'[d] = answer[d]
    BY <1>1, <1>2, <1>9 DEF HostInfers, HostTrains, Trained, RelayInv
  <2>3. answer'[c] = Sign(answer'[c].payload, request[c].id)
    BY <2>2 DEF Sign
  <2> QED
    BY <1>2, <2>1, <2>2, <2>3 DEF RelayInv, Started
<1>10. ASSUME NEW c \in Calls,
              \/ ClientFetches(c) \/ RecompReceives(c) \/ RecompTakesLock(c) \/ RecompFails(c)
              \/ \E o \in Outputs : RecompInfers(c, o) \/ RecompTrains(c, o)
       PROVE  RelayInv'
  <2>1. UNCHANGED <<tap, host, answer, request, gateway>>
    BY <1>10 DEF ClientFetches, RecompReceives, RecompTakesLock, RecompFails, Raises,
       RecompInfers, RecompTrains, hostVars, gatewayVars
  <2>2. /\ copy[c] # "idle" \/ copy' = copy
        /\ \A d \in Calls \ {c} : copy'[d] = copy[d]
    BY <1>1, <1>10 DEF ClientFetches, RecompReceives, RecompTakesLock, RecompFails, Raises,
       RecompInfers, RecompTrains, Judges
  <2> QED
    BY <1>2, <2>1, <2>2 DEF RelayInv, Started
<1>11. CASE GatewayEnds
  <2>1. /\ UNCHANGED <<tap, host, answer, copy, request>>
        /\ \A d \in Calls : gateway'[d] # gateway[d] => gateway[d] = "waiting" /\ gateway'[d] = "gone"
    BY <1>1, <1>11 DEF GatewayEnds, Drop, hostVars
  <2> QED
    BY <1>2, <2>1 DEF RelayInv, Started
<1>12. CASE TapEnds
  <2>1. /\ UNCHANGED <<host, answer, gateway, request>>
        /\ \A d \in Calls :
              /\ tap'[d] # tap[d] => tap[d] \in {"waiting", "sent"} /\ tap'[d] = "gone"
              /\ copy'[d] # "idle" => copy[d] # "idle"
    BY <1>1, <1>12 DEF TapEnds, Drop, hostVars, gatewayVars
  <2> QED
    BY <1>2, <2>1 DEF RelayInv, Started
<1>13. CASE HostEnds
  <2>1. /\ UNCHANGED <<tap, answer, copy, gateway, request>>
        /\ \A d \in Calls :
              host'[d] # host[d] =>
                  host[d] \in {"queued", "computing", "trained"} /\ host'[d] = "gone"
    BY <1>1, <1>13 DEF HostEnds, Drop, gatewayVars
  <2> QED
    BY <1>2, <2>1 DEF RelayInv, Started
<1>14. CASE RecompEnds
  <2>1. /\ UNCHANGED <<tap, host, answer, gateway, request>>
        /\ \A d \in Calls : copy'[d] # "idle" => copy[d] # "idle"
    BY <1>1, <1>14 DEF RecompEnds, Drop, hostVars, gatewayVars
  <2> QED
    BY <1>2, <2>1 DEF RelayInv, Started
<1>15. ASSUME UNCHANGED <<gatewayVars, tap, hostVars, copy>> PROVE RelayInv'
  BY <1>2, <1>15 DEF gatewayVars, hostVars, RelayInv, Started
<1>16. ASSUME (\E q \in Processes : Starts(q)) \/ HostBoots \/ RecompBoots \/ UNCHANGED vars
       PROVE  RelayInv'
  BY <1>15, <1>16 DEF Starts, HostBoots, RecompBoots, Warms, vars
<1> QED
  BY <1>3, <1>4, <1>5, <1>6, <1>7, <1>8, <1>9, <1>10, <1>11, <1>12, <1>13, <1>14, <1>16
     DEF Next, Gateway, Tap, InferenceHost, TrainingHost, InferenceRecomp, TrainingRecomp

\* An answer that was sent is not changed any more.
LEMMA AnswerKept ==
  ASSUME IInv, [Next]_vars, NEW c \in Calls, host[c] = "answered"
  PROVE  host'[c] = "answered" /\ answer'[c] = answer[c] /\ answered'[c] = answered[c]
<1>1. DOMAIN host = Calls /\ DOMAIN answer = Calls /\ DOMAIN answered = Calls
  BY DEF IInv, Domains, TypeOK
<1>2. ASSUME NEW d \in Calls, InferenceHost(d) \/ TrainingHost(d)
      PROVE  host'[c] = "answered" /\ answer'[c] = answer[c] /\ answered'[c] = answered[c]
  <2>1. host[d] # "answered"
    <3>1. RelayInv
      BY DEF IInv
    <3> QED
      BY <1>2, <3>1 DEF InferenceHost, HostReceives, HostFails, HostInfers, TrainingHost,
         HostTakesLock, HostRegisters, Registered, HostTrains, Trained
  <2>2. \A e \in Calls \ {d} : /\ host'[e] = host[e] /\ answer'[e] = answer[e]
                               /\ answered'[e] = answered[e]
    BY <1>1, <1>2 DEF InferenceHost, HostReceives, HostFails, HostInfers, TrainingHost,
       HostTakesLock, HostRegisters, Registered, HostTrains, Trained
  <2> QED
    BY <2>1, <2>2
<1>3. CASE HostEnds
  BY <1>1, <1>3 DEF HostEnds, Drop
<1>4. ASSUME UNCHANGED <<host, answer, answered>>
      PROVE  host'[c] = "answered" /\ answer'[c] = answer[c] /\ answered'[c] = answered[c]
  BY <1>4
<1>5. ASSUME NEW d \in Calls,
             Gateway(d) \/ Tap(d) \/ ClientFetches(d) \/ InferenceRecomp(d) \/ TrainingRecomp(d)
      PROVE  UNCHANGED <<host, answer, answered>>
  BY <1>5 DEF Gateway, GatewayAccepts, Numbered, GatewayReturns, GatewayGivesUp, Tap,
     TapReceives, TapReleases, TapSpawns, TapGivesUp, ClientFetches, InferenceRecomp,
     RecompReceives, RecompFails, Raises, RecompInfers, TrainingRecomp, RecompTakesLock,
     RecompTrains, hostVars
<1>6. ASSUME \/ GatewayEnds \/ TapEnds \/ RecompEnds \/ HostBoots \/ RecompBoots
             \/ (\E q \in Processes : Starts(q)) \/ UNCHANGED vars
      PROVE  UNCHANGED <<host, answer, answered>>
  BY <1>6 DEF GatewayEnds, TapEnds, RecompEnds, HostBoots, RecompBoots, Warms, Starts, vars,
     hostVars
<1> QED
  BY <1>2, <1>3, <1>4, <1>5, <1>6 DEF Next

\* Only the Host's steps, its end and a fetch matter to what can be fetched.
LEMMA AdapterFrame ==
  ASSUME IInv, [Next]_vars
  PROVE  \/ \E c \in Calls : InferenceHost(c) \/ TrainingHost(c) \/ ClientFetches(c)
         \/ HostEnds
         \/ UNCHANGED <<demo, hostVars, fetched>> /\ ends'["host"] = ends["host"]
<1>1. DOMAIN ends = Processes
  BY DEF IInv, TypeOK
<1>2. ASSUME NEW p \in Processes \ {"host"}, Ends(p)
      PROVE  ends'["host"] = ends["host"]
  BY <1>1, <1>2 DEF Ends, Processes, Clusters
<1>3. ASSUME NEW c \in Calls, Gateway(c) \/ Tap(c) \/ InferenceRecomp(c) \/ TrainingRecomp(c)
      PROVE  UNCHANGED <<demo, hostVars, fetched>> /\ ends'["host"] = ends["host"]
  BY <1>3 DEF Gateway, GatewayAccepts, Numbered, GatewayReturns, GatewayGivesUp, Tap,
     TapReceives, TapReleases, TapSpawns, TapGivesUp, InferenceRecomp, RecompReceives,
     RecompFails, Raises, RecompInfers, TrainingRecomp, RecompTakesLock, RecompTrains
<1>4. ASSUME GatewayEnds \/ TapEnds \/ RecompEnds
      PROVE  UNCHANGED <<demo, hostVars, fetched>> /\ ends'["host"] = ends["host"]
  BY <1>2, <1>4 DEF GatewayEnds, TapEnds, RecompEnds, Processes, Clusters
<1>5. ASSUME \/ HostBoots \/ RecompBoots \/ (\E q \in Processes : Starts(q)) \/ UNCHANGED vars
      PROVE  UNCHANGED <<demo, hostVars, fetched>> /\ ends'["host"] = ends["host"]
  BY <1>5 DEF HostBoots, RecompBoots, Warms, Starts, vars
<1> QED
  BY <1>3, <1>4, <1>5 DEF Next

LEMMA AdapterStep ==
  ASSUME IInv, [Next]_vars
  PROVE  AdapterInv'
<1>1. /\ DOMAIN host = Calls /\ DOMAIN answer = Calls /\ DOMAIN answered = Calls
      /\ DOMAIN fetched = Calls /\ ends["host"] \in Nat /\ adapters \subseteq disk
      /\ \A c \in Calls : answered[c] \in Nat
  BY DEF IInv, Domains, TypeOK, Processes, Clusters
<1>2. AdapterInv /\ RelayInv
  BY DEF IInv
<1>3. ASSUME NEW c \in Calls, HostReceives(c) \/ HostFails(c) \/ HostTakesLock(c)
      PROVE  AdapterInv'
  <2>1. UNCHANGED <<demo, answer, answered, disk, adapters, fetched, ends>>
    BY <1>3 DEF HostReceives, HostFails, HostTakesLock
  <2>2. /\ host[c] # "answered" /\ host'[c] \notin {"trained", "answered"}
        /\ \A d \in Calls \ {c} : host'[d] = host[d]
    BY <1>1, <1>3 DEF HostReceives, HostFails, HostTakesLock
  <2> QED
    BY <1>2, <2>1, <2>2 DEF AdapterInv
<1>4. ASSUME NEW c \in Calls, NEW o \in Outputs, HostInfers(c, o)
      PROVE  AdapterInv'
  <2>1. UNCHANGED <<demo, disk, adapters, fetched, ends>> /\ demo = "inference"
        /\ host[c] # "answered"
    BY <1>4 DEF HostInfers
  <2>2. /\ host'[c] = "answered" /\ answered'[c] = ends["host"]
        /\ \A d \in Calls \ {c} : /\ host'[d] = host[d] /\ answer'[d] = answer[d]
                                  /\ answered'[d] = answered[d]
    BY <1>1, <1>4 DEF HostInfers
  <2> QED
    BY <1>1, <1>2, <2>1, <2>2 DEF AdapterInv
<1>5. ASSUME NEW c \in Calls, NEW o \in Outputs, HostTrains(c, o)
      PROVE  AdapterInv'
  <2>1. UNCHANGED <<demo, answered, adapters, fetched, ends>> /\ disk' = disk \cup {o}
        /\ host[c] # "answered"
    BY <1>5 DEF HostTrains, Trained
  <2>2. /\ host'[c] = "trained" /\ answer'[c].payload = o
        /\ \A d \in Calls \ {c} : host'[d] = host[d] /\ answer'[d] = answer[d]
    BY <1>1, <1>5 DEF HostTrains, Trained, Sign
  <2> QED
    BY <1>1, <1>2, <2>1, <2>2 DEF AdapterInv
<1>6. ASSUME NEW c \in Calls, HostRegisters(c) PROVE AdapterInv'
  <2>1. UNCHANGED <<demo, answer, disk, fetched, ends>> /\ host[c] = "trained"
        /\ adapters' = adapters \cup {answer[c].payload}
    BY <1>6 DEF HostRegisters, Registered
  <2>2. /\ host'[c] = "answered" /\ answered'[c] = ends["host"]
        /\ \A d \in Calls \ {c} : host'[d] = host[d] /\ answered'[d] = answered[d]
    BY <1>1, <1>6 DEF HostRegisters, Registered
  <2> QED
    BY <1>1, <1>2, <2>1, <2>2 DEF AdapterInv
<1>7. ASSUME NEW c \in Calls, ClientFetches(c) PROVE AdapterInv'
  <2>1. UNCHANGED <<demo, hostVars, ends>> /\ demo = "training" /\ host[c] = "answered"
    BY <1>2, <1>7 DEF ClientFetches, RelayInv
  <2>2. /\ fetched'[c] = "unknown" => answer[c].payload \notin adapters
        /\ \A d \in Calls \ {c} : fetched'[d] = fetched[d]
    BY <1>1, <1>7 DEF ClientFetches
  <2>3. fetched'[c] = "unknown" => answered[c] < ends["host"]
    BY <1>1, <1>2, <2>1, <2>2 DEF AdapterInv
  <2> QED
    BY <1>2, <2>1, <2>2, <2>3 DEF AdapterInv, hostVars
<1>8. CASE HostEnds
  <2>1. UNCHANGED <<demo, answer, answered, disk, fetched>> /\ ends'["host"] = ends["host"] + 1
    BY <1>8 DEF HostEnds, Ends, IInv, TypeOK, Processes, Clusters
  <2>2. \A d \in Calls : /\ host[d] = "answered" => host'[d] = "answered"
                         /\ host'[d] \in {"trained", "answered"} => host'[d] = host[d]
    BY <1>1, <1>8 DEF HostEnds, Drop
  <2>3. ASSUME NEW d \in Calls
        PROVE  /\ host'[d] = "trained" => answer[d].payload \in disk
               /\ host'[d] = "answered" => answered[d] < ends'["host"]
               /\ fetched[d] = "unknown" => host'[d] = "answered"
    <3>1. /\ host[d] = "trained" => answer[d].payload \in disk
          /\ host[d] = "answered" => answered[d] <= ends["host"]
          /\ fetched[d] = "unknown" => host[d] = "answered"
      BY <1>2 DEF AdapterInv
    <3>2. answered[d] <= ends["host"] => answered[d] < ends'["host"]
      BY <1>1, <2>1
    <3>3. /\ host[d] = "answered" => host'[d] = "answered"
          /\ host'[d] \in {"trained", "answered"} => host'[d] = host[d]
      BY <2>2
    <3> QED
      BY <3>1, <3>2, <3>3
  <2>4. \A d \in Calls : answered[d] < ends'["host"] =>
                          answered[d] <= ends'["host"] /\ answered[d] # ends'["host"]
    BY <1>1, <2>1
  <2> QED
    BY <2>1, <2>3, <2>4 DEF AdapterInv
<1>9. ASSUME UNCHANGED <<demo, hostVars, fetched>>, ends'["host"] = ends["host"]
      PROVE  AdapterInv'
  BY <1>2, <1>9 DEF AdapterInv, hostVars
<1> QED
  BY <1>3, <1>4, <1>5, <1>6, <1>7, <1>8, <1>9, AdapterFrame DEF InferenceHost, TrainingHost

-----------------------------------------------------------------------------
(* Alarms *)

\* Only an answer with the right signature and the request's number is copied.
LEMMA CopiesAreSound ==
  ASSUME IInv, NEW c \in Calls, copy[c] # "idle"
  PROVE  Verify(request[c]) /\ Verify(answer[c]) /\ request[c].id = answer[c].id
<1>1. /\ answer[c] = Sign(answer[c].payload, request[c].id)
      /\ request[c] = Sign(c, request[c].id)
  BY DEF IInv, RelayInv, NumberInv
<1> QED
  BY <1>1 DEF Sign, Verify

\* A judgement adds at most its own alarm.
LEMMA JudgesStep ==
  ASSUME IInv, [Next]_vars, NEW c \in Calls, NEW o, NEW reason, Judges(c, o, reason),
         copy[c] = "computing"
  PROVE  AlarmInv'
<1> DEFINE alarm == [call |-> c, run |-> run[c], id |-> request[c].id, reason |-> reason,
                     expected |-> answer[c].payload, actual |-> o]
<1>1. DOMAIN copy = Calls /\ AlarmInv
  BY DEF IInv, TypeOK
<1>2. \A a \in alarms : a.call # c
  BY <1>1 DEF AlarmInv
<1>3. ASSUME NEW d \in Calls, copy[d] # "idle"
      PROVE  request'[d] = request[d] /\ run'[d] = run[d] /\ answer'[d] = answer[d]
  <2>1. Started(d) /\ host[d] = "answered"
    BY <1>3 DEF IInv, RelayInv
  <2> QED
    BY <2>1, NumbersKept, AnswerKept
<1>4. \A d \in Calls \ {c} : copy'[d] = copy[d]
  BY <1>1 DEF Judges
<1>5. ASSUME NEW a \in alarms
      PROVE  /\ a.call \in Calls /\ copy'[a.call] = "alarmed"
             /\ a.id = request'[a.call].id /\ a.run = run'[a.call]
             /\ a.expected = answer'[a.call].payload /\ a.expected # a.actual
  BY <1>1, <1>2, <1>3, <1>4 DEF AlarmInv
<1>6. CASE alarms' = alarms
  BY <1>1, <1>5, <1>6 DEF AlarmInv
<1>7. CASE copy'[c] = "alarmed" /\ alarms' = alarms \cup {alarm} /\ answer[c].payload # o
  <2>1. /\ alarm.call = c /\ alarm.id = request[c].id /\ alarm.run = run[c]
        /\ alarm.expected = answer[c].payload /\ alarm.actual = o
    OBVIOUS
  <2>2. request'[c] = request[c] /\ run'[c] = run[c] /\ answer'[c] = answer[c]
    BY <1>3
  <2> HIDE DEF alarm
  <2>3. ASSUME NEW a \in alarms'
        PROVE  /\ a.call \in Calls /\ copy'[a.call] = "alarmed"
               /\ a.id = request'[a.call].id /\ a.run = run'[a.call]
               /\ a.expected = answer'[a.call].payload /\ a.expected # a.actual
    BY <1>5, <1>7, <2>1, <2>2
  <2>4. ASSUME NEW a \in alarms', NEW b \in alarms', a.call = b.call
        PROVE  a = b
    BY <1>1, <1>2, <1>7, <2>1, <2>4 DEF AlarmInv
  <2> QED
    BY <2>3, <2>4 DEF AlarmInv
<1> QED
  BY <1>1, <1>6, <1>7 DEF Judges, LogAlarm

LEMMA AlarmStep ==
  ASSUME IInv, [Next]_vars
  PROVE  AlarmInv'
<1>1. DOMAIN copy = Calls /\ AlarmInv
  BY DEF IInv, TypeOK
<1>2. ASSUME alarms' = alarms,
             \A d \in Calls : copy[d] = "alarmed" => copy'[d] = "alarmed"
      PROVE  AlarmInv'
  <2>1. ASSUME NEW a \in alarms
        PROVE  /\ request'[a.call] = request[a.call] /\ run'[a.call] = run[a.call]
               /\ answer'[a.call] = answer[a.call]
    <3>1. a.call \in Calls /\ copy[a.call] = "alarmed"
      BY <1>1 DEF AlarmInv
    <3>2. Started(a.call) /\ host[a.call] = "answered"
      BY <3>1 DEF IInv, RelayInv
    <3> QED
      BY <3>1, <3>2, NumbersKept, AnswerKept
  <2> QED
    BY <1>1, <1>2, <2>1 DEF AlarmInv
<1>3. ASSUME NEW c \in Calls, NEW o \in Outputs, RecompInfers(c, o) \/ RecompTrains(c, o)
      PROVE  AlarmInv'
  <2>1. copy[c] = "computing" /\ \E reason \in {"output_mismatch", "digest_mismatch"} :
                                    Judges(c, o, reason)
    BY <1>3 DEF RecompInfers, RecompTrains
  <2> QED
    BY <2>1, JudgesStep
<1>4. ASSUME NEW c \in Calls, RecompReceives(c) PROVE AlarmInv'
  <2>1. copy[c] = "spawned" /\ \A d \in Calls \ {c} : copy'[d] = copy[d]
    BY <1>1, <1>4 DEF RecompReceives
  <2>2. Verify(request[c]) /\ Verify(answer[c]) /\ request[c].id = answer[c].id
    BY <2>1, CopiesAreSound
  <2>3. alarms' = alarms
    BY <1>4, <2>2 DEF RecompReceives
  <2> QED
    BY <1>2, <2>1, <2>3
<1>5. ASSUME NEW c \in Calls, RecompTakesLock(c) \/ RecompFails(c) \/ TapSpawns(c)
      PROVE  AlarmInv'
  <2>1. alarms' = alarms
    BY <1>5 DEF RecompTakesLock, RecompFails, Raises, TapSpawns
  <2>2. copy[c] # "alarmed" /\ \A d \in Calls \ {c} : copy'[d] = copy[d]
    BY <1>1, <1>5 DEF RecompTakesLock, RecompFails, Raises, TapSpawns, IInv, RelayInv
  <2> QED
    BY <1>2, <2>1, <2>2
<1>6. CASE TapEnds \/ RecompEnds
  BY <1>1, <1>2, <1>6 DEF TapEnds, RecompEnds, Drop
<1>7. ASSUME NEW c \in Calls,
             \/ Gateway(c) \/ TapReceives(c) \/ TapReleases(c) \/ TapGivesUp(c)
             \/ InferenceHost(c) \/ TrainingHost(c) \/ ClientFetches(c)
      PROVE  UNCHANGED <<alarms, copy>>
  BY <1>7 DEF Gateway, GatewayAccepts, Numbered, GatewayReturns, GatewayGivesUp, TapReceives,
     TapReleases, TapGivesUp, InferenceHost, HostReceives, HostFails, HostInfers, TrainingHost,
     HostTakesLock, HostRegisters, Registered, HostTrains, Trained, ClientFetches
<1>8. ASSUME \/ GatewayEnds \/ HostEnds \/ HostBoots \/ RecompBoots
             \/ (\E q \in Processes : Starts(q)) \/ UNCHANGED vars
      PROVE  UNCHANGED <<alarms, copy>>
  BY <1>8 DEF GatewayEnds, HostEnds, HostBoots, RecompBoots, Warms, Starts, vars
<1>9. ASSUME UNCHANGED <<alarms, copy>> PROVE AlarmInv'
  BY <1>2, <1>9
<1> QED
  BY <1>3, <1>4, <1>5, <1>6, <1>7, <1>8, <1>9
     DEF Next, Tap, InferenceRecomp, TrainingRecomp

-----------------------------------------------------------------------------
(* Types *)

LEMMA TypeStep ==
  ASSUME IInv, [Next]_vars
  PROVE  (TypeOK /\ Domains)'
<1>1. TypeOK /\ Domains
  BY DEF IInv
<1>2. CASE UNCHANGED vars
  BY <1>1, <1>2 DEF vars, gatewayVars, hostVars, TypeOK, Domains
<1>3. ASSUME NEW c \in Calls, Gateway(c) PROVE (TypeOK /\ Domains)'
  BY <1>1, <1>3, SMTT(30) DEF Gateway, GatewayAccepts, Numbered, GatewayReturns, GatewayGivesUp, Sign,
     TypeOK, Domains, hostVars, Processes
<1>4. ASSUME NEW c \in Calls, Tap(c) PROVE (TypeOK /\ Domains)'
  BY <1>1, <1>4, SMTT(30) DEF Tap, TapReceives, TapReleases, TapSpawns, TapGivesUp, TypeOK, Domains,
     gatewayVars, hostVars
<1>5. ASSUME NEW c \in Calls, HostReceives(c) \/ HostFails(c) \/ HostTakesLock(c)
      PROVE  (TypeOK /\ Domains)'
  <2>1. \E v \in {"failed", "queued", "computing"} : host' = [host EXCEPT ![c] = v]
    BY <1>5 DEF HostReceives, HostFails, HostTakesLock
  <2>2. trainer' = trainer \/ \E v \in Calls \cup {None} :
                                trainer' = [trainer EXCEPT !["host"] = v]
    BY <1>5 DEF HostReceives, HostFails, HostTakesLock, Acquire, Release
  <2>3. trainer' \in [Clusters -> Calls \cup {None}]
    BY <1>1, <2>2 DEF TypeOK, Clusters
  <2>4. UNCHANGED <<demo, status, ends, gatewayVars, tap, answer, answered, disk, adapters,
                    copy, fetched, alarms>>
    BY <1>5 DEF HostReceives, HostFails, HostTakesLock
  <2> QED
    BY <1>1, <2>1, <2>3, <2>4 DEF TypeOK, Domains, gatewayVars
<1>6. ASSUME NEW c \in Calls, NEW o \in Outputs, HostInfers(c, o) \/ HostTrains(c, o)
      PROVE  (TypeOK /\ Domains)'
  <2>1. \E v \in {"answered", "trained"} : host' = [host EXCEPT ![c] = v]
    BY <1>6 DEF HostInfers, HostTrains, Trained
  <2>2. /\ answer' = [answer EXCEPT ![c] = Sign(o, request[c].id)]
        /\ Sign(o, request[c].id).payload \in Outputs
    BY <1>6 DEF HostInfers, HostTrains, Trained, Sign
  <2>3. DOMAIN answer' = Calls /\ \A d \in Calls : answer'[d].payload \in Outputs \cup {None}
    BY <1>1, <2>2 DEF TypeOK, Domains
  <2>4. answered' = answered \/ answered' = [answered EXCEPT ![c] = ends["host"]]
    BY <1>6 DEF HostInfers, HostTrains, Trained
  <2>5. DOMAIN answered' = Calls /\ \A d \in Calls : answered'[d] \in Nat
    BY <1>1, <2>4 DEF TypeOK, Domains, Processes, Clusters
  <2>6. disk' \in {disk, disk \cup {o}}
    BY <1>6 DEF HostInfers, HostTrains, Trained
  <2>7. UNCHANGED <<demo, status, ends, gatewayVars, tap, adapters, copy, trainer, fetched,
                    alarms>>
    BY <1>6 DEF HostInfers, HostTrains, Trained
  <2> QED
    BY <1>1, <2>1, <2>3, <2>5, <2>6, <2>7 DEF TypeOK, Domains, gatewayVars
<1>7. ASSUME NEW c \in Calls, HostRegisters(c) PROVE (TypeOK /\ Domains)'
  <2>1. answer[c].payload \in disk
    BY <1>7 DEF HostRegisters, Registered, IInv, AdapterInv
  <2> QED
    BY <1>1, <1>7, <2>1 DEF HostRegisters, Registered, Release, TypeOK, Domains, gatewayVars,
       Processes, Clusters
<1>8. ASSUME NEW c \in Calls, ClientFetches(c) PROVE (TypeOK /\ Domains)'
  BY <1>1, <1>8 DEF ClientFetches, TypeOK, Domains, gatewayVars, hostVars
<1>9. ASSUME NEW c \in Calls, RecompReceives(c) PROVE (TypeOK /\ Domains)'
  <2>1. /\ UNCHANGED <<demo, status, ends, gatewayVars, tap, hostVars, trainer, fetched>>
        /\ \E v \in {"lost", "refused", "alarmed", "queued", "computing"} :
              copy' = [copy EXCEPT ![c] = v]
    BY <1>9, Zenon DEF RecompReceives
  <2> QED
    BY <1>1, <2>1 DEF TypeOK, Domains, gatewayVars, hostVars
<1>10. ASSUME NEW c \in Calls,
              \/ RecompTakesLock(c) \/ RecompFails(c)
              \/ \E o \in Outputs : RecompInfers(c, o) \/ RecompTrains(c, o)
       PROVE  (TypeOK /\ Domains)'
  BY <1>1, <1>10, SMTT(30) DEF RecompTakesLock, RecompFails, Raises, RecompInfers, RecompTrains, Judges,
     Acquire, Release, TypeOK, Domains, gatewayVars, hostVars, Clusters
<1>11. CASE GatewayEnds
  BY <1>1, <1>11 DEF GatewayEnds, Ends, Drop, TypeOK, Domains, hostVars, Processes
<1>12. CASE TapEnds
  BY <1>1, <1>12 DEF TapEnds, Ends, Drop, TypeOK, Domains, gatewayVars, hostVars, Processes
<1>13. CASE HostEnds
  BY <1>1, <1>13 DEF HostEnds, Ends, Drop, Release, TypeOK, Domains, gatewayVars, Processes,
     Clusters
<1>14. CASE RecompEnds
  BY <1>1, <1>14 DEF RecompEnds, Ends, Drop, Release, TypeOK, Domains, gatewayVars, hostVars,
     Processes, Clusters
<1>15. ASSUME NEW p \in Processes, Starts(p) PROVE (TypeOK /\ Domains)'
  BY <1>1, <1>15 DEF Starts, TypeOK, Domains, gatewayVars, hostVars
<1>16. CASE HostBoots \/ RecompBoots
  BY <1>1, <1>16 DEF HostBoots, RecompBoots, Warms, TypeOK, Domains, gatewayVars, hostVars
<1> QED
  BY <1>2, <1>3, <1>4, <1>5, <1>6, <1>7, <1>8, <1>9, <1>10, <1>11, <1>12, <1>13, <1>14,
     <1>15, <1>16 DEF Next, InferenceHost, TrainingHost, InferenceRecomp, TrainingRecomp

-----------------------------------------------------------------------------
(* The theorems *)

LEMMA Initially == Init => IInv
<1> SUFFICES ASSUME Init PROVE IInv
  OBVIOUS
<1>1. TypeOK /\ Domains
  BY DEF Init, TypeOK, Domains, NoEnvelope, Sign, Processes, Clusters
<1>2. NumberInv /\ UniqueInv
  BY DEF Init, NumberInv, UniqueInv, Started, NoEnvelope, Sign
<1>3. RelayInv /\ AdapterInv /\ AlarmInv
  BY DEF Init, RelayInv, AdapterInv, AlarmInv
<1> QED
  BY <1>1, <1>2, <1>3 DEF IInv

LEMMA Inductive == IInv /\ [Next]_vars => IInv'
BY TypeStep, NumberStep, RelayStep, AdapterStep, AlarmStep DEF IInv

\* The type invariant of the two demos, for any calls, outputs and ends of
\* processes: who holds a training lock, and that registered adapters are on disk.
THEOREM TypeCorrect == Spec => []TypeOK
<1>1. IInv => TypeOK
  BY DEF IInv
<1> QED
  BY <1>1, Initially, Inductive, PTL DEF Spec

\* No alarm is false or ambiguous: within its run of the Gateway its number is
\* one call's, whose released answer differs from what was recomputed, and no
\* call has two; after any number of restarts of any process.  (gateway.py
\* next_id, tap.py _async_verify, recomp_cluster.py)
THEOREM AlarmsAreFounded == Spec => []AlarmIsFounded
<1>1. IInv => AlarmIsFounded
  <2> SUFFICES ASSUME IInv, NEW a \in alarms
               PROVE  /\ a.expected # a.actual
                      /\ {c \in Calls : request[c].id = a.id /\ run[c] = a.run} = {a.call}
                      /\ tap[a.call] = "done"
                      /\ answer[a.call] = Sign(a.expected, a.id)
                      /\ \A b \in alarms : a.call = b.call => a = b
    BY DEF AlarmIsFounded
  <2>1. /\ a.call \in Calls /\ copy[a.call] = "alarmed"
        /\ a.id = request[a.call].id /\ a.run = run[a.call]
        /\ a.expected = answer[a.call].payload /\ a.expected # a.actual
    BY DEF IInv, AlarmInv
  <2>2. tap[a.call] = "done" /\ host[a.call] = "answered" /\ Started(a.call)
    BY <2>1 DEF IInv, RelayInv
  <2>3. answer[a.call] = Sign(a.expected, a.id)
    BY <2>1, <2>2 DEF IInv, RelayInv
  <2>4. a.id > 0
    BY <2>1, <2>2 DEF IInv, NumberInv
  <2>5. ASSUME NEW c \in Calls, request[c].id = a.id, run[c] = a.run
        PROVE  c = a.call
    <3>1. Started(c)
      BY <2>4, <2>5 DEF IInv, NumberInv
    <3> QED
      BY <2>1, <2>2, <2>5, <3>1 DEF IInv, UniqueInv
  <2> QED
    BY <2>1, <2>2, <2>3, <2>5 DEF IInv, AlarmInv
<1> QED
  BY <1>1, Initially, Inductive, PTL DEF Spec

\* "unknown digest" is only ever the answer of a later run of the Host than the
\* one that answered the call, whoever else trains the same adapter.
\* (tap-train host_cluster.py)
THEOREM RepliesAreFetchable == Spec => []ReplyIsFetchable
<1>1. IInv => ReplyIsFetchable
  BY DEF IInv, AdapterInv, ReplyIsFetchable
<1> QED
  BY <1>1, Initially, Inductive, PTL DEF Spec
=============================================================================
