------------------------- MODULE SourceFanIn_proofs -------------------------
(***************************************************************************)
(* A search that ends with its stream reports each source in full, for any *)
(* registry, query, limit and capacity.  The invariant follows a candidate *)
(* from its provider to Process; while the context lives and Run has not   *)
(* stopped, none is dropped on the way.                                    *)
(***************************************************************************)
EXTENDS SourceFanIn, FiniteSetTheorems, TLAPS

Typed ==
    /\ prov \in [Slug -> {"off", "run", "ended"}]
    /\ sent \in [Slug -> Nat]
    /\ pchan \in [Slug -> Nat]
    /\ fwd \in [Slug -> {"off", "recv", "send", "done"}]
    /\ copied \in [Slug -> Nat]
    /\ out \in [Slug -> Nat]
    /\ closed \in BOOLEAN
    /\ stats \in [Slug -> Nat]
    /\ dispatched \in [Slug -> Nat]
    /\ report \in [Slug -> Nat]
    /\ final \in BOOLEAN
    /\ ctxDone \in BOOLEAN
    /\ next \in Nat \ {0}
    /\ supply \in [Slug -> Nat]
    /\ active \in Nat
    /\ cand \in Slug \cup {None}
    /\ run \in {"recv", "control", "paused", "drain", "returned"}
    /\ ended \in {"no", "stream", "limit", "stop"}

\* The launching goroutine and the goroutines it has started.
Upto ==
    \A i \in DOMAIN Slugs :
        /\ i >= next => prov[Slugs[i]] = "off"
        /\ i < next /\ Selected(Slugs[i]) => fwd[Slugs[i]] # "off"

Launched ==
    /\ \A s \in Slug : prov[s] = "off" <=> fwd[s] = "off"
    /\ closed => next > Len(Slugs) /\ \A s \in Slug : fwd[s] \in {"off", "done"}

\* What is in the hands of a forwarder, of Run, or past it.
InHand(s) == IF fwd[s] = "send" THEN 1 ELSE 0
Taken(s)  == IF cand = s THEN 1 ELSE 0

\* Nothing is lost between a provider and its forwarder ...
Copied == \A s \in Slug : sent[s] = pchan[s] + copied[s]

\* ... nor after it, unless the context ends or Run stops.
Accounted ==
    ~ctxDone /\ ended # "stop" =>
        \A s \in Slug : copied[s] = InHand(s) + out[s] + Taken(s) + dispatched[s]

\* A goroutine of a living search that is done has done all of its work.
Complete ==
    ~ctxDone => \A s \in Slug :
        /\ prov[s] = "ended" => sent[s] = Yield(s)
        /\ fwd[s] = "done" => prov[s] = "ended" /\ pchan[s] = 0 /\ stats[s] = copied[s]

NotYetRecorded == \A s \in Slug : fwd[s] # "done" => stats[s] = 0

RunState ==
    /\ run \in {"recv", "drain", "returned"} => cand = None
    /\ run \in {"control", "paused"} => cand \in Slug
    /\ run \in {"recv", "control", "paused"} <=> ended = "no"
    /\ run = "returned" => active = 0
    /\ ended = "stream" => closed /\ \A s \in Slug : out[s] = 0

FanInInv ==
    /\ Typed
    /\ Upto
    /\ Launched
    /\ Copied
    /\ Accounted
    /\ Complete
    /\ NotYetRecorded
    /\ RunState
    /\ FullReport

\* The query and the supply never change.
LEMMA Constant == ASSUME UNCHANGED <<q, supply>>
                  PROVE  \A s : (Selected(s)' <=> Selected(s)) /\ Yield(s)' = Yield(s)
  BY DEF Selected, Wants, AutoMode, Applicable, Yield

\* Slugs lists every provider once.
LEMMA Named == \A i \in DOMAIN Slugs :
                   /\ Slugs[i] \in Slug
                   /\ i \in Nat \ {0}
                   /\ \A j \in DOMAIN Slugs : Slugs[i] = Slugs[j] => i = j
  BY FanInAssumption DEF Slug

-----------------------------------------------------------------------------
(* Each step keeps the parts of the invariant; FullReport is treated below.   *)

LEMMA Within == ASSUME Typed, next <= Len(Slugs)
                PROVE  next \in DOMAIN Slugs
  BY FanInAssumption DEF Typed

LEMMA LaunchSkipStep == ASSUME FanInInv, LaunchSkip
  PROVE  Typed' /\ Upto' /\ Launched' /\ Copied' /\ Accounted' /\ Complete' /\ NotYetRecorded' /\ RunState'
<1> USE DEF LaunchSkip, source, copying, loop, table, SctxDone, Flush
<1> Typed /\ Upto /\ Launched /\ Copied /\ Accounted /\ Complete /\ NotYetRecorded /\ RunState
  BY DEF FanInInv
<1>same. \A x : (Selected(x)' <=> Selected(x)) /\ Yield(x)' = Yield(x)
  BY Constant
<1>1. Typed'  BY DEF Typed
<1>2. Upto'
  <2>1. next \in DOMAIN Slugs  BY Within
  <2>2. ASSUME NEW i \in DOMAIN Slugs, i < next', Selected(Slugs[i])
        PROVE  fwd[Slugs[i]] # "off"
    <3>1. i # next  BY <2>2
    <3>2. i < next  BY <3>1, <2>2, Named DEF Typed
    <3> QED  BY <3>2, <2>2 DEF Upto
  <2>3. ASSUME NEW i \in DOMAIN Slugs, i >= next'  PROVE  prov[Slugs[i]] = "off"
    BY <2>3, Named DEF Typed, Upto
  <2> QED  BY <2>2, <2>3, <1>same DEF Upto
<1>3. Launched'  BY DEF Typed, Launched
<1>4. Copied'  BY DEF Typed, Copied
<1>5. Accounted'  BY DEF Typed, Accounted, RunState, InHand, Taken, Launched
<1>6. Complete'  BY <1>same DEF Typed, Complete, Launched, NotYetRecorded
<1>7. NotYetRecorded'  BY DEF Typed, NotYetRecorded
<1>8. RunState'  BY DEF Typed, RunState, Launched
<1> QED  BY <1>1, <1>2, <1>3, <1>4, <1>5, <1>6, <1>7, <1>8

LEMMA LaunchStep == ASSUME FanInInv, Launch
  PROVE  Typed' /\ Upto' /\ Launched' /\ Copied' /\ Accounted' /\ Complete' /\ NotYetRecorded' /\ RunState'
<1> USE DEF Launch, source, copying, loop, table, SctxDone, Flush
<1> Typed /\ Upto /\ Launched /\ Copied /\ Accounted /\ Complete /\ NotYetRecorded /\ RunState
  BY DEF FanInInv
<1>same. \A x : (Selected(x)' <=> Selected(x)) /\ Yield(x)' = Yield(x)
  BY Constant
<1>1. Typed'
  <2>1. Slugs[next] \in Slug  BY Named, Within
  <2>2. prov' \in [Slug -> {"off", "run", "ended"}]  BY <2>1 DEF Typed
  <2>3. fwd' \in [Slug -> {"off", "recv", "send", "done"}]  BY <2>1 DEF Typed
  <2>4. next' \in Nat \ {0}  BY DEF Typed
  <2> QED  BY <2>2, <2>3, <2>4 DEF Typed
<1>2. Upto'
  <2>1. next \in DOMAIN Slugs /\ Slugs[next] \in Slug  BY Named, Within
  <2>2. ASSUME NEW i \in DOMAIN Slugs, i >= next'  PROVE  prov'[Slugs[i]] = "off"
    <3>a. i \in Nat /\ next \in Nat /\ next' = next + 1 /\ Slugs[i] \in Slug  BY Named DEF Typed
    <3>1. i >= next /\ i # next  BY <2>2, <3>a
    <3>2. Slugs[i] # Slugs[next]  BY <3>1, <2>1, Named
    <3>3. prov[Slugs[i]] = "off"  BY <3>1 DEF Upto
    <3> QED  BY <3>a, <3>2, <3>3, <2>1 DEF Typed
  <2>3. ASSUME NEW i \in DOMAIN Slugs, i < next', Selected(Slugs[i])
        PROVE  fwd'[Slugs[i]] # "off"
    <3>1. CASE i = next  BY <3>1, <2>1 DEF Typed
    <3>2. CASE i # next
      <4>1. i < next  BY <3>2, <2>3, Named DEF Typed
      <4>2. fwd[Slugs[i]] # "off" /\ Slugs[i] \in Slug  BY <4>1, <2>3, Named DEF Upto
      <4> QED  BY <4>2, <2>1 DEF Typed
    <3> QED  BY <3>1, <3>2
  <2> QED  BY <2>2, <2>3, <1>same DEF Upto
<1>3. Launched'  BY DEF Typed, Launched
<1>4. Copied'  BY DEF Typed, Copied
<1>5. Accounted'
  <2>1. next \in DOMAIN Slugs /\ Slugs[next] \in Slug  BY Named, Within
  <2>2. fwd[Slugs[next]] = "off"  BY <2>1, Named DEF Typed, Upto, Launched
  <2>3. \A t \in Slug : InHand(t)' = InHand(t)  BY <2>1, <2>2 DEF Typed, InHand
  <2> QED  BY <2>3 DEF Accounted, Taken
<1>6. Complete'  BY <1>same DEF Typed, Complete, Launched, NotYetRecorded
<1>7. NotYetRecorded'
  <2>1. next \in DOMAIN Slugs /\ Slugs[next] \in Slug  BY Named, Within
  <2>2. fwd[Slugs[next]] = "off"  BY <2>1, Named DEF Typed, Upto, Launched
  <2> QED  BY <2>1, <2>2 DEF Typed, NotYetRecorded
<1>8. RunState'  BY DEF Typed, RunState, Launched
<1> QED  BY <1>1, <1>2, <1>3, <1>4, <1>5, <1>6, <1>7, <1>8

LEMMA CloseOutStep == ASSUME FanInInv, CloseOut
  PROVE  Typed' /\ Upto' /\ Launched' /\ Copied' /\ Accounted' /\ Complete' /\ NotYetRecorded' /\ RunState'
<1> USE DEF CloseOut, source, copying, loop, table, SctxDone, Flush
<1> Typed /\ Upto /\ Launched /\ Copied /\ Accounted /\ Complete /\ NotYetRecorded /\ RunState
  BY DEF FanInInv
<1>same. \A x : (Selected(x)' <=> Selected(x)) /\ Yield(x)' = Yield(x)
  BY Constant
<1>1. Typed'  BY DEF Typed
<1>2. Upto'  BY Named, <1>same DEF Typed, Upto
<1>3. Launched'  BY DEF Typed, Launched
<1>4. Copied'  BY DEF Typed, Copied
<1>5. Accounted'  BY DEF Typed, Accounted, RunState, InHand, Taken, Launched
<1>6. Complete'  BY <1>same DEF Typed, Complete, Launched, NotYetRecorded
<1>7. NotYetRecorded'  BY DEF Typed, NotYetRecorded
<1>8. RunState'  BY DEF Typed, RunState, Launched
<1> QED  BY <1>1, <1>2, <1>3, <1>4, <1>5, <1>6, <1>7, <1>8

LEMMA ProviderSendStep == ASSUME NEW s \in Slug, FanInInv, ProviderSend(s)
  PROVE  Typed' /\ Upto' /\ Launched' /\ Copied' /\ Accounted' /\ Complete' /\ NotYetRecorded' /\ RunState'
<1> USE DEF ProviderSend, source, copying, loop, table, SctxDone, Flush
<1> Typed /\ Upto /\ Launched /\ Copied /\ Accounted /\ Complete /\ NotYetRecorded /\ RunState
  BY DEF FanInInv
<1>same. \A x : (Selected(x)' <=> Selected(x)) /\ Yield(x)' = Yield(x)
  BY Constant
<1>1. Typed'  BY DEF Typed
<1>2. Upto'  BY Named, <1>same DEF Typed, Upto
<1>3. Launched'  BY DEF Typed, Launched
<1>4. Copied'  BY DEF Typed, Copied
<1>5. Accounted'  BY DEF Typed, Accounted, RunState, InHand, Taken, Launched
<1>6. Complete'  BY <1>same DEF Typed, Complete, Launched, NotYetRecorded
<1>7. NotYetRecorded'  BY DEF Typed, NotYetRecorded
<1>8. RunState'  BY DEF Typed, RunState, Launched
<1> QED  BY <1>1, <1>2, <1>3, <1>4, <1>5, <1>6, <1>7, <1>8

LEMMA ProviderEndStep == ASSUME NEW s \in Slug, FanInInv, ProviderEnd(s)
  PROVE  Typed' /\ Upto' /\ Launched' /\ Copied' /\ Accounted' /\ Complete' /\ NotYetRecorded' /\ RunState'
<1> USE DEF ProviderEnd, source, copying, loop, table, SctxDone, Flush
<1> Typed /\ Upto /\ Launched /\ Copied /\ Accounted /\ Complete /\ NotYetRecorded /\ RunState
  BY DEF FanInInv
<1>same. \A x : (Selected(x)' <=> Selected(x)) /\ Yield(x)' = Yield(x)
  BY Constant
<1>1. Typed'  BY DEF Typed
<1>2. Upto'  BY Named, <1>same DEF Typed, Upto
<1>3. Launched'  BY DEF Typed, Launched
<1>4. Copied'  BY DEF Typed, Copied
<1>5. Accounted'  BY DEF Typed, Accounted, RunState, InHand, Taken, Launched
<1>6. Complete'  BY <1>same DEF Typed, Complete, Launched, NotYetRecorded
<1>7. NotYetRecorded'  BY DEF Typed, NotYetRecorded
<1>8. RunState'  BY DEF Typed, RunState, Launched
<1> QED  BY <1>1, <1>2, <1>3, <1>4, <1>5, <1>6, <1>7, <1>8

LEMMA ForwarderReceiveStep == ASSUME NEW s \in Slug, FanInInv, ForwarderReceive(s)
  PROVE  Typed' /\ Upto' /\ Launched' /\ Copied' /\ Accounted' /\ Complete' /\ NotYetRecorded' /\ RunState'
<1> USE DEF ForwarderReceive, source, copying, loop, table, SctxDone, Flush
<1> Typed /\ Upto /\ Launched /\ Copied /\ Accounted /\ Complete /\ NotYetRecorded /\ RunState
  BY DEF FanInInv
<1>same. \A x : (Selected(x)' <=> Selected(x)) /\ Yield(x)' = Yield(x)
  BY Constant
<1>1. Typed'  BY DEF Typed
<1>2. Upto'  BY Named, <1>same DEF Typed, Upto
<1>3. Launched'  BY DEF Typed, Launched
<1>4. Copied'  BY DEF Typed, Copied
<1>5. Accounted'
  <2>1. copied'[s] = copied[s] + 1 /\ InHand(s)' = 1 /\ InHand(s) = 0
    BY DEF Typed, InHand
  <2>2. \A t \in Slug \ {s} : copied'[t] = copied[t] /\ InHand(t)' = InHand(t)
    BY DEF Typed, InHand
  <2>3. \A t \in Slug : Taken(t)' = Taken(t) /\ Taken(t) \in Nat  BY DEF Taken
  <2> QED  BY <2>1, <2>2, <2>3 DEF Typed, Accounted
<1>6. Complete'  BY <1>same DEF Typed, Complete, Launched, NotYetRecorded
<1>7. NotYetRecorded'  BY DEF Typed, NotYetRecorded
<1>8. RunState'  BY DEF Typed, RunState, Launched
<1> QED  BY <1>1, <1>2, <1>3, <1>4, <1>5, <1>6, <1>7, <1>8

LEMMA ForwarderSendStep == ASSUME NEW s \in Slug, FanInInv, ForwarderSend(s)
  PROVE  Typed' /\ Upto' /\ Launched' /\ Copied' /\ Accounted' /\ Complete' /\ NotYetRecorded' /\ RunState'
<1> USE DEF ForwarderSend, source, copying, loop, table, SctxDone, Flush
<1> Typed /\ Upto /\ Launched /\ Copied /\ Accounted /\ Complete /\ NotYetRecorded /\ RunState
  BY DEF FanInInv
<1>same. \A x : (Selected(x)' <=> Selected(x)) /\ Yield(x)' = Yield(x)
  BY Constant
<1>1. Typed'  BY DEF Typed
<1>2. Upto'  BY Named, <1>same DEF Typed, Upto
<1>3. Launched'  BY DEF Typed, Launched
<1>4. Copied'  BY DEF Typed, Copied
<1>5. Accounted'  BY DEF Typed, Accounted, RunState, InHand, Taken, Launched
<1>6. Complete'  BY <1>same DEF Typed, Complete, Launched, NotYetRecorded
<1>7. NotYetRecorded'  BY DEF Typed, NotYetRecorded
<1>8. RunState'  BY DEF Typed, RunState, Launched
<1> QED  BY <1>1, <1>2, <1>3, <1>4, <1>5, <1>6, <1>7, <1>8

LEMMA ForwarderLeaveStep == ASSUME NEW s \in Slug, FanInInv, ForwarderLeave(s)
  PROVE  Typed' /\ Upto' /\ Launched' /\ Copied' /\ Accounted' /\ Complete' /\ NotYetRecorded' /\ RunState'
<1> USE DEF ForwarderLeave, source, copying, loop, table, SctxDone, Flush
<1> Typed /\ Upto /\ Launched /\ Copied /\ Accounted /\ Complete /\ NotYetRecorded /\ RunState
  BY DEF FanInInv
<1>same. \A x : (Selected(x)' <=> Selected(x)) /\ Yield(x)' = Yield(x)
  BY Constant
<1>1. Typed'  BY DEF Typed
<1>2. Upto'  BY Named, <1>same DEF Typed, Upto
<1>3. Launched'  BY DEF Typed, Launched
<1>4. Copied'  BY DEF Typed, Copied
<1>5. Accounted'  BY DEF Typed, Accounted, RunState, InHand, Taken, Launched
<1>6. Complete'  BY <1>same DEF Typed, Complete, Launched, NotYetRecorded
<1>7. NotYetRecorded'  BY DEF Typed, NotYetRecorded
<1>8. RunState'  BY DEF Typed, RunState, Launched
<1> QED  BY <1>1, <1>2, <1>3, <1>4, <1>5, <1>6, <1>7, <1>8

LEMMA ForwarderRecordStep == ASSUME NEW s \in Slug, FanInInv, ForwarderRecord(s)
  PROVE  Typed' /\ Upto' /\ Launched' /\ Copied' /\ Accounted' /\ Complete' /\ NotYetRecorded' /\ RunState'
<1> USE DEF ForwarderRecord, source, copying, loop, table, SctxDone, Flush
<1> Typed /\ Upto /\ Launched /\ Copied /\ Accounted /\ Complete /\ NotYetRecorded /\ RunState
  BY DEF FanInInv
<1>same. \A x : (Selected(x)' <=> Selected(x)) /\ Yield(x)' = Yield(x)
  BY Constant
<1>1. Typed'  BY DEF Typed
<1>2. Upto'  BY Named, <1>same DEF Typed, Upto
<1>3. Launched'  BY DEF Typed, Launched
<1>4. Copied'  BY DEF Typed, Copied
<1>5. Accounted'  BY DEF Typed, Accounted, RunState, InHand, Taken, Launched
<1>6. Complete'
  <2>1. stats'[s] = copied[s] /\ fwd'[s] = "done"  BY DEF Typed, NotYetRecorded
  <2>2. \A t \in Slug \ {s} : stats'[t] = stats[t] /\ fwd'[t] = fwd[t]  BY DEF Typed
  <2> QED  BY <2>1, <2>2, <1>same DEF Complete
<1>7. NotYetRecorded'  BY DEF Typed, NotYetRecorded
<1>8. RunState'  BY DEF Typed, RunState, Launched
<1> QED  BY <1>1, <1>2, <1>3, <1>4, <1>5, <1>6, <1>7, <1>8

LEMMA RunReceiveStep == ASSUME FanInInv, RunReceive
  PROVE  Typed' /\ Upto' /\ Launched' /\ Copied' /\ Accounted' /\ Complete' /\ NotYetRecorded' /\ RunState'
<1> USE DEF RunReceive, source, copying, loop, table, SctxDone, Flush
<1> Typed /\ Upto /\ Launched /\ Copied /\ Accounted /\ Complete /\ NotYetRecorded /\ RunState
  BY DEF FanInInv
<1>same. \A x : (Selected(x)' <=> Selected(x)) /\ Yield(x)' = Yield(x)
  BY Constant
<1>1. Typed'  BY DEF Typed
<1>2. Upto'  BY Named, <1>same DEF Typed, Upto
<1>3. Launched'  BY DEF Typed, Launched
<1>4. Copied'  BY DEF Typed, Copied
<1>5. Accounted'
  <2>1. PICK s \in Slug : out[s] > 0 /\ out' = [out EXCEPT ![s] = @ - 1] /\ cand' = s
    OBVIOUS
  <2>2. \A t \in Slug : Taken(t) = 0 /\ Taken(t)' = (IF t = s THEN 1 ELSE 0)
    BY <2>1, FanInAssumption DEF Taken, RunState
  <2>3. \A t \in Slug : InHand(t)' = InHand(t) /\ InHand(t) \in Nat  BY DEF InHand
  <2> QED  BY <2>1, <2>2, <2>3 DEF Typed, Accounted
<1>6. Complete'  BY <1>same DEF Typed, Complete, Launched, NotYetRecorded
<1>7. NotYetRecorded'  BY DEF Typed, NotYetRecorded
<1>8. RunState'  BY DEF Typed, RunState, Launched
<1> QED  BY <1>1, <1>2, <1>3, <1>4, <1>5, <1>6, <1>7, <1>8

LEMMA RunStreamEndStep == ASSUME FanInInv, RunStreamEnd
  PROVE  Typed' /\ Upto' /\ Launched' /\ Copied' /\ Accounted' /\ Complete' /\ NotYetRecorded' /\ RunState'
<1> USE DEF RunStreamEnd, source, copying, loop, table, SctxDone, Flush
<1> Typed /\ Upto /\ Launched /\ Copied /\ Accounted /\ Complete /\ NotYetRecorded /\ RunState
  BY DEF FanInInv
<1>same. \A x : (Selected(x)' <=> Selected(x)) /\ Yield(x)' = Yield(x)
  BY Constant
<1>1. Typed'  BY DEF Typed
<1>2. Upto'  BY Named, <1>same DEF Typed, Upto
<1>3. Launched'  BY DEF Typed, Launched
<1>4. Copied'  BY DEF Typed, Copied
<1>5. Accounted'  BY DEF Typed, Accounted, RunState, InHand, Taken, Launched
<1>6. Complete'  BY <1>same DEF Typed, Complete, Launched, NotYetRecorded
<1>7. NotYetRecorded'  BY DEF Typed, NotYetRecorded
<1>8. RunState'  BY DEF Typed, RunState, Launched
<1> QED  BY <1>1, <1>2, <1>3, <1>4, <1>5, <1>6, <1>7, <1>8

LEMMA RunStopStep == ASSUME FanInInv, RunStop
  PROVE  Typed' /\ Upto' /\ Launched' /\ Copied' /\ Accounted' /\ Complete' /\ NotYetRecorded' /\ RunState'
<1> USE DEF RunStop, source, copying, loop, table, SctxDone, Flush
<1> Typed /\ Upto /\ Launched /\ Copied /\ Accounted /\ Complete /\ NotYetRecorded /\ RunState
  BY DEF FanInInv
<1>same. \A x : (Selected(x)' <=> Selected(x)) /\ Yield(x)' = Yield(x)
  BY Constant
<1>1. Typed'  BY DEF Typed
<1>2. Upto'  BY Named, <1>same DEF Typed, Upto
<1>3. Launched'  BY DEF Typed, Launched
<1>4. Copied'  BY DEF Typed, Copied
<1>5. Accounted'  BY DEF Typed, Accounted, RunState, InHand, Taken, Launched
<1>6. Complete'  BY <1>same DEF Typed, Complete, Launched, NotYetRecorded
<1>7. NotYetRecorded'  BY DEF Typed, NotYetRecorded
<1>8. RunState'  BY DEF Typed, RunState, Launched
<1> QED  BY <1>1, <1>2, <1>3, <1>4, <1>5, <1>6, <1>7, <1>8

LEMMA RunPauseStep == ASSUME FanInInv, RunPause
  PROVE  Typed' /\ Upto' /\ Launched' /\ Copied' /\ Accounted' /\ Complete' /\ NotYetRecorded' /\ RunState'
<1> USE DEF RunPause, source, copying, loop, table, SctxDone, Flush
<1> Typed /\ Upto /\ Launched /\ Copied /\ Accounted /\ Complete /\ NotYetRecorded /\ RunState
  BY DEF FanInInv
<1>same. \A x : (Selected(x)' <=> Selected(x)) /\ Yield(x)' = Yield(x)
  BY Constant
<1>1. Typed'  BY DEF Typed
<1>2. Upto'  BY Named, <1>same DEF Typed, Upto
<1>3. Launched'  BY DEF Typed, Launched
<1>4. Copied'  BY DEF Typed, Copied
<1>5. Accounted'  BY DEF Typed, Accounted, RunState, InHand, Taken, Launched
<1>6. Complete'  BY <1>same DEF Typed, Complete, Launched, NotYetRecorded
<1>7. NotYetRecorded'  BY DEF Typed, NotYetRecorded
<1>8. RunState'  BY DEF Typed, RunState, Launched
<1> QED  BY <1>1, <1>2, <1>3, <1>4, <1>5, <1>6, <1>7, <1>8

LEMMA RunDispatchStep == ASSUME FanInInv, RunDispatch
  PROVE  Typed' /\ Upto' /\ Launched' /\ Copied' /\ Accounted' /\ Complete' /\ NotYetRecorded' /\ RunState'
<1> USE DEF RunDispatch, source, copying, loop, table, SctxDone, Flush
<1> Typed /\ Upto /\ Launched /\ Copied /\ Accounted /\ Complete /\ NotYetRecorded /\ RunState
  BY DEF FanInInv
<1>same. \A x : (Selected(x)' <=> Selected(x)) /\ Yield(x)' = Yield(x)
  BY Constant
<1>1. Typed'
  <2>1. cand \in Slug  BY DEF RunState
  <2> QED  BY <2>1 DEF Typed
<1>2. Upto'  BY Named, <1>same DEF Typed, Upto
<1>3. Launched'  BY DEF Typed, Launched
<1>4. Copied'  BY DEF Typed, Copied
<1>5. Accounted'
  <2>1. cand \in Slug  BY DEF RunState
  <2>2. \A t \in Slug : Taken(t)' = 0 /\ Taken(t) = (IF t = cand THEN 1 ELSE 0)
    BY <2>1, FanInAssumption DEF Taken
  <2>3. \A t \in Slug : InHand(t)' = InHand(t) /\ InHand(t) \in Nat  BY DEF InHand
  <2>4. \A t \in Slug : out[t] \in Nat /\ dispatched[t] \in Nat
           /\ dispatched'[t] = dispatched[t] + (IF t = cand THEN 1 ELSE 0)
    BY <2>1 DEF Typed
  <2>5. ended # "stop"  BY DEF RunState
  <2> QED  BY <2>2, <2>3, <2>4, <2>5 DEF Accounted
<1>6. Complete'  BY <1>same DEF Typed, Complete, Launched, NotYetRecorded
<1>7. NotYetRecorded'  BY DEF Typed, NotYetRecorded
<1>8. RunState'  BY DEF Typed, RunState, Launched
<1> QED  BY <1>1, <1>2, <1>3, <1>4, <1>5, <1>6, <1>7, <1>8

LEMMA RunReturnStep == ASSUME FanInInv, RunReturn
  PROVE  Typed' /\ Upto' /\ Launched' /\ Copied' /\ Accounted' /\ Complete' /\ NotYetRecorded' /\ RunState'
<1> USE DEF RunReturn, source, copying, loop, table, SctxDone, Flush
<1> Typed /\ Upto /\ Launched /\ Copied /\ Accounted /\ Complete /\ NotYetRecorded /\ RunState
  BY DEF FanInInv
<1>same. \A x : (Selected(x)' <=> Selected(x)) /\ Yield(x)' = Yield(x)
  BY Constant
<1>1. Typed'  BY DEF Typed
<1>2. Upto'  BY Named, <1>same DEF Typed, Upto
<1>3. Launched'  BY DEF Typed, Launched
<1>4. Copied'  BY DEF Typed, Copied
<1>5. Accounted'  BY DEF Typed, Accounted, RunState, InHand, Taken, Launched
<1>6. Complete'  BY <1>same DEF Typed, Complete, Launched, NotYetRecorded
<1>7. NotYetRecorded'  BY DEF Typed, NotYetRecorded
<1>8. RunState'  BY DEF Typed, RunState, Launched
<1> QED  BY <1>1, <1>2, <1>3, <1>4, <1>5, <1>6, <1>7, <1>8

LEMMA ProcessDoneStep == ASSUME FanInInv, ProcessDone
  PROVE  Typed' /\ Upto' /\ Launched' /\ Copied' /\ Accounted' /\ Complete' /\ NotYetRecorded' /\ RunState'
<1> USE DEF ProcessDone, source, copying, loop, table, SctxDone, Flush
<1> Typed /\ Upto /\ Launched /\ Copied /\ Accounted /\ Complete /\ NotYetRecorded /\ RunState
  BY DEF FanInInv
<1>same. \A x : (Selected(x)' <=> Selected(x)) /\ Yield(x)' = Yield(x)
  BY Constant
<1>1. Typed'  BY DEF Typed
<1>2. Upto'  BY Named, <1>same DEF Typed, Upto
<1>3. Launched'  BY DEF Typed, Launched
<1>4. Copied'  BY DEF Typed, Copied
<1>5. Accounted'  BY DEF Typed, Accounted, RunState, InHand, Taken, Launched
<1>6. Complete'  BY <1>same DEF Typed, Complete, Launched, NotYetRecorded
<1>7. NotYetRecorded'  BY DEF Typed, NotYetRecorded
<1>8. RunState'  BY DEF Typed, RunState, Launched
<1> QED  BY <1>1, <1>2, <1>3, <1>4, <1>5, <1>6, <1>7, <1>8

LEMMA ContextEndsStep == ASSUME FanInInv, ContextEnds
  PROVE  Typed' /\ Upto' /\ Launched' /\ Copied' /\ Accounted' /\ Complete' /\ NotYetRecorded' /\ RunState'
<1> USE DEF ContextEnds, source, copying, loop, table, SctxDone, Flush
<1> Typed /\ Upto /\ Launched /\ Copied /\ Accounted /\ Complete /\ NotYetRecorded /\ RunState
  BY DEF FanInInv
<1>same. \A x : (Selected(x)' <=> Selected(x)) /\ Yield(x)' = Yield(x)
  BY Constant
<1>1. Typed'  BY DEF Typed
<1>2. Upto'  BY Named, <1>same DEF Typed, Upto
<1>3. Launched'  BY DEF Typed, Launched
<1>4. Copied'  BY DEF Typed, Copied
<1>5. Accounted'  BY DEF Typed, Accounted, RunState, InHand, Taken, Launched
<1>6. Complete'  BY <1>same DEF Typed, Complete, Launched, NotYetRecorded
<1>7. NotYetRecorded'  BY DEF Typed, NotYetRecorded
<1>8. RunState'  BY DEF Typed, RunState, Launched
<1> QED  BY <1>1, <1>2, <1>3, <1>4, <1>5, <1>6, <1>7, <1>8
-----------------------------------------------------------------------------

\* The step the invariant is for: the stream ended, so the channel is closed
\* and every forwarder done, and in a living search done means complete.
LEMMA ReturnReports ==
  ASSUME FanInInv, RunReturn, ended = "stream", ~ctxDone, NEW s \in Slug, Selected(s)
  PROVE  dispatched[s] = Yield(s) /\ stats[s] = Yield(s)
<1>1. closed /\ out[s] = 0 /\ Taken(s) = 0
  BY FanInAssumption DEF FanInInv, RunState, RunReturn, Taken
<1>2. PICK i \in DOMAIN Slugs : Slugs[i] = s  BY DEF Slug
<1>3. i < next  BY <1>1, <1>2, FanInAssumption DEF FanInInv, Launched, Typed
<1>4. fwd[s] = "done"  BY <1>1, <1>2, <1>3 DEF FanInInv, Launched, Upto
<1>5. sent[s] = Yield(s) /\ pchan[s] = 0 /\ stats[s] = copied[s]
  BY <1>4 DEF FanInInv, Complete
<1>6. copied[s] = sent[s]  BY <1>5 DEF FanInInv, Copied, Typed
<1>7. copied[s] = dispatched[s]
  BY <1>1, <1>4 DEF FanInInv, Accounted, InHand, Typed
<1> QED  BY <1>5, <1>6, <1>7

\* A report once complete stays so: nothing flushes after Run has returned.
LEMMA ReportStep == ASSUME FanInInv, [Next]_vars  PROVE FullReport'
<1> USE DEF source, copying, loop, table
<1>1. CASE RunReturn
  <2>1. q' = q /\ supply' = supply /\ dispatched' = dispatched /\ ended' = ended
    BY <1>1 DEF RunReturn
  <2>2. final' => ~ctxDone /\ report' = stats  BY <1>1 DEF RunReturn, Flush
  <2> QED  BY <1>1, <2>1, <2>2, ReturnReports, Constant DEF FullReport
<1>2. CASE ~RunReturn
  <2>1. run' = "returned" =>
          /\ run = "returned" /\ UNCHANGED <<q, supply, ended, dispatched, report, final>>
    <3>1. CASE Launcher  BY <3>1 DEF Launcher, LaunchSkip, Launch, CloseOut
    <3>2. ASSUME NEW s \in Slug, Provider(s) \/ Forwarder(s)
          PROVE  UNCHANGED <<q, supply, run, ended, dispatched, report, final>>
      BY <3>2 DEF Provider, ProviderSend, ProviderEnd, Forwarder, ForwarderReceive,
                  ForwarderSend, ForwarderLeave, ForwarderRecord
    <3>3. CASE Run
      BY <3>3, <1>2 DEF Run, RunReceive, RunStreamEnd, RunStop, RunPause, RunDispatch
    <3>4. CASE ProcessDone
      BY <3>4 DEF FanInInv, RunState, ProcessDone, Typed
    <3>5. CASE ContextEnds  BY <3>5 DEF ContextEnds
    <3>6. CASE UNCHANGED vars  BY <3>6 DEF vars
    <3> QED  BY <3>1, <3>2, <3>3, <3>4, <3>5, <3>6 DEF Next
  <2> QED  BY <2>1, Constant DEF FanInInv, FullReport
<1> QED  BY <1>1, <1>2

LEMMA StutterStep == ASSUME FanInInv, UNCHANGED vars  PROVE FanInInv'
  BY Constant DEF vars, source, copying, loop, table, FanInInv, Typed, Upto, Launched,
     Copied, Accounted, InHand, Taken, Complete, NotYetRecorded, RunState, FullReport

LEMMA InitInv == Init => FanInInv
<1> SUFFICES ASSUME Init PROVE FanInInv  OBVIOUS
<1> USE DEF Init, Zero
<1>1. Typed
  <2>1. supply \in [Slug -> Nat]
    <3>1. 0..MaxSupply \subseteq Nat  BY FanInAssumption
    <3> QED  BY <3>1
  <2>2. /\ prov \in [Slug -> {"off", "run", "ended"}]
        /\ fwd \in [Slug -> {"off", "recv", "send", "done"}]
    OBVIOUS
  <2>3. Zero \in [Slug -> Nat]  OBVIOUS
  <2>4. sent = Zero /\ pchan = Zero /\ copied = Zero /\ out = Zero /\ stats = Zero
        /\ dispatched = Zero /\ report = Zero
    OBVIOUS
  <2>5. next \in Nat \ {0} /\ active \in Nat  OBVIOUS
  <2>6. closed \in BOOLEAN /\ final \in BOOLEAN /\ ctxDone \in BOOLEAN  OBVIOUS
  <2>7. /\ cand \in Slug \cup {None}
        /\ run \in {"recv", "control", "paused", "drain", "returned"}
        /\ ended \in {"no", "stream", "limit", "stop"}
    OBVIOUS
  <2> HIDE DEF Init, Zero
  <2> QED  BY <2>1, <2>2, <2>3, <2>4, <2>5, <2>6, <2>7, Zenon DEF Typed
<1>2. Upto
  <2>1. ASSUME NEW i \in DOMAIN Slugs
        PROVE  ~(i < next) /\ prov[Slugs[i]] = "off"
    BY Named
  <2> QED  BY <2>1 DEF Upto
<1>3. Launched /\ Copied /\ Complete /\ NotYetRecorded
  BY DEF Launched, Copied, Complete, NotYetRecorded
<1>4. Accounted
  <2>1. \A s \in Slug : Taken(s) = 0 /\ InHand(s) = 0  BY FanInAssumption DEF Taken, InHand
  <2> QED  BY <2>1 DEF Accounted
<1>5. RunState /\ FullReport  BY DEF RunState, FullReport
<1> QED  BY <1>1, <1>2, <1>3, <1>4, <1>5 DEF FanInInv

LEMMA NextInv == FanInInv /\ [Next]_vars => FanInInv'
<1> SUFFICES ASSUME FanInInv, [Next]_vars PROVE FanInInv'  OBVIOUS
<1>0. FullReport'  BY ReportStep
<1>1. CASE Launcher
  BY <1>0, <1>1, LaunchSkipStep, LaunchStep, CloseOutStep DEF Launcher, FanInInv
<1>2. ASSUME NEW s \in Slug, Provider(s)  PROVE FanInInv'
  BY <1>0, <1>2, ProviderSendStep, ProviderEndStep DEF Provider, FanInInv
<1>3. ASSUME NEW s \in Slug, Forwarder(s)  PROVE FanInInv'
  BY <1>0, <1>3, ForwarderReceiveStep, ForwarderSendStep, ForwarderLeaveStep,
     ForwarderRecordStep DEF Forwarder, FanInInv
<1>4. CASE Run
  BY <1>0, <1>4, RunReceiveStep, RunStreamEndStep, RunStopStep, RunPauseStep,
     RunDispatchStep, RunReturnStep DEF Run, FanInInv
<1>5. CASE ProcessDone  BY <1>0, <1>5, ProcessDoneStep DEF FanInInv
<1>6. CASE ContextEnds  BY <1>0, <1>6, ContextEndsStep DEF FanInInv
<1>7. CASE UNCHANGED vars  BY <1>7, StutterStep
<1> QED  BY <1>1, <1>2, <1>3, <1>4, <1>5, <1>6, <1>7 DEF Next

\* The invariant holds in every reachable state.
THEOREM FanIn == Spec => []FanInInv
  BY InitInv, NextInv, PTL DEF Spec

\* A search that ends because its sources have nothing more has dispatched and
\* reported every candidate of each of them.
THEOREM ReportIsFull == Spec => []FullReport
<1>1. FanInInv => FullReport  BY DEF FanInInv
<1> QED  BY <1>1, FanIn, PTL
-----------------------------------------------------------------------------
(* The bounds of TypeOK.  The length of the channel Run reads is the number   *)
(* of places taken in it, over all sources: Places is the set of them.       *)

Places == {p \in Slug \X Nat : 1 <= p[2] /\ p[2] <= out[p[1]]}

Length ==
    /\ outLen \in Nat
    /\ outLen <= OutCap
    /\ IsFiniteSet(Places)
    /\ Cardinality(Places) = outLen

\* Nothing is dispatched that was not copied, also where candidates are dropped.
Flow == \A s \in Slug : InHand(s) + out[s] + Taken(s) + dispatched[s] <= copied[s]

Bounds ==
    /\ q \in Queries
    /\ supply \in [Slug -> 0..MaxSupply]
    /\ next <= Len(Slugs) + 1
    /\ \A s \in Slug : /\ sent[s] <= MaxSupply
                       /\ pchan[s] <= ChanCap
                       /\ stats[s] <= copied[s]
                       /\ report[s] <= MaxSupply
    /\ count \in Nat
    /\ count <= Limit
    /\ ended = "no" => count < Limit
    /\ active <= Workers

BoundInv == FanInInv /\ Length /\ Flow /\ Bounds

\* What is recorded, as what was copied, was sent.
LEMMA Recorded ==
  ASSUME FanInInv, Bounds, NEW s \in Slug
  PROVE  copied[s] <= MaxSupply /\ stats[s] <= MaxSupply
<1>1. sent[s] \in Nat /\ pchan[s] \in Nat /\ copied[s] \in Nat /\ stats[s] \in Nat
  BY DEF FanInInv, Typed
<1>2. sent[s] = pchan[s] + copied[s]  BY DEF FanInInv, Copied
<1>3. sent[s] <= MaxSupply /\ stats[s] <= copied[s]  BY DEF Bounds
<1> QED  BY <1>1, <1>2, <1>3, FanInAssumption

\* A provider stops at what it finds.
LEMMA YieldBound ==
  ASSUME Bounds, NEW s \in Slug
  PROVE  Yield(s) \in Nat /\ Yield(s) <= MaxSupply
<1>1. supply[s] \in Nat /\ supply[s] <= MaxSupply  BY FanInAssumption DEF Bounds
<1> QED  BY <1>1, FanInAssumption DEF Yield

\* One source has no more places in the channel than all of them.
LEMMA ShareOfChannel ==
  ASSUME Typed, Length, NEW s \in Slug
  PROVE  out[s] \in 0..OutCap
<1> DEFINE f == [i \in 1..out[s] |-> <<s, i>>]
<1>1. out[s] \in Nat  BY DEF Typed
<1>2. f \in Injection(1..out[s], Places)
  <2>1. \A i \in 1..out[s] : <<s, i>> \in Places  BY <1>1 DEF Places
  <2>2. f \in [1..out[s] -> Places]  BY <2>1
  <2>3. \A a, b \in 1..out[s] : f[a] = f[b] => a = b  OBVIOUS
  <2> HIDE DEF f
  <2> QED  BY <2>2, <2>3 DEF Injection, IsInjective
<1>3. Cardinality(1..out[s]) <= Cardinality(Places)
  <2> HIDE DEF f
  <2> QED  BY <1>2, FS_Injection DEF Length
<1>4. Cardinality(1..out[s]) = out[s]
  <2>1. Cardinality(1..out[s]) = IF 1 > out[s] THEN 0 ELSE out[s] - 1 + 1
    BY <1>1, FS_Interval
  <2> QED  BY <2>1, <1>1
<1> QED  BY <1>1, <1>3, <1>4, FanInAssumption DEF Length

LEMMA LengthStep == ASSUME BoundInv, [Next]_vars  PROVE Length'
<1> USE DEF source, copying, loop, table
<1> Typed /\ Length  BY DEF BoundInv, FanInInv
<1>1. ASSUME NEW s \in Slug, ForwarderSend(s)  PROVE Length'
  <2>1. /\ outLen < OutCap /\ outLen' = outLen + 1
        /\ out' = [out EXCEPT ![s] = @ + 1]
    BY <1>1 DEF ForwarderSend
  <2>2. out[s] \in Nat  BY DEF Typed
  <2>3. Places' = Places \cup {<<s, out[s] + 1>>}
    <3>1. ASSUME NEW r \in Slug, NEW i \in Nat
          PROVE  i <= out'[r] <=> i <= out[r] \/ (r = s /\ i = out[s] + 1)
      <4>1. CASE r = s  BY <4>1, <2>1, <2>2 DEF Typed
      <4>2. CASE r # s  BY <4>2, <2>1 DEF Typed
      <4> QED  BY <4>1, <4>2
    <3>2. ASSUME NEW p \in Slug \X Nat
          PROVE  p \in Places' <=> p \in Places \/ p = <<s, out[s] + 1>>
      <4>1. PICK r \in Slug, i \in Nat : p = <<r, i>>  OBVIOUS
      <4>2. p \in Places' <=> 1 <= i /\ i <= out'[r]  BY <4>1 DEF Places
      <4>3. p \in Places <=> 1 <= i /\ i <= out[r]  BY <4>1 DEF Places
      <4> QED  BY <4>1, <4>2, <4>3, <3>1, <2>2
    <3>3. Places \subseteq Slug \X Nat /\ Places' \subseteq Slug \X Nat  BY DEF Places
    <3>4. <<s, out[s] + 1>> \in Slug \X Nat  BY <2>2
    <3> QED  BY <3>2, <3>3, <3>4
  <2>4. <<s, out[s] + 1>> \notin Places  BY <2>2 DEF Places
  <2>5. /\ IsFiniteSet(Places \cup {<<s, out[s] + 1>>})
        /\ Cardinality(Places \cup {<<s, out[s] + 1>>}) = Cardinality(Places) + 1
    BY <2>4, FS_AddElement DEF Length
  <2> QED  BY <2>1, <2>3, <2>5, FanInAssumption DEF Length
<1>2. CASE RunReceive
  <2>1. PICK s \in Slug : out[s] > 0 /\ out' = [out EXCEPT ![s] = @ - 1]
    BY <1>2 DEF RunReceive
  <2>2. outLen' = outLen - 1  BY <1>2 DEF RunReceive
  <2>3. out[s] \in Nat  BY DEF Typed
  <2>4. Places' = Places \ {<<s, out[s]>>}
    <3>1. ASSUME NEW r \in Slug, NEW i \in Nat
          PROVE  i <= out'[r] <=> i <= out[r] /\ ~(r = s /\ i = out[s])
      <4>1. CASE r = s  BY <4>1, <2>1, <2>3 DEF Typed
      <4>2. CASE r # s  BY <4>2, <2>1 DEF Typed
      <4> QED  BY <4>1, <4>2
    <3>2. ASSUME NEW p \in Slug \X Nat
          PROVE  p \in Places' <=> p \in Places /\ p # <<s, out[s]>>
      <4>1. PICK r \in Slug, i \in Nat : p = <<r, i>>  OBVIOUS
      <4>2. p \in Places' <=> 1 <= i /\ i <= out'[r]  BY <4>1 DEF Places
      <4>3. p \in Places <=> 1 <= i /\ i <= out[r]  BY <4>1 DEF Places
      <4> QED  BY <4>1, <4>2, <4>3, <3>1
    <3>3. Places \subseteq Slug \X Nat /\ Places' \subseteq Slug \X Nat  BY DEF Places
    <3> QED  BY <3>2, <3>3
  <2>5. <<s, out[s]>> \in Places  BY <2>1, <2>3 DEF Places
  <2>6. /\ IsFiniteSet(Places \ {<<s, out[s]>>})
        /\ Cardinality(Places \ {<<s, out[s]>>}) = Cardinality(Places) - 1
    BY <2>5, FS_RemoveElement DEF Length
  <2>7. Cardinality(Places) # 0  BY <2>5, FS_EmptySet DEF Length
  <2> QED  BY <2>2, <2>4, <2>6, <2>7, FanInAssumption DEF Length
<1>3. CASE UNCHANGED <<out, outLen>>  BY <1>3 DEF Length, Places
<1>4. CASE Launcher
  BY <1>3, <1>4 DEF Launcher, LaunchSkip, Launch, CloseOut
<1>5. ASSUME NEW s \in Slug, Provider(s)  PROVE Length'
  BY <1>3, <1>5 DEF Provider, ProviderSend, ProviderEnd
<1>6. ASSUME NEW s \in Slug, Forwarder(s)  PROVE Length'
  <2>1. CASE ForwarderSend(s)  BY <2>1, <1>1
  <2>2. CASE ~ForwarderSend(s)
    BY <2>2, <1>3, <1>6 DEF Forwarder, ForwarderReceive, ForwarderLeave, ForwarderRecord
  <2> QED  BY <2>1, <2>2
<1>7. CASE Run
  BY <1>2, <1>3, <1>7 DEF Run, RunStreamEnd, RunStop, RunPause, RunDispatch, RunReturn
<1>8. CASE ProcessDone \/ ContextEnds \/ UNCHANGED vars
  BY <1>3, <1>8 DEF ProcessDone, ContextEnds, vars
<1> QED  BY <1>4, <1>5, <1>6, <1>7, <1>8 DEF Next

LEMMA FlowStep == ASSUME BoundInv, [Next]_vars  PROVE Flow'
<1> USE DEF source, copying, loop, table
<1> Typed /\ RunState /\ Flow  BY DEF BoundInv, FanInInv
<1>f. \A s \in Slug : s # None  BY FanInAssumption
<1>1. CASE UNCHANGED <<fwd, copied, out, cand, dispatched>>
  BY <1>1 DEF Flow, InHand, Taken
<1>2. CASE LaunchSkip \/ CloseOut  BY <1>1, <1>2 DEF LaunchSkip, CloseOut
<1>3. CASE Launch
  <2>1. fwd' = [fwd EXCEPT ![Slugs[next]] = "recv"]
        /\ UNCHANGED <<copied, out, cand, dispatched>>
    BY <1>3 DEF Launch
  <2>2. ASSUME NEW s \in Slug
        PROVE  InHand(s)' + out'[s] + Taken(s)' + dispatched'[s] <= copied'[s]
    <3>1. fwd'[s] = "send" => fwd[s] = "send"  BY <2>1 DEF Typed
    <3>2. InHand(s)' \in Nat /\ InHand(s) \in Nat /\ InHand(s)' <= InHand(s)
      BY <3>1 DEF InHand
    <3>3. InHand(s) + out[s] + Taken(s) + dispatched[s] <= copied[s]  BY DEF Flow
    <3>4. Taken(s) \in Nat /\ Taken(s)' = Taken(s)  BY <2>1 DEF Taken
    <3> QED  BY <2>1, <3>2, <3>3, <3>4 DEF Typed
  <2> QED  BY <2>2 DEF Flow
<1>4. ASSUME NEW r \in Slug, Provider(r)  PROVE Flow'
  BY <1>1, <1>4 DEF Provider, ProviderSend, ProviderEnd
<1>5. ASSUME NEW r \in Slug, Forwarder(r)  PROVE Flow'
  <2>1. CASE ForwarderReceive(r)  BY <2>1 DEF ForwarderReceive, Flow, InHand, Taken, Typed
  <2>2. CASE ForwarderSend(r)  BY <2>2 DEF ForwarderSend, Flow, InHand, Taken, Typed
  <2>3. CASE ForwarderLeave(r)  BY <2>3 DEF ForwarderLeave, Flow, InHand, Taken, Typed
  <2>4. CASE ForwarderRecord(r)  BY <2>4 DEF ForwarderRecord, Flow, InHand, Taken, Typed
  <2> QED  BY <1>5, <2>1, <2>2, <2>3, <2>4 DEF Forwarder
<1>6. CASE RunReceive
  <2>1. PICK s \in Slug : out[s] > 0 /\ out' = [out EXCEPT ![s] = @ - 1] /\ cand' = s
    BY <1>6 DEF RunReceive
  <2>2. cand = None /\ UNCHANGED <<fwd, copied, dispatched>>  BY <1>6 DEF RunReceive, RunState
  <2> QED  BY <2>1, <2>2, <1>f DEF Flow, InHand, Taken, Typed
<1>7. CASE RunStreamEnd \/ RunPause \/ RunReturn
  BY <1>1, <1>7 DEF RunStreamEnd, RunPause, RunReturn
<1>8. CASE RunStop  BY <1>8, <1>f DEF RunStop, Flow, InHand, Taken, Typed
<1>9. CASE RunDispatch
  BY <1>9, <1>f DEF RunDispatch, RunState, Flow, InHand, Taken, Typed
<1>10. CASE ProcessDone \/ ContextEnds \/ UNCHANGED vars
  BY <1>1, <1>10 DEF ProcessDone, ContextEnds, vars
<1> QED  BY <1>2, <1>3, <1>4, <1>5, <1>6, <1>7, <1>8, <1>9, <1>10 DEF Next, Launcher, Run

LEMMA BoundsStep == ASSUME BoundInv, [Next]_vars  PROVE Bounds'
<1> USE DEF source, copying, loop, table
<1> FanInInv /\ Typed /\ RunState /\ Bounds  BY DEF BoundInv, FanInInv
<1>r. \A s \in Slug : copied[s] <= MaxSupply /\ stats[s] <= MaxSupply  BY Recorded
<1>c. /\ Len(Slugs) \in Nat /\ ChanCap \in Nat /\ MaxSupply \in Nat
      /\ Limit \in Nat \ {0} /\ Workers \in Nat
  BY FanInAssumption
<1>1. CASE LaunchSkip \/ Launch \/ CloseOut
  BY <1>1, <1>c DEF LaunchSkip, Launch, CloseOut, Bounds, Typed
<1>2. ASSUME NEW s \in Slug, Provider(s)  PROVE Bounds'
  <2>1. CASE ProviderSend(s)
    <3>1. sent[s] + 1 <= MaxSupply
      BY <2>1, <1>c, YieldBound DEF ProviderSend, Typed
    <3>2. /\ sent' = [sent EXCEPT ![s] = @ + 1]
          /\ pchan' = [pchan EXCEPT ![s] = @ + 1]
          /\ pchan[s] < ChanCap
      BY <2>1 DEF ProviderSend
    <3>3. ASSUME NEW r \in Slug  PROVE sent'[r] <= MaxSupply /\ pchan'[r] <= ChanCap
      <4>1. pchan[r] \in Nat /\ sent[r] \in Nat  BY DEF Typed
      <4>2. pchan[r] <= ChanCap /\ sent[r] <= MaxSupply  BY DEF Bounds
      <4>3. sent'[r] = sent[r] \/ (r = s /\ sent'[r] = sent[r] + 1)  BY <3>2 DEF Typed
      <4>4. pchan'[r] = pchan[r] \/ (r = s /\ pchan'[r] = pchan[r] + 1)  BY <3>2 DEF Typed
      <4> QED  BY <3>1, <3>2, <4>1, <4>2, <4>3, <4>4, <1>c
    <3> QED  BY <2>1, <3>3 DEF ProviderSend, Bounds
  <2>2. CASE ProviderEnd(s)  BY <2>2 DEF ProviderEnd, Bounds
  <2> QED  BY <1>2, <2>1, <2>2 DEF Provider
<1>3. ASSUME NEW s \in Slug, Forwarder(s)  PROVE Bounds'
  <2>1. CASE ForwarderReceive(s)
    <3>1. /\ pchan' = [pchan EXCEPT ![s] = @ - 1]
          /\ copied' = [copied EXCEPT ![s] = @ + 1]
          /\ UNCHANGED stats
      BY <2>1 DEF ForwarderReceive
    <3>3. ASSUME NEW r \in Slug  PROVE pchan'[r] <= ChanCap /\ stats'[r] <= copied'[r]
      <4>1. pchan[r] \in Nat /\ copied[r] \in Nat /\ stats[r] \in Nat  BY DEF Typed
      <4>2. pchan[r] <= ChanCap /\ stats[r] <= copied[r]  BY DEF Bounds
      <4>3. pchan'[r] = pchan[r] \/ pchan'[r] = pchan[r] - 1  BY <3>1 DEF Typed
      <4>4. copied'[r] = copied[r] \/ copied'[r] = copied[r] + 1  BY <3>1 DEF Typed
      <4>5. stats'[r] = stats[r]  BY <3>1
      <4> HIDE DEF source, copying, loop, table
      <4> QED  BY <4>1, <4>2, <4>3, <4>4, <4>5, <1>c
    <3> QED  BY <2>1, <3>3 DEF ForwarderReceive, Bounds
  <2>2. CASE ForwarderSend(s) \/ ForwarderLeave(s)
    BY <2>2 DEF ForwarderSend, ForwarderLeave, Bounds
  <2>3. CASE ForwarderRecord(s)
    <3>1. stats[s] = 0  BY <2>3 DEF ForwarderRecord, FanInInv, NotYetRecorded
    <3>2. stats' = [stats EXCEPT ![s] = @ + copied[s]]  BY <2>3 DEF ForwarderRecord
    <3>3. ASSUME NEW r \in Slug  PROVE stats'[r] <= copied[r]
      <4>1. copied[r] \in Nat /\ stats[r] \in Nat  BY DEF Typed
      <4>2. stats[r] <= copied[r]  BY DEF Bounds
      <4>3. stats'[r] = stats[r] \/ (r = s /\ stats'[r] = stats[r] + copied[r])
        BY <3>2 DEF Typed
      <4> QED  BY <3>1, <4>1, <4>2, <4>3
    <3> QED  BY <2>3, <3>3 DEF ForwarderRecord, Bounds
  <2> QED  BY <1>3, <2>1, <2>2, <2>3 DEF Forwarder
<1>f. ASSUME Flush  PROVE \A s \in Slug : report'[s] <= MaxSupply
  BY <1>f, <1>r DEF Flush, Bounds
<1>4. CASE RunReceive \/ RunStreamEnd \/ RunStop
  BY <1>4 DEF RunReceive, RunStreamEnd, RunStop, Bounds, RunState
<1>5. CASE RunPause \/ RunReturn
  BY <1>5, <1>f DEF RunPause, RunReturn, Bounds
<1>6. CASE RunDispatch
  <2>1. count < Limit  BY <1>6 DEF RunDispatch, RunState, Bounds
  <2>2. count' = count + 1 /\ active' = active + 1 /\ active < Workers
    BY <1>6 DEF RunDispatch
  <2>3. ended' = "no" => count + 1 < Limit
    BY <1>6, <2>1, <1>c DEF RunDispatch, Bounds
  <2> QED  BY <1>6, <2>1, <2>2, <2>3, <1>c DEF RunDispatch, Bounds, Typed
<1>7. CASE ProcessDone
  BY <1>7, <1>f, <1>c DEF ProcessDone, Bounds, Typed
<1>8. CASE ContextEnds \/ UNCHANGED vars  BY <1>8 DEF ContextEnds, vars, Bounds
<1> QED  BY <1>1, <1>2, <1>3, <1>4, <1>5, <1>6, <1>7, <1>8 DEF Next, Launcher, Run

LEMMA InitBound == Init => Length /\ Flow /\ Bounds
<1> SUFFICES ASSUME Init PROVE Length /\ Flow /\ Bounds  OBVIOUS
<1>1. Length
  <2>1. \A p \in Slug \X Nat : ~(1 <= p[2] /\ p[2] <= out[p[1]])  BY DEF Init, Zero
  <2>2. Places = {}  BY <2>1 DEF Places
  <2> QED  BY <2>2, FS_EmptySet, FanInAssumption DEF Length, Init
<1>2. Flow  BY FanInAssumption DEF Flow, InHand, Taken, Init, Zero
<1>3. Bounds  BY FanInAssumption DEF Bounds, Init, Zero
<1> QED  BY <1>1, <1>2, <1>3

\* The parts of the types and of the bounds make up TypeOK.
LEMMA BoundsGiveTypes == BoundInv => TypeOK
<1> SUFFICES ASSUME BoundInv PROVE TypeOK  OBVIOUS
<1> FanInInv /\ Typed /\ Length /\ Flow /\ Bounds  BY DEF BoundInv, FanInInv
<1>c. /\ Len(Slugs) \in Nat /\ ChanCap \in Nat /\ MaxSupply \in Nat
      /\ Limit \in Nat /\ Workers \in Nat /\ OutCap \in Nat
  BY FanInAssumption
<1>1. \A s \in Slug : /\ sent[s] \in 0..MaxSupply
                      /\ pchan[s] \in 0..ChanCap
                      /\ report[s] \in 0..MaxSupply
  BY <1>c DEF Typed, Bounds
<1>2. \A s \in Slug : copied[s] \in 0..MaxSupply /\ stats[s] \in 0..MaxSupply
  BY <1>c, Recorded DEF Typed
<1>3. \A s \in Slug : out[s] \in 0..OutCap  BY ShareOfChannel
<1>4. \A s \in Slug : dispatched[s] \in 0..MaxSupply
  <2> SUFFICES ASSUME NEW s \in Slug PROVE dispatched[s] \in 0..MaxSupply  OBVIOUS
  <2>1. InHand(s) \in Nat /\ Taken(s) \in Nat  BY DEF InHand, Taken
  <2>2. InHand(s) + out[s] + Taken(s) + dispatched[s] <= copied[s]  BY DEF Flow
  <2> QED  BY <2>1, <2>2, <1>2, <1>c DEF Typed
<1>5. /\ sent \in [Slug -> 0..MaxSupply]
      /\ pchan \in [Slug -> 0..ChanCap]
      /\ copied \in [Slug -> 0..MaxSupply]
      /\ out \in [Slug -> 0..OutCap]
      /\ stats \in [Slug -> 0..MaxSupply]
      /\ dispatched \in [Slug -> 0..MaxSupply]
      /\ report \in [Slug -> 0..MaxSupply]
  BY <1>1, <1>2, <1>3, <1>4 DEF Typed
<1>6. /\ next \in 1..(Len(Slugs) + 1)
      /\ outLen \in 0..OutCap
      /\ count \in 0..Limit
      /\ active \in 0..Workers
  BY <1>c DEF Typed, Bounds, Length
<1> QED  BY <1>5, <1>6 DEF TypeOK, Typed, Bounds

\* Every reachable state is well typed: no source is counted beyond what it
\* finds, no channel is filled beyond its capacity, and no more candidates
\* are dispatched than the limit allows or processed than there are workers.
THEOREM Typing == Spec => []TypeOK
<1>1. Init => BoundInv  BY InitInv, InitBound DEF BoundInv
<1>2. BoundInv /\ [Next]_vars => BoundInv'
  BY NextInv, LengthStep, FlowStep, BoundsStep DEF BoundInv
<1> QED  BY <1>1, <1>2, BoundsGiveTypes, PTL DEF Spec
=============================================================================
