----------------------------- MODULE Frames_proofs -----------------------------
(* The frames of a screen capture backend, for any number of callers and of   *)
(* acquisitions, any screen and any decoder; and what the rectangles they are *)
(* cropped by do to one another and to the pixels, and the floats of a        *)
(* transform to a region.                                                     *)
EXTENDS Frames, Numerals_proofs, FiniteSetTheorems, SequenceTheorems, TLAPS

Busy == {"asking", "decoding", "numbered"}
Numbered == {c \in Callers : at[c] = "numbered"}
FrameIds == {f.id : f \in returned}
TakenIds == {frame[c][1].id : c \in Numbered}

(* Every number given is that of one frame, returned or about to be, or of a  *)
(* call that raised.                                                          *)
Numbering ==
    /\ nextFrameId \in Nat
    /\ FrameIds \cup TakenIds \cup lost = 0..(nextFrameId - 1)
    /\ \A f, g \in returned : f.id = g.id => f = g
    /\ \A c \in Numbered : frame[c][1].id \notin FrameIds \cup lost
    /\ \A c, d \in Numbered : frame[c][1].id = frame[d][1].id => c = d
    /\ FrameIds \cap lost = {}

(* When a frame was stamped, by the clock that is never set back.             *)
Stamped(f) == f.capturedAt + f.back

(* The frames a caller had before it asked are older than its request.        *)
Timing ==
    /\ clock \in Nat /\ back \in Nat
    /\ \A c \in Callers : at[c] \in Busy =>
         /\ began[c] \in 0..clock
         /\ earlier[c] \subseteq FrameIds
         /\ \A g \in returned : g.id \in earlier[c] => Stamped(g) <= began[c]
    /\ \A c \in Callers : at[c] \in {"decoding", "numbered"} => shot[c] \in began[c]..clock
    /\ \A c \in Numbered : \A i \in earlier[c] : i < frame[c][1].id
    /\ \A f \in returned :
         /\ f.capturedAt \in Int /\ f.back \in Nat
         /\ Stamped(f) \in 0..clock /\ f.shot \in 0..Stamped(f) /\ f.began \in 0..f.shot
         /\ f.earlier \subseteq FrameIds
         /\ \A g \in returned : g.id \in f.earlier =>
              g.id < f.id /\ g.shot <= f.shot /\ Stamped(g) <= Stamped(f)

Domains == /\ DOMAIN at = Callers /\ DOMAIN frame = Callers /\ DOMAIN shot = Callers
           /\ DOMAIN began = Callers /\ DOMAIN earlier = Callers

Numbers == Domains /\ Numbering /\ Timing

------------------------------------------------------------------------------
(* What the actions do to the numbers: a caller asks, takes a picture, gets a *)
(* number, returns its frame or raises, or does what has no part in it.       *)
Asks(c) ==
    /\ at[c] \notin Busy /\ at' = [at EXCEPT ![c] = "asking"]
    /\ began' = [began EXCEPT ![c] = clock]
    /\ earlier' = [earlier EXCEPT ![c] = FrameIds]
    /\ \E x : frame' = [frame EXCEPT ![c] = x]
    /\ UNCHANGED <<clock, back, nextFrameId, shot, returned, lost>>

Shoots(c) ==
    /\ at[c] = "asking" /\ at' = [at EXCEPT ![c] = "decoding"]
    /\ shot' = [shot EXCEPT ![c] = clock]
    /\ UNCHANGED <<clock, back, nextFrameId, frame, began, earlier, returned, lost>>

Counts(c) ==
    /\ at[c] = "decoding" /\ at' = [at EXCEPT ![c] = "numbered"]
    /\ frame' = [frame EXCEPT ![c] = <<[id |-> nextFrameId]>>]
    /\ nextFrameId' = nextFrameId + 1
    /\ UNCHANGED <<clock, back, shot, began, earlier, returned, lost>>

Record(c) == [id |-> frame[c][1].id, capturedAt |-> clock - back, back |-> back, shot |-> shot[c],
              began |-> began[c], earlier |-> earlier[c]]

Yields(c) ==
    /\ at[c] = "numbered"
    /\ \E place \in {"captured", "idle"} : at' = [at EXCEPT ![c] = place]
    /\ returned' = returned \cup {Record(c)}
    /\ \E x : frame' = [frame EXCEPT ![c] = x]
    /\ UNCHANGED <<clock, back, nextFrameId, shot, began, earlier, lost>>

Raises(c) ==
    /\ at[c] = "numbered" /\ at' = [at EXCEPT ![c] = "idle"]
    /\ lost' = lost \cup {frame[c][1].id}
    /\ UNCHANGED <<clock, back, nextFrameId, frame, shot, began, earlier, returned>>

(* Not numbered before, and in no part of an acquisition after.               *)
Leaves(c) ==
    /\ at[c] # "numbered"
    /\ \E place \in {"idle", "extracted", "cropped"} : at' = [at EXCEPT ![c] = place]
    /\ UNCHANGED <<clock, back, nextFrameId, frame, shot, began, earlier, returned, lost>>

(* The clock goes on, or the wall clock is set back.                          *)
Passes ==
    /\ clock' \in {clock, clock + 1} /\ back' \in {back, back + 1}
    /\ UNCHANGED <<nextFrameId, at, frame, shot, began, earlier, returned, lost>>

LEMMA FrameSteps ==
    ASSUME [FramesNext]_frameVars
    PROVE  \/ Passes
           \/ \E c \in Callers : \/ Asks(c) \/ Shoots(c) \/ Counts(c) \/ Yields(c) \/ Raises(c)
                                 \/ Leaves(c)
<1>1. CASE UNCHANGED frameVars
  BY <1>1 DEF frameVars, Passes
<1>2. CASE Tick \/ SetBack
  BY <1>2 DEF Tick, SetBack, Passes, given
<1>3. ASSUME NEW c \in Callers, Acquire(c)
      PROVE  Asks(c)
  BY <1>3 DEF Acquire, Asks, Goto, Busy, FrameIds, time, given
<1>4. ASSUME NEW c \in Callers, Shoot(c)
      PROVE  Shoots(c) \/ Leaves(c)
  BY <1>4 DEF Shoot, Shoots, Leaves, Refuse, Goto, time, given
<1>5. ASSUME NEW c \in Callers, Number(c)
      PROVE  Counts(c) \/ Leaves(c)
  BY <1>5 DEF Number, TakeFrameId, Counts, Leaves, Refuse, Goto, time, given
<1>6. ASSUME NEW c \in Callers, Stamp(c)
      PROVE  Yields(c) \/ Raises(c)
  <2> DEFINE owned == RasterImage(array[c][1], FormatOf(array[c][1].channels))
  <2>1. CASE owned = None
    BY <1>6, <2>1 DEF Stamp, Raises, Refuse, Goto, time
  <2>2. CASE owned # None
    BY <1>6, <2>2 DEF Stamp, Yields, Goto, Record, time
  <2> QED BY <2>1, <2>2
<1>7. ASSUME NEW c \in Callers, Extract(c) \/ CropView(c) \/ MaterializeView(c) \/ MapRegion(c)
      PROVE  Leaves(c)
  <2>1. CASE Extract(c)
    BY <2>1 DEF Extract, Leaves, Refuse, Goto, time, given
  <2>2. CASE CropView(c)
    BY <2>2 DEF CropView, Leaves, Refuse, Goto, time, given
  <2>3. CASE MaterializeView(c)
    BY <2>3 DEF MaterializeView, Leaves, Goto, time, given
  <2>4. CASE MapRegion(c)
    BY <2>4 DEF MapRegion, Leaves, Refuse, Goto, time, given
  <2>5. QED
    BY <1>7, <2>1, <2>2, <2>3, <2>4
<1>8. QED
  BY <1>1, <1>2, <1>3, <1>4, <1>5, <1>6, <1>7 DEF FramesNext

------------------------------------------------------------------------------
LEMMA NumberingKept ==
    ASSUME Domains, Numbering, [FramesNext]_frameVars
    PROVE  Domains' /\ Numbering'
<1> USE DEF Domains
<1>1. CASE Passes
  BY <1>1 DEF Passes, Numbering, Numbered, FrameIds, TakenIds
<1>2. ASSUME NEW c \in Callers, Asks(c)
      PROVE  Domains' /\ Numbering'
  <2>1. Numbered' = Numbered /\ c \notin Numbered /\ FrameIds' = FrameIds
    BY <1>2 DEF Asks, Numbered, FrameIds, Busy
  <2>2. UNCHANGED <<nextFrameId, returned, lost>> /\ \A d \in Numbered : frame'[d] = frame[d]
    BY <1>2, <2>1 DEF Asks, Numbered
  <2>3. Domains'
    BY <1>2 DEF Asks
  <2>4. TakenIds' = TakenIds
    BY <2>1, <2>2 DEF TakenIds
  <2>5. QED
    BY <2>1, <2>2, <2>3, <2>4 DEF Numbering
<1>3. ASSUME NEW c \in Callers, Shoots(c) \/ Leaves(c)
      PROVE  Domains' /\ Numbering'
  <2>1. Numbered' = Numbered /\ FrameIds' = FrameIds /\ UNCHANGED <<nextFrameId, returned, lost, frame>>
    BY <1>3 DEF Shoots, Leaves, Numbered, FrameIds
  <2>2. Domains'
    BY <1>3 DEF Shoots, Leaves
  <2>3. TakenIds' = TakenIds
    BY <2>1 DEF TakenIds
  <2>4. QED
    BY <2>1, <2>2, <2>3 DEF Numbering
<1>4. ASSUME NEW c \in Callers, Counts(c)
      PROVE  Domains' /\ Numbering'
  <2>1. /\ Numbered' = Numbered \cup {c} /\ c \notin Numbered /\ FrameIds' = FrameIds
        /\ returned' = returned /\ lost' = lost /\ nextFrameId' = nextFrameId + 1
        /\ \A d \in Numbered : frame'[d] = frame[d]
        /\ frame'[c][1].id = nextFrameId
    BY <1>4 DEF Counts, Numbered, FrameIds
  <2>2. Domains'
    BY <1>4 DEF Counts
  <2>3. TakenIds' = TakenIds \cup {nextFrameId}
    BY <2>1 DEF TakenIds
  <2>4. nextFrameId' \in Nat /\ FrameIds' \cup TakenIds' \cup lost' = 0..(nextFrameId' - 1)
    <3>1. 0..(nextFrameId' - 1) = (0..(nextFrameId - 1)) \cup {nextFrameId}
      BY <2>1 DEF Numbering
    <3> QED BY <2>1, <2>3, <3>1 DEF Numbering
  <2>5. nextFrameId \notin FrameIds \cup TakenIds \cup lost
    BY DEF Numbering
  <2>6. \A d \in Numbered' : frame'[d][1].id \notin FrameIds' \cup lost'
    BY <2>1, <2>5 DEF Numbering
  <2>7. \A d, e \in Numbered' : frame'[d][1].id = frame'[e][1].id => d = e
    BY <2>1, <2>5 DEF Numbering, TakenIds
  <2>8. QED
    BY <2>1, <2>2, <2>4, <2>6, <2>7 DEF Numbering
<1>5. ASSUME NEW c \in Callers, Yields(c)
      PROVE  Domains' /\ Numbering'
  <2> DEFINE id == frame[c][1].id
  <2>1. /\ Numbered' = Numbered \ {c} /\ c \in Numbered
        /\ nextFrameId' = nextFrameId /\ lost' = lost /\ returned' = returned \cup {Record(c)}
        /\ \A d \in Numbered' : frame'[d] = frame[d]
    BY <1>5 DEF Yields, Numbered
  <2>2. Domains'
    BY <1>5 DEF Yields
  <2>3. Record(c).id = id /\ id \notin FrameIds \cup lost
    BY <2>1 DEF Record, Numbering
  <2>4. FrameIds' = FrameIds \cup {id}
    BY <2>1, <2>3 DEF FrameIds
  <2>5. TakenIds' = TakenIds \ {id} /\ id \in TakenIds
    BY <2>1 DEF TakenIds, Numbering
  <2>6. \A f, g \in returned' : f.id = g.id => f = g
    BY <2>1, <2>3 DEF Numbering, FrameIds
  <2>7. \A d \in Numbered' : frame'[d][1].id \notin FrameIds' \cup lost'
    BY <2>1, <2>4 DEF Numbering
  <2>8. \A d, e \in Numbered' : frame'[d][1].id = frame'[e][1].id => d = e
    BY <2>1 DEF Numbering
  <2>9. FrameIds' \cap lost' = {} /\ FrameIds' \cup TakenIds' \cup lost' = 0..(nextFrameId' - 1)
    BY <2>1, <2>3, <2>4, <2>5 DEF Numbering
  <2>10. QED
    BY <2>1, <2>2, <2>6, <2>7, <2>8, <2>9 DEF Numbering
<1>6. ASSUME NEW c \in Callers, Raises(c)
      PROVE  Domains' /\ Numbering'
  <2> DEFINE id == frame[c][1].id
  <2>1. /\ Numbered' = Numbered \ {c} /\ c \in Numbered /\ FrameIds' = FrameIds
        /\ lost' = lost \cup {id} /\ UNCHANGED <<nextFrameId, returned, frame>>
    BY <1>6 DEF Raises, Numbered, FrameIds
  <2>2. Domains'
    BY <1>6 DEF Raises
  <2>3. TakenIds' = TakenIds \ {id} /\ id \in TakenIds
    BY <2>1 DEF TakenIds, Numbering
  <2>4. \A d \in Numbered' : frame'[d][1].id \notin FrameIds' \cup lost'
    BY <2>1 DEF Numbering
  <2>5. \A d, e \in Numbered' : frame'[d][1].id = frame'[e][1].id => d = e
    BY <2>1 DEF Numbering
  <2>6. FrameIds' \cap lost' = {} /\ FrameIds' \cup TakenIds' \cup lost' = 0..(nextFrameId' - 1)
    BY <2>1, <2>3 DEF Numbering
  <2>7. QED
    BY <2>1, <2>2, <2>4, <2>5, <2>6 DEF Numbering
<1>7. QED
  BY <1>1, <1>2, <1>3, <1>4, <1>5, <1>6, FrameSteps

LEMMA TimingKept ==
    ASSUME Domains, Numbering, Timing, [FramesNext]_frameVars
    PROVE  Timing'
<1> USE DEF Domains
<1>1. CASE Passes
  BY <1>1 DEF Passes, Timing, Numbered, FrameIds, Stamped
<1>2. ASSUME NEW c \in Callers, Asks(c)
      PROVE  Timing'
  <2>1. /\ UNCHANGED <<clock, back, shot, returned>> /\ FrameIds' = FrameIds /\ Numbered' = Numbered
        /\ \A d \in Callers \ {c} : UNCHANGED <<at[d], began[d], earlier[d], frame[d]>>
        /\ at'[c] = "asking" /\ began'[c] = clock /\ earlier'[c] = FrameIds /\ c \notin Numbered
    BY <1>2 DEF Asks, FrameIds, Numbered, Busy
  <2>2. \A d \in Callers : at'[d] \in Busy =>
           /\ began'[d] \in 0..clock
           /\ earlier'[d] \subseteq FrameIds
           /\ \A g \in returned : g.id \in earlier'[d] => Stamped(g) <= began'[d]
    BY <2>1 DEF Timing
  <2>3. \A d \in Callers : at'[d] \in {"decoding", "numbered"} => shot'[d] \in began'[d]..clock
    BY <2>1 DEF Timing
  <2>4. \A d \in Numbered : \A i \in earlier'[d] : i < frame'[d][1].id
    BY <2>1 DEF Timing, Numbered
  <2>5. QED
    BY <2>1, <2>2, <2>3, <2>4 DEF Timing
<1>3. ASSUME NEW c \in Callers, Shoots(c) \/ Leaves(c)
      PROVE  Timing'
  <2>1. /\ UNCHANGED <<clock, back, returned, frame, began, earlier>> /\ FrameIds' = FrameIds
        /\ Numbered' = Numbered
        /\ \A d \in Callers \ {c} : UNCHANGED <<at[d], shot[d]>>
    BY <1>3 DEF Shoots, Leaves, FrameIds, Numbered
  <2>2. at'[c] \in Busy => at[c] \in Busy
    BY <1>3 DEF Shoots, Leaves, Busy
  <2>3. at'[c] \in {"decoding", "numbered"} => at[c] \in Busy /\ shot'[c] = clock
    BY <1>3 DEF Shoots, Leaves, Busy
  <2>4. \A d \in Callers : at'[d] \in {"decoding", "numbered"} => shot'[d] \in began'[d]..clock
    BY <2>1, <2>3 DEF Timing
  <2>5. QED
    BY <2>1, <2>2, <2>4 DEF Timing
<1>4. ASSUME NEW c \in Callers, Counts(c)
      PROVE  Timing'
  <2>1. /\ UNCHANGED <<clock, back, returned, shot, began, earlier>> /\ FrameIds' = FrameIds
        /\ Numbered' = Numbered \cup {c} /\ at[c] = "decoding"
        /\ \A d \in Callers \ {c} : UNCHANGED <<at[d], frame[d]>>
        /\ frame'[c][1].id = nextFrameId
    BY <1>4 DEF Counts, FrameIds, Numbered
  <2>2. at[c] \in Busy /\ \A i \in earlier[c] : i < nextFrameId
    <3>1. earlier[c] \subseteq FrameIds
      BY <2>1 DEF Timing, Busy
    <3>2. QED
      BY <2>1, <3>1 DEF Numbering, FrameIds, Busy
  <2>3. \A d \in Numbered' : \A i \in earlier[d] : i < frame'[d][1].id
    BY <2>1, <2>2 DEF Timing, Numbered
  <2>4. QED
    BY <2>1, <2>2, <2>3 DEF Timing
<1>5. ASSUME NEW c \in Callers, Yields(c)
      PROVE  Timing'
  <2> DEFINE f == Record(c)
  <2>1. /\ UNCHANGED <<clock, back, shot, began, earlier>>
        /\ returned' = returned \cup {f}
        /\ Numbered' = Numbered \ {c} /\ at[c] = "numbered" /\ at'[c] \notin Busy
        /\ \A d \in Callers \ {c} : UNCHANGED <<at[d], frame[d]>>
    BY <1>5 DEF Yields, Numbered, Busy
  <2>2. /\ f.id = frame[c][1].id /\ f.capturedAt \in Int /\ f.back \in Nat /\ Stamped(f) = clock /\ f.shot = shot[c]
        /\ f.began = began[c] /\ f.earlier = earlier[c]
    BY DEF Record, Stamped, Timing
  <2>3. f.id \notin FrameIds /\ FrameIds' = FrameIds \cup {f.id}
    BY <2>1, <2>2 DEF Numbering, Numbered, FrameIds
  <2>4. /\ began[c] \in 0..clock /\ earlier[c] \subseteq FrameIds /\ shot[c] \in began[c]..clock
        /\ \A g \in returned : g.id \in earlier[c] => Stamped(g) <= began[c]
        /\ \A i \in earlier[c] : i < frame[c][1].id
    BY <2>1 DEF Timing, Busy, Numbered
  <2> HIDE DEF f
  <2>5. /\ f.capturedAt \in Int /\ f.back \in Nat
        /\ Stamped(f) \in 0..clock /\ f.shot \in 0..Stamped(f) /\ f.began \in 0..f.shot
        /\ f.earlier \subseteq FrameIds
    BY <2>2, <2>4 DEF Timing
  <2>6. \A g \in returned : g.id \in f.earlier =>
           g.id < f.id /\ g.shot <= f.shot /\ Stamped(g) <= Stamped(f)
    <3>1. SUFFICES ASSUME NEW g \in returned, g.id \in f.earlier
          PROVE  g.id < f.id /\ g.shot <= f.shot /\ Stamped(g) <= Stamped(f)
      OBVIOUS
    <3>2. g.id < f.id /\ Stamped(g) <= began[c]
      BY <2>2, <2>4, <3>1
    <3>3. Stamped(g) \in 0..clock /\ g.shot \in 0..Stamped(g)
      BY <3>1 DEF Timing
    <3>4. QED
      BY <2>2, <2>4, <2>5, <3>2, <3>3 DEF Timing
  <2>7. \A g \in returned : f.id \notin g.earlier
    BY <2>3 DEF Timing
  <2>8. \A h \in returned' :
           /\ h.capturedAt \in Int /\ h.back \in Nat
           /\ Stamped(h) \in 0..clock /\ h.shot \in 0..Stamped(h) /\ h.began \in 0..h.shot
           /\ h.earlier \subseteq FrameIds'
    BY <2>1, <2>3, <2>5 DEF Timing
  <2>9. \A h, g \in returned' : g.id \in h.earlier =>
           g.id < h.id /\ g.shot <= h.shot /\ Stamped(g) <= Stamped(h)
    BY <2>1, <2>3, <2>5, <2>6, <2>7 DEF Timing
  <2>10. \A d \in Callers : at'[d] \in Busy =>
            /\ d # c /\ began[d] \in 0..clock
            /\ earlier[d] \subseteq FrameIds'
            /\ \A g \in returned' : g.id \in earlier[d] => Stamped(g) <= began[d]
    BY <2>1, <2>3 DEF Timing
  <2>11. \A d \in Callers : at'[d] \in {"decoding", "numbered"} => shot[d] \in began[d]..clock
    BY <2>1 DEF Timing, Busy
  <2>12. \A d \in Numbered' : \A i \in earlier[d] : i < frame'[d][1].id
    BY <2>1 DEF Timing, Numbered
  <2>13. clock' \in Nat /\ back' \in Nat
    BY <2>1 DEF Timing
  <2>14. QED
    BY <2>1, <2>8, <2>9, <2>10, <2>11, <2>12, <2>13 DEF Timing
<1>6. ASSUME NEW c \in Callers, Raises(c)
      PROVE  Timing'
  <2>1. /\ UNCHANGED <<clock, back, returned, frame, shot, began, earlier>> /\ FrameIds' = FrameIds
        /\ Numbered' \subseteq Numbered /\ at'[c] = "idle"
        /\ \A d \in Callers \ {c} : UNCHANGED <<at[d]>>
    BY <1>6 DEF Raises, FrameIds, Numbered
  <2>2. QED
    BY <2>1 DEF Timing, Busy
<1>7. QED
  BY <1>1, <1>2, <1>3, <1>4, <1>5, <1>6, FrameSteps

(* Every number is given once, to a frame or to a call that raises after it   *)
(* took it, whoever captures at the same time; a picture was on the screen    *)
(* between the call and the moment captured_at names on the wall clock of     *)
(* then; and the frames one caller had before another's request come before   *)
(* it by number, by what they show and, unless the wall clock was set back in *)
(* between, by captured_at (android_adb.py 97-162).                           *)
THEOREM FramesAreInOrder == FramesSpec => []FramesInOrder
<1>1. FramesInit => Numbers
  <2> SUFFICES ASSUME FramesInit PROVE Numbers
    OBVIOUS
  <2>1. Numbered = {} /\ FrameIds = {} /\ TakenIds = {}
    BY DEF FramesInit, Numbered, FrameIds, TakenIds
  <2>2. QED
    BY <2>1 DEF FramesInit, Numbers, Domains, Numbering, Timing, Busy
<1>2. Numbers /\ [FramesNext]_frameVars => Numbers'
  BY NumberingKept, TimingKept DEF Numbers
<1>3. Numbers => FramesInOrder
  <2> SUFFICES ASSUME Numbers PROVE FramesInOrder
    OBVIOUS
  <2>1. /\ \A f, g \in returned : f.id = g.id => f = g
        /\ FrameIds \cup TakenIds \cup lost = 0..(nextFrameId - 1)
        /\ \A c \in Numbered : frame[c][1].id \notin FrameIds \cup lost
        /\ FrameIds \cap lost = {}
    BY DEF Numbers, Numbering
  <2>2. \A f \in returned :
           /\ f.began <= f.shot /\ f.shot <= f.capturedAt + f.back
           /\ \A g \in returned : g.id \in f.earlier =>
                /\ g.id < f.id /\ g.shot <= f.shot
                /\ g.back = f.back => g.capturedAt <= f.capturedAt
    BY DEF Numbers, Timing, Stamped
  <2>3. QED
    BY <2>1, <2>2, Zenon DEF FramesInOrder, FrameIds, TakenIds, Numbered
<1>4. QED
  BY <1>1, <1>2, <1>3, PTL DEF FramesSpec
------------------------------------------------------------------------------
(* A rectangle of picture p, and one row of it.                               *)
RowPart(p, left, y, width) == [x \in 1..width |-> <<p, left + x - 1, y>>]
Part(p, left, top, width, height) == [i \in 1..height |-> RowPart(p, left, top + i - 1, width)]

(* Its size.                                                                  *)
LEMMA PartSize ==
    ASSUME NEW p, NEW left \in Int, NEW top \in Int, NEW width \in Nat \ {0}, NEW height \in Nat \ {0}
    PROVE  /\ Len(Part(p, left, top, width, height)) = height
           /\ Len(Part(p, left, top, width, height)[1]) = width
BY DEF Part, RowPart

(* The n elements after the first m.                                          *)
LEMMA SubSeqFrom ==
    ASSUME NEW S, NEW s \in Seq(S), NEW m \in Nat, NEW n \in Nat, m + n <= Len(s)
    PROVE  SubSeq(s, m + 1, m + n) = [k \in 1..n |-> s[m + k]]
<1> DEFINE t == SubSeq(s, m + 1, m + n)
<1>1. \A i \in m + 1 .. m + n : s[i] \in S
  BY ElementOfSeq
<1>2. t \in Seq(S) /\ Len(t) = n /\ \A i \in 1..n : t[i] = s[m + i]
  BY <1>1, SubSeqProperties
<1>3. DOMAIN t = 1..n /\ t = [i \in DOMAIN t |-> t[i]]
  BY <1>2, LenProperties
<1> HIDE DEF t
<1> QED BY <1>2, <1>3

(* A slice of a row of a picture is one.                                      *)
LEMMA SlicedRow ==
    ASSUME NEW p, NEW left \in Int, NEW y \in Int, NEW width \in Nat, NEW x \in Nat, NEW n \in Nat,
           x + n <= width
    PROVE  SubSeq(RowPart(p, left, y, width), x + 1, x + n) = RowPart(p, left + x, y, n)
<1> DEFINE row == RowPart(p, left, y, width)
           colors == {<<p, a, y>> : a \in Int}
<1>1. row \in Seq(colors) /\ Len(row) = width
  BY DEF RowPart
<1>2. ASSUME NEW k \in 1..n PROVE row[x + k] = <<p, left + x + k - 1, y>>
  <2>1. x + k \in 1..width /\ left + (x + k) - 1 = left + x + k - 1
    OBVIOUS
  <2> QED BY <2>1 DEF RowPart
<1> HIDE DEF row, colors
<1>3. SubSeq(row, x + 1, x + n) = [k \in 1..n |-> row[x + k]]
  BY <1>1, SubSeqFrom
<1> QED BY <1>2, <1>3 DEF row, RowPart

(* A slice of a rectangle of a picture is one, where the offsets add up to.   *)
LEMMA SlicedPart ==
    ASSUME NEW p, NEW left \in Int, NEW top \in Int, NEW width \in Nat \ {0}, NEW height \in Nat \ {0},
           NEW r \in Rects, ContainsRect(Rect(0, 0, width, height), r)
    PROVE  SlicePixels(Part(p, left, top, width, height), r) =
               Part(p, left + r.x, top + r.y, r.width, r.height)
<1> DEFINE whole == Part(p, left, top, width, height)
<1>1. /\ r.x \in Nat /\ r.y \in Nat /\ r.width \in Nat \ {0} /\ r.height \in Nat \ {0}
      /\ r.x + r.width <= width /\ r.y + r.height <= height
  BY DEF Rects, ContainsRect, Rect, Right, Bottom
<1>2. PICK a, b, w, h \in Nat : r.x = a /\ r.y = b /\ r.width = w /\ r.height = h
  BY <1>1
<1>3. a + w <= width /\ b + h <= height
  BY <1>1, <1>2
<1>4. ASSUME NEW i \in 1..h
      PROVE  SubSeq(whole[b + i], a + 1, a + w) = RowPart(p, left + a, top + b + i - 1, w)
  <2>1. b + i \in 1..height /\ top + (b + i) - 1 = top + b + i - 1 /\ top + b + i - 1 \in Int
    BY <1>3
  <2>2. whole[b + i] = RowPart(p, left, top + b + i - 1, width)
    BY <2>1 DEF Part
  <2> QED BY <1>3, <2>1, <2>2, SlicedRow
<1> HIDE DEF whole
<1>5. SlicePixels(whole, r) = [i \in 1..h |-> SubSeq(whole[b + i], a + 1, a + w)]
  BY <1>2 DEF SlicePixels
<1>6. Part(p, left + a, top + b, w, h) = [i \in 1..h |-> RowPart(p, left + a, top + b + i - 1, w)]
  BY DEF Part
<1> QED BY <1>2, <1>4, <1>5, <1>6 DEF whole

------------------------------------------------------------------------------
(* The image shows picture p from the pixel in column x and row y.            *)
ShowsFrom(image, p, x, y) ==
    /\ DOMAIN image = {"backing", "slice", "format"}
    /\ \E left, top \in Int, width, height \in Nat \ {0} :
         /\ image.backing = Part(p, left, top, width, height)
         /\ \/ image.slice = <<>> /\ x = left /\ y = top
            \/ \E r \in Rects : /\ image.slice = <<r>> /\ x = left + r.x /\ y = top + r.y
                                /\ ContainsRect(Rect(0, 0, width, height), r)

(* The pixels of such an image are a rectangle of the picture.                *)
LEMMA PixelsShown ==
    ASSUME NEW image, NEW p, NEW x, NEW y, ShowsFrom(image, p, x, y)
    PROVE  /\ x \in Int /\ y \in Int
           /\ \E width, height \in Nat \ {0} : Pixels(image) = Part(p, x, y, width, height)
<1>1. PICK left, top \in Int, width, height \in Nat \ {0} :
         /\ image.backing = Part(p, left, top, width, height)
         /\ \/ image.slice = <<>> /\ x = left /\ y = top
            \/ \E r \in Rects : /\ image.slice = <<r>> /\ x = left + r.x /\ y = top + r.y
                                /\ ContainsRect(Rect(0, 0, width, height), r)
  BY DEF ShowsFrom
<1>2. CASE image.slice = <<>> /\ x = left /\ y = top
  BY <1>1, <1>2 DEF Pixels
<1>3. ASSUME NEW r \in Rects, image.slice = <<r>>, x = left + r.x, y = top + r.y,
             ContainsRect(Rect(0, 0, width, height), r)
      PROVE  /\ x \in Int /\ y \in Int
             /\ \E w, h \in Nat \ {0} : Pixels(image) = Part(p, x, y, w, h)
  <2>1. Pixels(image) = SlicePixels(Part(p, left, top, width, height), r)
    BY <1>1, <1>3 DEF Pixels
  <2>2. Pixels(image) = Part(p, x, y, r.width, r.height)
    BY <1>3, <2>1, SlicedPart
  <2> QED BY <1>3, <2>2 DEF Rects
<1> QED BY <1>1, <1>2, <1>3

(* The bounds of such an image begin at its own corner.                       *)
LEMMA BoundsShown ==
    ASSUME NEW image, NEW p, NEW x, NEW y, ShowsFrom(image, p, x, y)
    PROVE  Bounds(image).x = 0 /\ Bounds(image).y = 0 /\ Bounds(image) \in Rects
<1>1. PICK width, height \in Nat \ {0} : Pixels(image) = Part(p, x, y, width, height)
  BY PixelsShown
<1> QED BY <1>1, PixelsShown, PartSize DEF Bounds, BoundsOf, Rect, Rects

(* A translation moves the corner of a rectangle and keeps its sides          *)
(* (`translated`, geometry/rect.py).                                          *)
LEMMA TranslatedShape ==
    ASSUME NEW r \in Rects, NEW dx \in Int, NEW dy \in Int
    PROVE  /\ Translated(r, dx, dy) \in Rects
           /\ Translated(r, dx, dy).x = r.x + dx /\ Translated(r, dx, dy).y = r.y + dy
           /\ Translated(r, dx, dy).width = r.width /\ Translated(r, dx, dy).height = r.height
<1> DEFINE moved == [r EXCEPT !.x = r.x + dx]
<1>1. /\ moved \in Rects /\ moved.x = r.x + dx /\ moved.y = r.y
      /\ moved.width = r.width /\ moved.height = r.height
  BY DEF Rects
<1>2. Translated(r, dx, dy) = [moved EXCEPT !.y = r.y + dy]
  BY <1>1 DEF Translated
<1>3. r.y + dy \in Int
  BY DEF Rects
<1> HIDE DEF moved
<1> QED BY <1>1, <1>2, <1>3 DEF Rects

(* A crop begins where the region begins in what it is a crop of, however     *)
(* many crops deep that is.                                                   *)
LEMMA CropShown ==
    ASSUME NEW image, NEW p, NEW x, NEW y, ShowsFrom(image, p, x, y), NEW region \in Rects,
           Crop(image, region) # <<>>
    PROVE  /\ Crop(image, region) = <<Crop(image, region)[1]>>
           /\ ShowsFrom(Crop(image, region)[1], p, x + region.x, y + region.y)
<1>1. PICK left, top \in Int, width, height \in Nat \ {0} :
         /\ image.backing = Part(p, left, top, width, height)
         /\ \/ image.slice = <<>> /\ x = left /\ y = top
            \/ \E r \in Rects : /\ image.slice = <<r>> /\ x = left + r.x /\ y = top + r.y
                                /\ ContainsRect(Rect(0, 0, width, height), r)
  BY DEF ShowsFrom
<1>2. x \in Int /\ y \in Int /\ DOMAIN image = {"backing", "slice", "format"}
  BY PixelsShown DEF ShowsFrom
<1>3. region.x \in Int /\ region.y \in Int /\ region.width \in Nat \ {0} /\ region.height \in Nat \ {0}
  BY DEF Rects
<1>4. BoundsOf(image.backing) = Rect(0, 0, width, height)
  BY <1>1, PartSize DEF BoundsOf
<1>5. CASE region = Bounds(image)
  <2>1. Crop(image, region) = <<image>>
    BY <1>5 DEF Crop
  <2>2. x + region.x = x /\ y + region.y = y
    BY <1>2, <1>5, BoundsShown
  <2> QED BY <2>1, <2>2
<1>6. ASSUME region # Bounds(image), NEW whole \in Rects, Crop(image, region) = RasterSlice(image, whole),
             x + region.x = left + whole.x, y + region.y = top + whole.y
      PROVE  /\ Crop(image, region) = <<Crop(image, region)[1]>>
             /\ ShowsFrom(Crop(image, region)[1], p, x + region.x, y + region.y)
  <2> DEFINE cropped == [image EXCEPT !.slice = <<whole>>]
  <2>1. ContainsRect(Rect(0, 0, width, height), whole) /\ Crop(image, region) = <<cropped>>
    BY <1>4, <1>6 DEF RasterSlice
  <2>2. /\ DOMAIN cropped = {"backing", "slice", "format"}
        /\ cropped.backing = image.backing /\ cropped.slice = <<whole>>
    BY <1>2
  <2>3. ShowsFrom(cropped, p, x + region.x, y + region.y)
    BY <1>1, <1>6, <2>1, <2>2 DEF ShowsFrom
  <2> QED BY <2>1, <2>3
<1>7. CASE region # Bounds(image) /\ image.slice = <<>> /\ x = left /\ y = top
  BY <1>6, <1>7 DEF Crop
<1>8. ASSUME region # Bounds(image), NEW r \in Rects, image.slice = <<r>>, x = left + r.x, y = top + r.y
      PROVE  /\ Crop(image, region) = <<Crop(image, region)[1]>>
             /\ ShowsFrom(Crop(image, region)[1], p, x + region.x, y + region.y)
  <2> DEFINE whole == Translated(region, r.x, r.y)
  <2>1. whole \in Rects /\ whole.x = region.x + r.x /\ whole.y = region.y + r.y
    <3>1. r.x \in Int /\ r.y \in Int
      BY DEF Rects
    <3> QED BY <3>1, TranslatedShape
  <2>2. Crop(image, region) = RasterSlice(image, whole)
    BY <1>8 DEF Crop
  <2> HIDE DEF whole
  <2>3. x + region.x = left + whole.x /\ y + region.y = top + whole.y
    <3>1. r.x \in Int /\ r.y \in Int /\ left \in Int /\ top \in Int
      BY DEF Rects
    <3> QED BY ONLY <1>3, <1>8, <2>1, <3>1
  <2> QED BY <1>6, <1>8, <2>1, <2>2, <2>3
<1> QED BY <1>1, <1>5, <1>7, <1>8

(* A copy shows the same part of the picture.                                 *)
LEMMA MaterializedShown ==
    ASSUME NEW image, NEW p, NEW x, NEW y, ShowsFrom(image, p, x, y)
    PROVE  ShowsFrom(Materialize(image), p, x, y) /\ IsMaterialized(Materialize(image))
<1>1. CASE image.slice = <<>>
  BY <1>1 DEF Materialize, IsMaterialized
<1>2. CASE image.slice # <<>>
  <2> DEFINE copy == [image EXCEPT !.backing = Pixels(image), !.slice = <<>>]
  <2>1. DOMAIN copy = {"backing", "slice", "format"} /\ copy.backing = Pixels(image) /\ copy.slice = <<>>
    BY DEF ShowsFrom
  <2>2. Materialize(image) = copy
    BY <1>2 DEF Materialize
  <2> HIDE DEF copy
  <2>3. PICK width, height \in Nat \ {0} : Pixels(image) = Part(p, x, y, width, height)
    BY PixelsShown
  <2>4. ShowsFrom(copy, p, x, y)
    BY <2>1, <2>3, PixelsShown DEF ShowsFrom
  <2> QED BY <2>1, <2>2, <2>4 DEF IsMaterialized
<1> QED BY <1>1, <1>2

------------------------------------------------------------------------------
Looking == {"captured", "extracted", "cropped"}

(* The whole of picture p.                                                    *)
ShowsAll(rows, p) == rows = Part(p, 0, 0, ScreenWidth, ScreenHeight)

(* What each caller holds shows the picture it took: a decoded payload and a  *)
(* captured frame the whole of it, a view from its corner on.                 *)
Placed(c) ==
    /\ at[c] \in {"decoding", "numbered"} => ShowsAll(array[c][1].rows, shot[c])
    /\ at[c] = "captured" => /\ ShowsFrom(frame[c][1].image, shot[c], 0, 0)
                             /\ IsMaterialized(frame[c][1].image)
    /\ at[c] \in Looking =>
         /\ view[c] = <<view[c][1]>>
         /\ ShowsFrom(view[c][1], shot[c], corner[c][1], corner[c][2])
    /\ at[c] = "extracted" => IsMaterialized(view[c][1])

InPlace ==
    /\ DOMAIN at = Callers /\ DOMAIN array = Callers /\ DOMAIN frame = Callers
    /\ DOMAIN view = Callers /\ DOMAIN shot = Callers /\ DOMAIN corner = Callers
    /\ \A c \in Callers : Placed(c)

(* A picture shows all of itself.                                             *)
LEMMA PictureIsPart ==
    ASSUME NEW p PROVE ShowsAll(Picture(p), p)
<1>1. ASSUME NEW y \in 1..ScreenHeight
      PROVE  RowPart(p, 0, 0 + y - 1, ScreenWidth) = [x \in 1..ScreenWidth |-> <<p, x - 1, y - 1>>]
  BY FramesAssumption DEF RowPart
<1> QED BY <1>1 DEF ShowsAll, Picture, Part

(* A decoded payload that becomes an image shows the whole picture.           *)
LEMMA RasterOfPicture ==
    ASSUME NEW a, NEW p, ShowsAll(a.rows, p), NEW format, RasterImage(a, format) # None
    PROVE  /\ ShowsFrom(RasterImage(a, format)[1], p, 0, 0)
           /\ IsMaterialized(RasterImage(a, format)[1])
           /\ RasterImage(a, format)[1].backing = a.rows
<1> DEFINE image == [backing |-> a.rows, slice |-> <<>>, format |-> format]
<1>1. RasterImage(a, format) = <<image>>
  BY DEF RasterImage, None
<1>2. ShowsFrom(image, p, 0, 0)
  <2>1. DOMAIN image = {"backing", "slice", "format"} /\ image.backing = a.rows /\ image.slice = <<>>
    OBVIOUS
  <2> HIDE DEF image
  <2> QED BY <2>1, FramesAssumption DEF ShowsFrom, ShowsAll
<1> QED BY <1>1, <1>2 DEF IsMaterialized

(* A step of one caller leaves alone what the others hold.                    *)
LEMMA OthersPlaced ==
    ASSUME InPlace, NEW c \in Callers, NEW d \in Callers, c # d,
           at'[d] = at[d], array'[d] = array[d], frame'[d] = frame[d], view'[d] = view[d],
           shot'[d] = shot[d], corner'[d] = corner[d]
    PROVE  Placed(d)'
BY DEF InPlace, Placed, ShowsAll, Looking

(* One case per step of a caller.                                             *)
LEMMA PlacesKept ==
    ASSUME InPlace, [FramesNext]_frameVars
    PROVE  InPlace'
<1> USE DEF InPlace
<1>1. CASE Tick \/ SetBack \/ UNCHANGED frameVars
  BY <1>1 DEF Tick, SetBack, frameVars, reading, Placed, ShowsAll, Looking
<1>2. ASSUME NEW c \in Callers, Acquire(c) PROVE InPlace'
  <2>1. Placed(c)'
    BY <1>2 DEF Acquire, Goto, Placed, Looking
  <2> QED BY <1>2, <2>1, OthersPlaced DEF Acquire, Goto
<1>3. ASSUME NEW c \in Callers, Shoot(c) PROVE InPlace'
  <2>1. Placed(c)'
    BY <1>3, PictureIsPart DEF Shoot, Goto, Refuse, Placed, Looking
  <2> QED BY <1>3, <2>1, OthersPlaced DEF Shoot, Goto, Refuse, reading
<1>4. ASSUME NEW c \in Callers, Number(c) PROVE InPlace'
  <2>1. Placed(c)'
    BY <1>4 DEF Number, TakeFrameId, Goto, Refuse, Placed, ShowsAll, Looking
  <2> QED BY <1>4, <2>1, OthersPlaced DEF Number, TakeFrameId, Goto, Refuse, reading
<1>5. ASSUME NEW c \in Callers, Stamp(c) PROVE InPlace'
  <2> DEFINE owned == RasterImage(array[c][1], FormatOf(array[c][1].channels))
             image == owned[1]
  <2>1. CASE owned = None
    <3>1. at'[c] = "idle" /\ UNCHANGED <<frame, view, corner, shot>> /\ \E x : array' = [array EXCEPT ![c] = x]
      BY <1>5, <2>1 DEF Stamp, Refuse, Goto
    <3>2. Placed(c)'
      BY <3>1 DEF Placed, Looking
    <3> QED BY <1>5, <2>1, <3>1, <3>2, OthersPlaced DEF Stamp, Refuse, Goto
  <2>2. CASE owned # None
    <3>1. ShowsFrom(image, shot[c], 0, 0) /\ IsMaterialized(image)
      BY <1>5, <2>2, RasterOfPicture DEF Stamp, Placed
    <3>2. ShowsFrom(Materialize(image), shot[c], 0, 0)
      BY <3>1, MaterializedShown
    <3>3. /\ at'[c] \in {"captured", "idle"} /\ view'[c] = <<Materialize(image)>>
          /\ frame'[c][1].image = image /\ shot' = shot /\ corner'[c] = <<0, 0>>
      BY <1>5, <2>2 DEF Stamp, Goto
    <3>4. DOMAIN at' = Callers /\ DOMAIN array' = Callers /\ DOMAIN frame' = Callers
          /\ DOMAIN view' = Callers /\ DOMAIN shot' = Callers /\ DOMAIN corner' = Callers
          /\ \A d \in Callers \ {c} :
               UNCHANGED <<at[d], array[d], frame[d], view[d], shot[d], corner[d]>>
      BY <1>5, <2>2 DEF Stamp, Goto
    <3> HIDE DEF image, owned
    <3>5. Placed(c)'
      BY <3>1, <3>2, <3>3 DEF Placed, Looking
    <3> QED BY <3>4, <3>5, OthersPlaced
  <2> QED BY <2>1, <2>2
<1>6. ASSUME NEW c \in Callers, Extract(c) PROVE InPlace'
  <2> DEFINE image == frame[c][1].image
  <2>1. /\ ShowsFrom(image, shot[c], 0, 0) /\ image.slice = <<>> /\ at[c] = "captured"
        /\ UNCHANGED <<shot, array, frame>>
    BY <1>6 DEF Extract, Placed, IsMaterialized
  <2>2. PICK answer \in Answers :
           LET located == Locate(frame[c][1], answer) IN
           IF located.bounds = None
           THEN Refuse(c, located.reason) /\ UNCHANGED <<view, corner>>
           ELSE /\ view' = [view EXCEPT ![c] = <<Extracted(frame[c][1], located.bounds[1])>>]
                /\ corner' = [corner EXCEPT ![c] = <<located.bounds[1].x, located.bounds[1].y>>]
                /\ Goto(c, "extracted")
                /\ UNCHANGED outcome
    BY <1>6 DEF Extract
  <2> DEFINE bounds == Locate(frame[c][1], answer).bounds
  <2>3. CASE bounds = None
    <3>1. at'[c] = "idle"
      BY <2>2, <2>3 DEF Refuse, Goto
    <3> QED BY <2>1, <2>2, <2>3, <3>1, OthersPlaced DEF Refuse, Goto, Placed, Looking
  <2>4. CASE bounds # None
    <3>1. /\ bounds[1] \in Rects /\ ContainsRect(Bounds(image), bounds[1])
      <4>1. Bounds(image) \in Rects
        BY <2>1, BoundsShown
      <4>2. \/ bounds = <<Bounds(image)>>
            \/ answer.says = "configured" /\ bounds = <<answer.bounds>>
               /\ ContainsRect(Bounds(image), answer.bounds)
        BY <2>4 DEF Locate, None
      <4>3. answer.says = "configured" => answer.bounds \in Rects
        BY FramesAssumption DEF Answers
      <4>4. ContainsRect(Bounds(image), Bounds(image))
        BY <4>1 DEF ContainsRect, Rects, Right, Bottom
      <4> HIDE DEF bounds, image
      <4> QED BY <4>1, <4>2, <4>3, <4>4
    <3>2. PICK b \in Rects : b = bounds[1]
      BY <3>1
    <3>3. \/ b = Bounds(image)
          \/ Crop(image, b) # <<>>
      BY <2>1, <3>1, <3>2 DEF Crop, RasterSlice, Bounds, Pixels
    <3>4. /\ ShowsFrom(Extracted(frame[c][1], b), shot[c], b.x, b.y)
          /\ IsMaterialized(Extracted(frame[c][1], b))
      <4>1. CASE b = Bounds(image)
        BY <2>1, <4>1, BoundsShown, MaterializedShown DEF Extracted
      <4>2. CASE b # Bounds(image)
        <5>1. ShowsFrom(Crop(image, b)[1], shot[c], 0 + b.x, 0 + b.y)
          BY <2>1, <3>3, <4>2, CropShown
        <5>2. 0 + b.x = b.x /\ 0 + b.y = b.y
          BY DEF Rects
        <5> QED BY <4>2, <5>1, <5>2, MaterializedShown DEF Extracted
      <4> QED BY <4>1, <4>2
    <3>5. /\ at'[c] = "extracted" /\ view'[c] = <<Extracted(frame[c][1], b)>> /\ corner'[c] = <<b.x, b.y>>
      BY <2>2, <2>4, <3>2 DEF Goto
    <3>6. Placed(c)'
      BY <2>1, <3>4, <3>5 DEF Placed, Looking
    <3> QED BY <2>1, <2>2, <2>4, <3>6, OthersPlaced DEF Goto
  <2> QED BY <2>3, <2>4
<1>7. ASSUME NEW c \in Callers, CropView(c) PROVE InPlace'
  <2>1. PICK region \in Regions :
           LET cropped == Crop(view[c][1], region) IN
           IF cropped = None THEN Refuse(c, "ValueError") /\ UNCHANGED <<view, corner>>
           ELSE /\ view' = [view EXCEPT ![c] = cropped]
                /\ corner' = [corner EXCEPT ![c] = <<@[1] + region.x, @[2] + region.y>>]
                /\ Goto(c, "cropped")
                /\ UNCHANGED outcome
    BY <1>7 DEF CropView
  <2>2. region \in Rects /\ ShowsFrom(view[c][1], shot[c], corner[c][1], corner[c][2])
    BY <1>7, FramesAssumption DEF CropView, Placed, Looking
  <2>3. CASE Crop(view[c][1], region) = None
    <3>1. at'[c] = "idle"
      BY <2>1, <2>3 DEF Refuse, Goto
    <3> QED BY <1>7, <2>1, <2>3, <3>1, OthersPlaced DEF CropView, Refuse, Goto, Placed, Looking
  <2>4. CASE Crop(view[c][1], region) # None
    <3>1. /\ at'[c] = "cropped" /\ view'[c] = Crop(view[c][1], region) /\ shot' = shot
          /\ corner'[c] = <<corner[c][1] + region.x, corner[c][2] + region.y>>
      BY <1>7, <2>1, <2>4 DEF Goto, CropView
    <3>2. Placed(c)'
      BY <2>2, <2>4, <3>1, CropShown DEF Placed, Looking, None
    <3> QED BY <1>7, <2>1, <2>4, <3>2, OthersPlaced DEF CropView, Goto
  <2> QED BY <2>3, <2>4
<1>8. ASSUME NEW c \in Callers, MaterializeView(c) PROVE InPlace'
  <2>1. at'[c] = "extracted" /\ view'[c] = <<Materialize(view[c][1])>> /\ UNCHANGED <<shot, corner>>
    BY <1>8 DEF MaterializeView, Goto
  <2>2. ShowsFrom(view[c][1], shot[c], corner[c][1], corner[c][2])
    BY <1>8 DEF MaterializeView, Placed, Looking
  <2>3. Placed(c)'
    BY <2>1, <2>2, MaterializedShown DEF Placed, Looking
  <2> QED BY <1>8, <2>3, OthersPlaced DEF MaterializeView, Goto
<1>9. ASSUME NEW c \in Callers, MapRegion(c) PROVE InPlace'
  <2>1. at'[c] = "idle"
    BY <1>9 DEF MapRegion, Refuse, Goto
  <2> QED BY <1>9, <2>1, OthersPlaced DEF MapRegion, Refuse, Goto, Placed, Looking
<1> QED BY <1>1, <1>2, <1>3, <1>4, <1>5, <1>6, <1>7, <1>8, <1>9 DEF FramesNext

(* A pixel is where it was on the screen however often its image is cropped,  *)
(* extracted and copied, for any screen, any regions and any number of        *)
(* callers (models.py 205-288, extraction.py 94-131).                         *)
THEOREM ViewsStayInPlace == FramesSpec => []ViewsInPlace
<1>1. FramesInit => InPlace
  BY DEF FramesInit, InPlace, Placed, Looking
<1>2. InPlace /\ [FramesNext]_frameVars => InPlace'
  BY PlacesKept
<1>3. InPlace => ViewsInPlace
  <2> SUFFICES ASSUME InPlace, NEW c \in Callers, at[c] \in Looking
               PROVE  /\ \A y \in DOMAIN Pixels(view[c][1]), x \in DOMAIN Pixels(view[c][1])[1] :
                           Pixels(view[c][1])[y][x] = <<shot[c], corner[c][1] + x - 1, corner[c][2] + y - 1>>
                      /\ at[c] = "extracted" => IsMaterialized(view[c][1])
    BY DEF ViewsInPlace, Looking
  <2>1. ShowsFrom(view[c][1], shot[c], corner[c][1], corner[c][2])
    BY DEF InPlace, Placed
  <2>2. PICK width, height \in Nat \ {0} :
           Pixels(view[c][1]) = Part(shot[c], corner[c][1], corner[c][2], width, height)
    BY <2>1, PixelsShown
  <2>3. \A y \in 1..height, x \in 1..width :
           Pixels(view[c][1])[y][x] = <<shot[c], corner[c][1] + x - 1, corner[c][2] + y - 1>>
    BY <2>2 DEF Part, RowPart
  <2>4. DOMAIN Pixels(view[c][1]) = 1..height /\ DOMAIN Pixels(view[c][1])[1] = 1..width
    BY <2>2 DEF Part, RowPart
  <2> QED BY <2>3, <2>4 DEF InPlace, Placed
<1> QED BY <1>1, <1>2, <1>3, PTL DEF FramesSpec
------------------------------------------------------------------------------
(* Powers of one base multiply by adding their exponents.                     *)
LEMMA PowerSum ==
    ASSUME NEW base \in Nat \ {0}, NEW a \in Nat, NEW b \in Nat
    PROVE  Power(base, a + b) = Power(base, a) * Power(base, b)
<1> DEFINE S == {k \in Nat : Power(base, a + k) = Power(base, a) * Power(base, k)}
<1>1. 0 \in S
  <2>1. PICK p \in Nat : p = Power(base, a)
    BY PowerStep
  <2>2. a + 0 = a /\ p * 1 = p
    OBVIOUS
  <2> QED BY <2>1, <2>2, PowerStep
<1>2. ASSUME NEW k \in Nat, k \in S PROVE k + 1 \in S
  <2>1. PICK p \in Nat, q \in Nat : p = Power(base, a) /\ q = Power(base, k)
    BY PowerStep
  <2>2. Power(base, a + k) = p * q
    BY <1>2, <2>1
  <2>3. a + (k + 1) = (a + k) + 1 /\ a + k \in Nat /\ base * (p * q) = p * (base * q)
    OBVIOUS
  <2>4. Power(base, (a + k) + 1) = base * (p * q) /\ Power(base, k + 1) = base * q
    BY <2>1, <2>2, <2>3, PowerStep
  <2> QED BY <2>1, <2>3, <2>4
<1> HIDE DEF S
<1>3. b \in S
  BY <1>1, <1>2, InductionOverNat
<1> QED BY <1>3 DEF S

(* The units of the floats are numbers, and a whole number is not finer than  *)
(* they are.                                                                  *)
LEMMA FloatUnits ==
    /\ One \in Nat \ {0} /\ Significands \in Nat \ {0} /\ Significands <= One
<1>1. PICK p \in Nat \ {0}, q \in Nat \ {0} : p = Significands /\ q = Power(2, FractionBits - Precision)
  <2>1. 2 \in Nat \ {0} /\ Precision \in Nat /\ FractionBits - Precision \in Nat
    BY FloatsAssumption
  <2>2. \A a \in Nat : Power(2, a) \in Nat \ {0}
    BY <2>1, PowerStep
  <2> QED BY <2>1, <2>2 DEF Significands
<1>2. One = p * q
  <2>1. Precision + (FractionBits - Precision) = FractionBits
        /\ Precision \in Nat /\ FractionBits - Precision \in Nat /\ 2 \in Nat \ {0}
    BY FloatsAssumption
  <2> QED BY <1>1, <2>1, PowerSum DEF One, Significands
<1>3. p <= p * q /\ p * q \in Nat \ {0}
  OBVIOUS
<1> QED BY <1>1, <1>2, <1>3

(* The nearest integer is at most half a unit away.                           *)
LEMMA NearestEvenClose ==
    ASSUME NEW n \in Int, NEW d \in Nat \ {0}
    PROVE  /\ NearestEven(n, d) \in Int
           /\ -d <= 2 * (NearestEven(n, d) * d - n) /\ 2 * (NearestEven(n, d) * d - n) <= d
<1>1. PICK q \in Int, r \in 0..d - 1 : q = n \div d /\ r = n % d /\ n = q * d + r
  <2>1. n \div d \in Int /\ n % d \in 0..d - 1 /\ n = (n \div d) * d + (n % d)
    OBVIOUS
  <2> QED BY <2>1
<1>2. CASE 2 * r > d \/ (2 * r = d /\ q % 2 = 1)
  <2>1. NearestEven(n, d) = q + 1
    BY <1>1, <1>2 DEF NearestEven
  <2>2. (q + 1) * d = q * d + d /\ q * d \in Int
    OBVIOUS
  <2>3. 2 * ((q + 1) * d - n) = 2 * (d - r)
    BY <1>1, <2>2
  <2> QED BY <1>2, <2>1, <2>3
<1>3. CASE ~(2 * r > d \/ (2 * r = d /\ q % 2 = 1))
  <2>1. NearestEven(n, d) = q
    BY <1>1, <1>3 DEF NearestEven
  <2>2. q * d \in Int
    OBVIOUS
  <2>3. 2 * (q * d - n) = -(2 * r) /\ 2 * r <= d
    BY <1>1, <1>3, <2>2
  <2> QED BY <2>1, <2>3
<1> QED BY <1>2, <1>3

(* What makes a step the one of n / d.                                        *)
IsStep(step, n, d) ==
    /\ Magnitude(n) < d * (Significands * step)
    /\ \A finer \in Steps : finer < step => Magnitude(n) >= d * (Significands * finer)

(* There is one for every number that is not out of range, and it is no       *)
(* coarser than the number needs.                                             *)
LEMMA StepFound ==
    ASSUME NEW n \in Int, NEW d \in Nat \ {0}, Magnitude(n) < d * (Significands * One)
    PROVE  \E step, rest \in Nat \ {0} :
             /\ step = StepOf(n, d) /\ One = step * rest
             /\ Magnitude(n) < d * (Significands * step)
             /\ step = 1 \/ \E half \in Nat : step = 2 * half
                                              /\ Magnitude(n) >= d * (Significands * half)
<1> DEFINE Fits(e) == Magnitude(n) < d * (Significands * Power(2, e))
           T == {e \in 0..FractionBits : Fits(e)}
<1>1. FractionBits \in T /\ FractionBits \in Nat
  BY FloatsAssumption DEF One
<1>2. PICK e \in T : \A f \in T : e <= f
  <2>1. T \subseteq Nat /\ T # {}
    BY <1>1
  <2> HIDE DEF T
  <2> QED BY <2>1, LeastElement
<1>3. \A a \in Nat : Power(2, a) \in Nat \ {0} /\ Power(2, a + 1) = 2 * Power(2, a)
  <2>1. 2 \in Nat \ {0}
    OBVIOUS
  <2> QED BY <2>1, PowerStep
<1>4. e \in 0..FractionBits /\ Fits(e) /\ \A f \in 0..FractionBits : f < e => ~Fits(f)
  BY <1>1, <1>2
<1>5. Magnitude(n) \in Nat
  BY DEF Magnitude
<1>6. \A f \in 0..FractionBits : d * (Significands * Power(2, f)) \in Nat
  <2>1. \A a, b, c \in Nat : a * (b * c) \in Nat
    OBVIOUS
  <2> QED BY <1>1, <1>3, <2>1, FloatUnits
<1>7. \A f, g \in 0..FractionBits : f >= g => Power(2, f) >= Power(2, g)
  <2> SUFFICES ASSUME NEW f \in 0..FractionBits, NEW g \in 0..FractionBits, f >= g
               PROVE  Power(2, f) >= Power(2, g)
    OBVIOUS
  <2>1. f - g \in Nat /\ g + (f - g) = f /\ g \in Nat
    BY <1>1
  <2>2. PICK p \in Nat \ {0}, q \in Nat \ {0} : p = Power(2, g) /\ q = Power(2, f - g)
    BY <1>3, <2>1
  <2>3. Power(2, f) = p * q
    BY <2>1, <2>2, PowerSum
  <2>4. p * q >= p
    OBVIOUS
  <2> QED BY <2>2, <2>3, <2>4
<1>8. IsStep(Power(2, e), n, d) /\ Power(2, e) \in Steps
  <2>1. ASSUME NEW finer \in Steps, finer < Power(2, e)
        PROVE  Magnitude(n) >= d * (Significands * finer)
    <3>1. PICK f \in 0..FractionBits : finer = Power(2, f)
      BY DEF Steps
    <3>2. ~(f >= e)
      BY <1>1, <1>3, <1>4, <1>7, <2>1, <3>1
    <3>3. ~Fits(f)
      BY <1>1, <1>4, <3>2
    <3> QED BY <1>5, <1>6, <3>1, <3>3
  <2> QED BY <1>4, <2>1 DEF IsStep, Steps
<1>9. StepOf(n, d) \in Steps /\ IsStep(StepOf(n, d), n, d)
  <2>1. StepOf(n, d) = CHOOSE step \in Steps : IsStep(step, n, d)
    BY DEF StepOf, IsStep
  <2> QED BY <1>8, <2>1
<1>10. PICK h \in 0..FractionBits : StepOf(n, d) = Power(2, h)
  BY <1>9 DEF Steps
<1>11. PICK rest \in Nat \ {0} : One = Power(2, h) * rest
  <2>1. FractionBits - h \in Nat /\ h \in Nat /\ h + (FractionBits - h) = FractionBits
    BY <1>1
  <2>2. Power(2, FractionBits) = Power(2, h) * Power(2, FractionBits - h)
    BY <2>1, PowerSum
  <2> QED BY <1>3, <2>1, <2>2 DEF One
<1>12. Power(2, h) = 1 \/ \E half \in Nat : /\ Power(2, h) = 2 * half
                                           /\ Magnitude(n) >= d * (Significands * half)
  <2>1. CASE h = 0
    BY <2>1, PowerStep
  <2>2. CASE h # 0
    <3>1. h - 1 \in 0..FractionBits /\ (h - 1) + 1 = h /\ h - 1 \in Nat
      BY <1>1, <2>2
    <3>2. PICK half \in Nat \ {0} : half = Power(2, h - 1) /\ Power(2, h) = 2 * half
      BY <1>3, <3>1
    <3>3. half \in Steps /\ half < Power(2, h)
      BY <3>1, <3>2 DEF Steps
    <3> QED BY <1>9, <1>10, <3>2, <3>3 DEF IsStep
  <2> QED BY <2>1, <2>2
<1>13. Power(2, h) \in Nat \ {0}
  BY <1>1, <1>3
<1> HIDE DEF T, Fits
<1> QED BY <1>9, <1>10, <1>11, <1>12, <1>13 DEF IsStep

(* A rounded number is off by half of its last bit at most: half a unit, or a *)
(* part in 2 * Significands of it.                                            *)
LEMMA RoundedClose ==
    ASSUME NEW n \in Int, NEW d \in Nat \ {0}, Magnitude(n) < d * (Significands * One)
    PROVE  /\ Rounded(n, d) \in Int
           /\ -(2 * Magnitude(n) + Significands * d) <= 2 * Significands * (Rounded(n, d) * d - n)
           /\ 2 * Significands * (Rounded(n, d) * d - n) <= 2 * Magnitude(n) + Significands * d
<1>1. PICK step, rest \in Nat \ {0} :
         /\ step = StepOf(n, d)
         /\ step = 1 \/ \E half \in Nat : step = 2 * half /\ Magnitude(n) >= d * (Significands * half)
  BY StepFound
<1>2. PICK q \in Nat \ {0}, m \in Nat : q = Significands /\ m = Magnitude(n)
  BY FloatUnits DEF Magnitude
<1>3. d * step \in Nat \ {0}
  OBVIOUS
<1>4. PICK near \in Int : /\ near = NearestEven(n, d * step)
                          /\ -(d * step) <= 2 * (near * (d * step) - n)
                          /\ 2 * (near * (d * step) - n) <= d * step
  BY <1>3, NearestEvenClose
<1>5. Rounded(n, d) = near * step
  BY <1>1, <1>4 DEF Rounded
<1>6. PICK off \in Int : off = (near * step) * d - n /\ off = near * (d * step) - n
  OBVIOUS
<1>7. CASE step = 1
  <2>1. -d <= 2 * off /\ 2 * off <= d
    BY <1>4, <1>6, <1>7
  <2>2. -(q * d) <= 2 * q * off /\ 2 * q * off <= q * d
    BY <2>1
  <2>3. q * d \in Nat /\ 2 * q * off \in Int
    OBVIOUS
  <2> QED BY <1>2, <1>5, <1>6, <2>2, <2>3
<1>8. ASSUME NEW half \in Nat, step = 2 * half, m >= d * (q * half)
      PROVE  -(2 * m + q * d) <= 2 * q * off /\ 2 * q * off <= 2 * m + q * d
  <2>1. d * step = 2 * (d * half) /\ d * half \in Nat
    BY <1>8
  <2>2. -(d * half) <= off /\ off <= d * half
    BY <1>4, <1>6, <2>1
  <2>3. -(q * (d * half)) <= q * off /\ q * off <= q * (d * half)
    BY <2>2
  <2>4. q * (d * half) = d * (q * half) /\ d * (q * half) \in Nat /\ q * off \in Int /\ q * d \in Nat
    OBVIOUS
  <2>5. -m <= q * off /\ q * off <= m
    BY <1>8, <2>3, <2>4
  <2>6. 2 * q * off = 2 * (q * off)
    OBVIOUS
  <2> QED BY <2>4, <2>5, <2>6
<1>9. near * step \in Int
  OBVIOUS
<1> QED BY <1>1, <1>2, <1>5, <1>6, <1>7, <1>8, <1>9

(* A multiple is its own nearest one.                                         *)
LEMMA NearestEvenExact ==
    ASSUME NEW k \in Int, NEW d \in Nat \ {0}
    PROVE  NearestEven(k * d, d) = k
<1>1. PICK near \in Int : /\ near = NearestEven(k * d, d)
                          /\ -d <= 2 * (near * d - k * d) /\ 2 * (near * d - k * d) <= d
  <2>1. k * d \in Int
    OBVIOUS
  <2> QED BY <2>1, NearestEvenClose
<1>2. near * d - k * d = (near - k) * d /\ near - k \in Int
  OBVIOUS
<1>3. PICK e \in Int : e = near - k /\ -d <= 2 * (e * d) /\ 2 * (e * d) <= d
  BY <1>1, <1>2
<1>4. ~(e >= 1)
  <2>1. e >= 1 => e * d >= d
    OBVIOUS
  <2> QED BY <1>3, <2>1
<1>5. ~(e <= -1)
  <2>1. e <= -1 => e * d <= -d
    OBVIOUS
  <2> QED BY <1>3, <2>1
<1>6. e = 0
  BY <1>4, <1>5
<1>7. near = k
  BY <1>3, <1>6
<1> QED BY <1>1, <1>7, Zenon

(* An integer of no more bits than a float has is a float.                    *)
LEMMA FloatOfExact ==
    ASSUME NEW k \in Int, Magnitude(k) < Significands
    PROVE  FloatOf(k) = k * One
<1>1. PICK one \in Nat \ {0}, q \in Nat \ {0} : one = One /\ q = Significands
  BY FloatUnits
<1>2. k * one \in Int /\ Magnitude(k * one) < 1 * (q * one)
  <2>1. CASE k >= 0
    <3>1. k * one >= 0 /\ k < q
      BY <1>1, <2>1 DEF Magnitude
    <3>2. k * one < q * one
      BY <3>1
    <3> QED BY <3>1, <3>2 DEF Magnitude
  <2>2. CASE k < 0
    <3>1. k * one < 0 /\ -k < q /\ -(k * one) = (-k) * one
      BY <1>1, <2>2 DEF Magnitude
    <3>2. (-k) * one < q * one
      BY <3>1
    <3> QED BY <3>1, <3>2 DEF Magnitude
  <2> QED BY <2>1, <2>2
<1>3. PICK step, rest \in Nat \ {0} : step = StepOf(k * one, 1) /\ one = step * rest
  <2>1. PICK d \in Nat \ {0} : d = 1
    OBVIOUS
  <2>2. PICK n \in Int : n = k * one /\ Magnitude(n) < 1 * (q * one)
    BY <1>2
  <2>3. Magnitude(n) < d * (Significands * One)
    BY <1>1, <2>1, <2>2
  <2>4. PICK step, rest \in Nat \ {0} :
           /\ step = StepOf(n, d) /\ One = step * rest
           /\ Magnitude(n) < d * (Significands * step)
           /\ step = 1 \/ \E half \in Nat : step = 2 * half
                                            /\ Magnitude(n) >= d * (Significands * half)
    BY <2>3, StepFound, Zenon
  <2> QED BY <1>1, <2>1, <2>2, <2>4
<1>4. k * one = (k * rest) * (1 * step) /\ k * rest \in Int /\ 1 * step = step
  BY <1>3
<1>5. NearestEven(k * one, 1 * step) = k * rest
  BY <1>4, NearestEvenExact
<1>6. Rounded(k * one, 1) = (k * rest) * step
  BY <1>3, <1>5 DEF Rounded
<1> QED BY <1>1, <1>4, <1>6 DEF FloatOf

(* x is no further from 0 than b. Errors are bounded so, scaled by what keeps *)
(* them integers.                                                             *)
Within(x, b) == -b <= x /\ x <= b

(* Bounds of a sum and of a difference,                                       *)
LEMMA WithinSum ==
    ASSUME NEW x \in Int, NEW a \in Int, NEW y \in Int, NEW b \in Int, Within(x, a), Within(y, b)
    PROVE  Within(x + y, a + b) /\ Within(x - y, a + b)
BY DEF Within

(* of a multiple,                                                             *)
LEMMA WithinTimes ==
    ASSUME NEW x \in Int, NEW a \in Int, NEW k \in Nat, Within(x, a)
    PROVE  Within(k * x, k * a)
<1>1. k * x <= k * a /\ k * (-a) <= k * x /\ k * (-a) = -(k * a) /\ k * x \in Int /\ k * a \in Int
  BY DEF Within
<1> QED BY <1>1 DEF Within

(* of what was multiplied,                                                    *)
LEMMA WithinCancel ==
    ASSUME NEW x \in Int, NEW a \in Int, NEW k \in Nat \ {0}, Within(k * x, k * a)
    PROVE  Within(x, a)
<1>1. k * x \in Int /\ k * a \in Int
  OBVIOUS
<1>2. x <= a
  <2>1. x >= a + 1 => k * x >= k * (a + 1)
    OBVIOUS
  <2>2. k * (a + 1) = k * a + k
    OBVIOUS
  <2> QED BY <1>1, <2>1, <2>2 DEF Within
<1>3. -a <= x
  <2>1. x + 1 <= -a => k * (x + 1) <= k * (-a)
    OBVIOUS
  <2>2. k * (x + 1) = k * x + k /\ k * (-a) = -(k * a)
    OBVIOUS
  <2> QED BY <1>1, <2>1, <2>2 DEF Within
<1> QED BY <1>2, <1>3 DEF Within

(* of a product, and by anything larger.                                      *)
LEMMA WithinProduct ==
    ASSUME NEW x \in Int, NEW a \in Nat, NEW y \in Int, NEW b \in Nat, Within(x, a), Within(y, b)
    PROVE  Within(x * y, a * b)
<1>1. CASE x >= 0
  <2>1. Within(x * y, x * b)
    BY <1>1, WithinTimes
  <2>2. x * b <= a * b /\ x * y \in Int /\ x * b \in Int /\ a * b \in Int
    BY <1>1 DEF Within
  <2> QED BY <2>1, <2>2 DEF Within
<1>2. CASE x < 0
  <2>1. PICK k \in Nat : k = -x /\ k <= a
    BY <1>2 DEF Within
  <2>2. Within(k * y, k * b)
    BY WithinTimes
  <2>3. k * b <= a * b /\ k * b \in Int /\ a * b \in Int /\ k * y \in Int
    BY <2>1
  <2>4. k * y = -(x * y) /\ x * y \in Int
    BY <2>1
  <2> QED BY <2>2, <2>3, <2>4 DEF Within
<1> QED BY <1>1, <1>2

(* A larger bound is one too.                                                 *)
LEMMA WithinLess ==
    ASSUME NEW x \in Int, NEW a \in Int, NEW b \in Int, Within(x, a), a <= b
    PROVE  Within(x, b)
BY DEF Within

(* The rounding error of a quotient of a number bounded by y.                 *)
LEMMA RoundedWithin ==
    ASSUME NEW n \in Int, NEW d \in Nat \ {0}, NEW y \in Nat, Within(n, y), y < d * (Significands * One)
    PROVE  /\ Rounded(n, d) \in Int
           /\ Within(2 * Significands * (Rounded(n, d) * d - n), 2 * y + Significands * d)
<1>1. Magnitude(n) \in Nat /\ Magnitude(n) <= y
  BY DEF Magnitude, Within
<1>2. PICK q \in Nat \ {0}, one \in Nat \ {0} : q = Significands /\ one = One
  BY FloatUnits
<1>3. d * (q * one) \in Nat /\ q * d \in Nat
  OBVIOUS
<1>4. Magnitude(n) < d * (Significands * One)
  BY <1>1, <1>2, <1>3
<1>5. PICK r \in Int : /\ r = Rounded(n, d)
                       /\ -(2 * Magnitude(n) + q * d) <= 2 * q * (r * d - n)
                       /\ 2 * q * (r * d - n) <= 2 * Magnitude(n) + q * d
  BY <1>2, <1>4, RoundedClose
<1>6. 2 * q * (r * d - n) \in Int
  OBVIOUS
<1>7. Within(2 * q * (r * d - n), 2 * y + q * d)
  BY <1>1, <1>3, <1>5, <1>6 DEF Within
<1> QED BY <1>2, <1>5, <1>7

(* That of Times, for an integer and a float.                                 *)
LEMMA TimesWithin ==
    ASSUME NEW i \in Int, NEW s \in Int, NEW z \in Nat, Within(i * s, z), z < Significands * One
    PROVE  /\ Times(i * One, s) \in Int
           /\ Within(2 * Significands * (Times(i * One, s) - i * s), 2 * z + Significands)
<1>1. PICK q \in Nat \ {0}, one \in Nat \ {0} : q = Significands /\ one = One
  BY FloatUnits
<1>2. PICK p \in Int : p = i * s
  OBVIOUS
<1>3. (i * one) * s = one * p /\ one * p \in Int /\ one * z \in Nat
  BY <1>2
<1>4. Within(one * p, one * z)
  <2>1. Within(p, z) /\ one \in Nat
    BY <1>2
  <2> QED BY <2>1, WithinTimes
<1>5. one * z < one * (q * one)
  <2>1. PICK u \in Nat : u = q * one
    OBVIOUS
  <2>2. z < u
    BY <1>1, <2>1
  <2>3. one * z < one * u
    BY <2>2
  <2> QED BY <2>1, <2>3
<1>6. PICK r \in Int : r = Rounded(one * p, one)
                       /\ Within(2 * q * (r * one - one * p), 2 * (one * z) + q * one)
  <2>1. one * z < one * (Significands * One)
    BY <1>1, <1>5
  <2> QED BY <1>1, <1>3, <1>4, <2>1, RoundedWithin
<1>7. 2 * q * (r * one - one * p) = one * (2 * q * (r - p)) /\ 2 * (one * z) + q * one = one * (2 * z + q)
      /\ 2 * q * (r - p) \in Int /\ 2 * z + q \in Int
  OBVIOUS
<1>8. Within(2 * q * (r - p), 2 * z + q)
  BY <1>6, <1>7, WithinCancel
<1>9. Times(i * One, s) = r
  BY <1>1, <1>3, <1>6 DEF Times
<1> QED BY <1>1, <1>2, <1>8, <1>9

(* That of Plus and of Minus.                                                 *)
LEMMA PlusWithin ==
    ASSUME NEW n \in Int, NEW y \in Nat, Within(n, y), y < Significands * One
    PROVE  /\ Rounded(n, 1) \in Int
           /\ Within(2 * Significands * (Rounded(n, 1) - n), 2 * y + Significands)
<1>1. PICK q \in Nat \ {0}, one \in Nat \ {0} : q = Significands /\ one = One
  BY FloatUnits
<1>2. PICK d \in Nat \ {0} : d = 1
  OBVIOUS
<1>3. y < d * (Significands * One)
  <2>1. q * one \in Nat /\ y < q * one
    BY <1>1
  <2>2. y < d * (q * one)
    BY <1>2, <2>1
  <2> QED BY <1>1, <2>2
<1>4. PICK r \in Int : r = Rounded(n, d) /\ Within(2 * q * (r * d - n), 2 * y + q * d)
  BY <1>1, <1>3, RoundedWithin
<1>5. r * d = r /\ q * d = q
  BY <1>2
<1> QED BY <1>1, <1>2, <1>4, <1>5

(* Room: a number of units, a coordinate and a product are far below what the *)
(* significant bits can hold.                                                 *)
Room(D, Q, G, tolerance) ==
    Q <= D /\ G * (16 * D + 5 * Q) <= 2 * tolerance * Q /\ 2 * tolerance * G < D

(* The inequalities between units that the steps below need.                  *)
LEMMA RoomBounds ==
    ASSUME NEW D \in Nat \ {0}, NEW Q \in Nat \ {0}, NEW G \in Nat \ {0}, NEW T \in Nat, Room(D, Q, G, T)
    PROVE  /\ G < Q /\ 17 <= D
           /\ 16 * (G * D) + D <= Q * D /\ 16 * (Q * G) <= Q * D /\ 17 * Q <= Q * D
           /\ D <= G * D /\ Q <= Q * G
           /\ G * (16 * D) + 5 * (Q * G) <= 2 * T * Q
<1>1. 16 * (G * G) < Q
  <2>1. G * (16 * D + 5 * Q) = 16 * (G * D) + 5 * (G * Q)
    OBVIOUS
  <2>2. 16 * (G * D) <= 2 * T * Q
    BY <2>1 DEF Room
  <2>3. G * (16 * (G * D)) <= G * (2 * T * Q)
    <3>1. 16 * (G * D) \in Nat /\ 2 * T * Q \in Nat
      OBVIOUS
    <3> QED BY <2>2, <3>1
  <2>4. G * (2 * T * Q) = Q * (2 * T * G) /\ G * (16 * (G * D)) = D * (16 * (G * G))
    OBVIOUS
  <2>5. Q * (2 * T * G) < Q * D
    <3>1. 2 * T * G \in Nat
      OBVIOUS
    <3> QED BY <3>1 DEF Room
  <2>6. D * (16 * (G * G)) < D * Q
    BY <2>3, <2>4, <2>5
  <2>7. ~(Q <= 16 * (G * G))
    <3>1. PICK g \in Nat : g = 16 * (G * G)
      OBVIOUS
    <3>2. Q <= g => D * Q <= D * g
      OBVIOUS
    <3>3. D * Q \in Nat /\ D * g \in Nat
      OBVIOUS
    <3> QED BY <2>6, <3>1, <3>2, <3>3
  <2>8. 16 * (G * G) \in Nat
    OBVIOUS
  <2> QED BY <2>7, <2>8
<1>2. G <= G * G /\ G * G \in Nat
  OBVIOUS
<1>3. 16 * G + 1 <= Q
  BY <1>1, <1>2
<1>4. D * (16 * G + 1) <= D * Q /\ D * (16 * G + 1) = 16 * (G * D) + D /\ D * Q = Q * D
  BY <1>3
<1>5. Q * (16 * G) <= Q * D /\ Q * (16 * G) = 16 * (Q * G)
  <2>1. 16 * G <= D
    BY <1>3 DEF Room
  <2> QED BY <2>1
<1>6. 17 <= D
  BY <1>3 DEF Room
<1>7. Q * 17 <= Q * D
  BY <1>6
<1>8. D <= G * D /\ Q <= Q * G
  OBVIOUS
<1>9. G * (16 * D + 5 * Q) = G * (16 * D) + 5 * (Q * G)
  OBVIOUS
<1> QED BY <1>3, <1>4, <1>5, <1>6, <1>7, <1>8, <1>9 DEF Room

(* A coordinate, magnified.                                                   *)
LEMMA MagnifiedWithin ==
    ASSUME NEW D \in Nat \ {0}, NEW Q \in Nat \ {0}, NEW G \in Nat \ {0}, NEW T \in Nat, Room(D, Q, G, T),
           NEW W \in 1..G, NEW V \in 1..G, NEW s \in Int, NEW x \in Int,
           Within(2 * Q * (s * W - V * D), 2 * (V * D) + Q * W), Within(x, G), Within(x * V, G * W)
    PROVE  \E z \in Nat : Within(x * s, z) /\ 8 * z <= 8 * (G * D) + D
<1>1. /\ 16 * (G * D) + D <= Q * D /\ 16 * (Q * G) <= Q * D
      /\ D \in Int /\ G * D \in Int /\ Q * D \in Int /\ Q * G \in Int
  BY RoomBounds
<1>2. PICK y \in Nat : Within(x, y) /\ (y = x \/ y = -x)
  <2>1. CASE x >= 0
    BY <2>1 DEF Within
  <2>2. CASE x < 0
    BY <2>2 DEF Within
  <2> QED BY <2>1, <2>2
<1>3. y <= G /\ y * V <= G * W
  <2>1. y * V = x * V \/ y * V = -(x * V)
    BY <1>2
  <2>2. x * V \in Int /\ G * W \in Int
    OBVIOUS
  <2> QED BY <1>2, <2>1, <2>2 DEF Within
<1> DEFINE E == 2 * (V * D) + Q * W
           e == 2 * Q * (s * W - V * D)
<1>4. e \in Int /\ E \in Nat /\ Within(e, E)
  OBVIOUS
<1>5. Within(x * e, y * E)
  <2> HIDE DEF e, E
  <2> QED BY <1>2, <1>4, WithinProduct
<1>6. Within(2 * Q * (x * V * D), 2 * Q * (G * W * D))
  <2>1. PICK p \in Int, q \in Int : p = x * V /\ q = G * W /\ Within(p, q)
    <3>1. x * V \in Int /\ G * W \in Int
      OBVIOUS
    <3> QED BY <3>1
  <2>2. PICK k \in Nat : k = 2 * Q * D
    OBVIOUS
  <2>3. Within(k * p, k * q)
    BY <2>1, <2>2, WithinTimes
  <2>4. k * p = 2 * Q * (x * V * D) /\ k * q = 2 * Q * (G * W * D)
    BY <2>1, <2>2
  <2> QED BY <2>3, <2>4
<1>7. y * E <= 2 * (G * W * D) + Q * G * W
  <2>1. y * E = 2 * D * (y * V) + y * (Q * W)
    OBVIOUS
  <2>2. 2 * D * (y * V) <= 2 * D * (G * W)
    <3>1. PICK a \in Int, b \in Int, k \in Nat : a = y * V /\ b = G * W /\ k = 2 * D
      OBVIOUS
    <3>2. k * a <= k * b
      BY <1>3, <3>1
    <3> QED BY <3>1, <3>2
  <2>3. y * (Q * W) <= G * (Q * W)
    <3>1. PICK k \in Nat : k = Q * W
      OBVIOUS
    <3> QED BY <1>3, <3>1
  <2>4. 2 * D * (G * W) = 2 * (G * W * D) /\ G * (Q * W) = Q * G * W
        /\ 2 * D * (y * V) \in Int /\ y * (Q * W) \in Int /\ 2 * (G * W * D) \in Int /\ Q * G * W \in Int
    OBVIOUS
  <2> QED BY <2>1, <2>2, <2>3, <2>4
<1>8. Within(W * (2 * Q * (x * s)), W * (2 * Q * (G * D) + 2 * (G * D) + Q * G))
  <2>1. W * (2 * Q * (x * s)) = 2 * Q * (x * V * D) + x * e
    OBVIOUS
  <2>2. Within(x * e, 2 * (G * W * D) + Q * G * W)
    <3>1. x * e \in Int /\ y * E \in Int /\ 2 * (G * W * D) + Q * G * W \in Int
      OBVIOUS
    <3> QED BY <1>5, <1>7, <3>1, WithinLess
  <2>3. PICK a \in Int, b \in Int, c \in Int, d \in Int :
           /\ a = 2 * Q * (x * V * D) /\ b = 2 * Q * (G * W * D) /\ c = x * e
           /\ d = 2 * (G * W * D) + Q * G * W
    OBVIOUS
  <2>4. Within(a + c, b + d)
    BY <1>6, <2>2, <2>3, WithinSum
  <2>5. b + d = W * (2 * Q * (G * D) + 2 * (G * D) + Q * G)
    BY <2>3
  <2> QED BY <2>1, <2>3, <2>4, <2>5
<1>9. Within(2 * Q * (x * s), 2 * Q * (G * D) + 2 * (G * D) + Q * G)
  <2>1. W \in Nat \ {0} /\ 2 * Q * (x * s) \in Int /\ 2 * Q * (G * D) + 2 * (G * D) + Q * G \in Int
    OBVIOUS
  <2> QED BY <1>8, <2>1, WithinCancel
<1>10. PICK p \in Int, z \in Nat : p = x * s /\ Within(p, z) /\ (z = p \/ z = -p)
  <2>1. PICK p \in Int : p = x * s
    OBVIOUS
  <2>2. CASE p >= 0
    BY <2>1, <2>2 DEF Within
  <2>3. CASE p < 0
    BY <2>1, <2>3 DEF Within
  <2> QED BY <2>1, <2>2, <2>3
<1>11. 2 * Q * z <= 2 * Q * (G * D) + 2 * (G * D) + Q * G
  <2>1. 2 * Q * z = 2 * Q * p \/ 2 * Q * z = -(2 * Q * p)
    BY <1>10
  <2>2. 2 * Q * p \in Int /\ 2 * Q * (G * D) + 2 * (G * D) + Q * G \in Int
    OBVIOUS
  <2> QED BY <1>9, <1>10, <2>1, <2>2 DEF Within
<1>12. 8 * z <= 8 * (G * D) + D
  <2>1. PICK h \in Nat : h = G * D
    OBVIOUS
  <2>2. 2 * Q * (8 * z) = 8 * (2 * Q * z) /\ 2 * Q * (8 * h + D) = 16 * (Q * h) + 2 * (Q * D)
        /\ 2 * Q * h = 2 * (Q * h) /\ Q * h \in Nat /\ 2 * Q * z \in Nat
    OBVIOUS
  <2>3. 2 * Q * (8 * z) <= 2 * Q * (8 * h + D)
    BY <1>1, <1>11, <2>1, <2>2
  <2>4. PICK k \in Nat \ {0} : k = 2 * Q
    OBVIOUS
  <2>5. PICK l \in Nat, r \in Nat : l = 8 * z /\ r = 8 * h + D /\ k * l <= k * r
    BY <2>3, <2>4
  <2>6. l <= r
    <3>1. l >= r + 1 => k * l >= k * (r + 1)
      OBVIOUS
    <3>2. k * (r + 1) = k * r + k /\ k * r \in Nat /\ k * l \in Nat
      OBVIOUS
    <3> QED BY <2>5, <3>1, <3>2
  <2> QED BY <2>1, <2>5, <2>6
<1> QED BY <1>10, <1>12

(* What the error of one rounding comes to.                                   *)
LEMMA ErrorWithin ==
    ASSUME NEW Q \in Nat \ {0}, NEW D \in Nat \ {0}, NEW h \in Nat, 16 * h + D <= Q * D, 17 * Q <= Q * D,
           D <= h, NEW e \in Int, NEW y \in Nat, NEW j \in {1, 2}, 8 * y <= j * (8 * h + D),
           Within(2 * Q * e, 2 * y + Q)
    PROVE  Within(8 * e, j * D)
<1>1. 8 * (2 * y + Q) <= 2 * Q * (j * D)
  <2>1. PICK p \in Nat : p = Q * D
    OBVIOUS
  <2>2. 2 * Q * (j * D) = j * (2 * p)
    BY <2>1
  <2>3. CASE j = 1
    BY <2>1, <2>2, <2>3
  <2>4. CASE j = 2
    BY <2>1, <2>2, <2>4
  <2> QED BY <2>3, <2>4
<1>2. PICK k \in Nat \ {0} : k = 2 * Q
  OBVIOUS
<1>3. Within(8 * (k * e), 8 * (2 * y + Q))
  <2>1. PICK a \in Int, b \in Int : a = k * e /\ b = 2 * y + Q /\ Within(a, b)
    <3>1. k * e \in Int /\ k * e = 2 * Q * e
      BY <1>2
    <3> QED BY <3>1
  <2>2. Within(8 * a, 8 * b)
    BY <2>1, WithinTimes
  <2> QED BY <2>1, <2>2
<1>4. Within(k * (8 * e), k * (j * D))
  <2>1. 8 * (k * e) = k * (8 * e) /\ k * (8 * e) \in Int /\ 2 * Q * (j * D) = k * (j * D) /\ k * (j * D) \in Int
    BY <1>2
  <2> QED BY <1>1, <1>3, <2>1 DEF Within
<1>5. PICK a \in Int, b \in Int : a = 8 * e /\ b = j * D /\ Within(k * a, k * b)
  BY <1>4
<1>6. Within(a, b)
  BY <1>5, WithinCancel
<1> QED BY <1>5, <1>6

(* A coordinate v of the source, its image c and what was computed on the way.*)
LEMMA ChainWithin ==
    ASSUME NEW D \in Nat \ {0}, NEW Q \in Nat \ {0}, NEW G \in Nat \ {0}, NEW T \in Nat, Room(D, Q, G, T),
           NEW W \in 1..G, NEW V \in 1..G, NEW f \in Int, NEW t \in Int, NEW v \in Int,
           f <= v, v <= f + W, -G <= t, t + V <= G,
           NEW s \in Int, Within(2 * Q * (s * W - V * D), 2 * (V * D) + Q * W),
           NEW zf \in Nat, 8 * zf <= 8 * (G * D) + D,
           NEW zv \in Nat, 8 * zv <= 8 * (G * D) + D,
           NEW e1 \in Int, Within(2 * Q * e1, 2 * zf + Q),
           NEW y2 \in Nat, 8 * y2 <= 16 * (G * D) + 2 * D,
           NEW e2 \in Int, Within(2 * Q * e2, 2 * y2 + Q),
           NEW e3 \in Int, Within(2 * Q * e3, 2 * zv + Q)
    PROVE  /\ Within(8 * (t * D + (v - f) * s + (e3 - e1 + e2)), 8 * (G * D) + 5 * D)
           /\ \A y4 \in Nat, e4 \in Int :
                8 * y4 <= 8 * (G * D) + 5 * D /\ Within(2 * Q * e4, 2 * y4 + Q) =>
                    Within((t * D + (v - f) * s + (e3 - e1 + e2) + e4) * W
                               - (t * W + (v - f) * V) * D, T * W)
<1>1. /\ 16 * (G * D) + D <= Q * D /\ 16 * (Q * G) <= Q * D /\ 17 * Q <= Q * D /\ D <= G * D
      /\ Q <= Q * G /\ G * (16 * D) + 5 * (Q * G) <= 2 * T * Q /\ 17 <= D
  BY RoomBounds
<1>2. PICK h \in Nat, p \in Nat, r \in Nat : h = G * D /\ p = Q * D /\ r = Q * G
  OBVIOUS
<1>3. PICK g \in 0..W : g = v - f
  OBVIOUS
<1>4. PICK E \in Nat, e0 \in Int : E = 2 * (V * D) + Q * W /\ e0 = s * W - V * D
  OBVIOUS
<1>5. /\ V * D \in Nat /\ V * D <= h /\ Q * W \in Nat /\ Q * W <= r /\ D <= V * D /\ Q <= Q * W
  BY <1>2
<1>6. 0 <= s * W /\ 8 * (s * W) <= 8 * (V * D) + D
  <2>1. PICK a \in Nat, b \in Int : a = V * D /\ b = s * W
    OBVIOUS
  <2>2. Within(2 * Q * (b - a), E)
    BY <1>4, <2>1
  <2>3. 2 * Q * (b - a) = 2 * (Q * b) - 2 * (Q * a) /\ Q * b \in Int /\ Q * a \in Int
    BY <2>1
  <2>4. 2 * (Q * b) >= 2 * (Q * a) - E /\ 2 * (Q * b) <= 2 * (Q * a) + E
    BY <2>2, <2>3 DEF Within
  <2>5. 8 * E <= 2 * p
    BY <1>1, <1>2, <1>4, <1>5, <2>1
  <2>6. p <= Q * a
    <3>1. Q * D <= Q * a
      BY <1>5, <2>1
    <3> QED BY <1>2, <3>1
  <2>7. Q * b >= 0
    BY <1>2, <2>3, <2>4, <2>5, <2>6
  <2>8. b >= 0
    <3>1. b <= -1 => Q * b <= -Q
      OBVIOUS
    <3> QED BY <2>1, <2>7, <3>1
  <2>9. Q * (8 * b) <= Q * (8 * a + D)
    <3>1. Q * (8 * b) = 8 * (Q * b) /\ Q * (8 * a + D) = 8 * (Q * a) + p
      BY <1>2
    <3> QED BY <1>2, <2>3, <2>4, <2>5, <3>1
  <2>10. 8 * b <= 8 * a + D
    <3>1. PICK l \in Int, m \in Int : l = 8 * b /\ m = 8 * a + D /\ Q * l <= Q * m
      BY <2>9
    <3>2. l >= m + 1 => Q * l >= Q * (m + 1)
      OBVIOUS
    <3>3. Q * (m + 1) = Q * m + Q /\ Q * l \in Int /\ Q * m \in Int
      OBVIOUS
    <3> QED BY <3>1, <3>2, <3>3
  <2> QED BY <2>1, <2>8, <2>10
<1>7. 0 <= g * s /\ 8 * (g * s) <= 8 * (V * D) + D
  <2>1. s >= 0
    <3>1. s <= -1 => s * W <= -W
      OBVIOUS
    <3> QED BY <1>6, <3>1
  <2>2. 0 <= g * s /\ g * s <= W * s /\ W * s = s * W /\ g * s \in Int /\ s * W \in Int
    BY <2>1
  <2> QED BY <1>5, <1>6, <2>2
<1>8. Within(8 * e1, D) /\ Within(8 * e3, D) /\ Within(8 * e2, 2 * D)
  <2>1. 16 * h + D <= Q * D /\ 17 * Q <= Q * D /\ D <= h
    BY <1>1, <1>2
  <2>2. 1 \in {1, 2} /\ 2 \in {1, 2} /\ 1 * D = D /\ 1 * (8 * h + D) = 8 * h + D
        /\ 2 * (8 * h + D) = 16 * h + 2 * D
    OBVIOUS
  <2>3. 8 * zf <= 1 * (8 * h + D) /\ 8 * zv <= 1 * (8 * h + D) /\ 8 * y2 <= 2 * (8 * h + D)
    BY <1>2
  <2>4. Within(8 * e1, 1 * D)
    BY <2>1, <2>2, <2>3, ErrorWithin
  <2>5. Within(8 * e3, 1 * D)
    BY <2>1, <2>2, <2>3, ErrorWithin
  <2>6. Within(8 * e2, 2 * D)
    BY <2>1, <2>2, <2>3, ErrorWithin
  <2> QED BY <2>2, <2>4, <2>5, <2>6
<1>9. PICK td \in Int, gs \in Int : td = t * D /\ gs = g * s
  OBVIOUS
<1>10. -(8 * h) <= 8 * td /\ 8 * (td + V * D) <= 8 * h
  <2>1. -G * D <= t * D /\ (t + V) * D <= G * D
    <3>1. -G <= t => (-G) * D <= t * D
      OBVIOUS
    <3>2. t + V <= G => (t + V) * D <= G * D
      OBVIOUS
    <3> QED BY <3>1, <3>2
  <2>2. (-G) * D = -h /\ (t + V) * D = td + V * D
    BY <1>2, <1>9
  <2> QED BY <1>2, <1>5, <1>9, <2>1, <2>2
<1>11. Within(8 * (td + gs + (e3 - e1 + e2)), 8 * h + 5 * D)
  BY <1>5, <1>7, <1>8, <1>9, <1>10 DEF Within
<1>12. ASSUME NEW y4 \in Nat, NEW e4 \in Int, 8 * y4 <= 8 * (G * D) + 5 * D,
              Within(2 * Q * e4, 2 * y4 + Q)
       PROVE  Within((td + gs + (e3 - e1 + e2) + e4) * W - (t * W + g * V) * D, T * W)
  <2>1. (td + gs + (e3 - e1 + e2) + e4) * W - (t * W + g * V) * D = (e4 + e3 + e2 - e1) * W + g * e0
    BY <1>4, <1>9
  <2>2. PICK sum \in Int, bound \in Nat :
           sum = e4 + e3 + e2 - e1 /\ bound = (2 * y4 + Q) + (2 * zv + Q) + (2 * y2 + Q) + (2 * zf + Q)
    OBVIOUS
  <2>3. Within(2 * Q * sum, bound)
    <3>1. 2 * Q * sum = 2 * Q * e4 + 2 * Q * e3 + 2 * Q * e2 - 2 * Q * e1
          /\ 2 * Q * e4 \in Int /\ 2 * Q * e3 \in Int /\ 2 * Q * e2 \in Int /\ 2 * Q * e1 \in Int
      BY <2>2
    <3> QED BY <2>2, <3>1, <1>12 DEF Within
  <2>4. Within(g * (2 * Q * e0), W * E)
    <3>1. PICK a \in Int : a = 2 * Q * e0 /\ Within(a, E)
      BY <1>4
    <3>2. Within(g, W)
      BY DEF Within
    <3> QED BY <3>1, <3>2, WithinProduct
  <2>5. Within(W * (2 * Q * sum), W * bound)
    <3>1. PICK a \in Int, b \in Int, k \in Nat :
             a = 2 * Q * sum /\ b = bound /\ k = W /\ Within(a, b)
      BY <2>3
    <3>2. Within(k * a, k * b)
      BY <3>1, WithinTimes
    <3> QED BY <3>1, <3>2
  <2>6. Within(W * (2 * Q * sum) + g * (2 * Q * e0), W * bound + W * E)
    <3>1. PICK a \in Int, b \in Int, c \in Int, d \in Int :
             a = W * (2 * Q * sum) /\ b = W * bound /\ c = g * (2 * Q * e0) /\ d = W * E
      OBVIOUS
    <3> QED BY <2>4, <2>5, <3>1, WithinSum
  <2>7. bound + E <= 2 * T * Q
    <3>1. 8 * bound <= 2 * (40 * h + 10 * D) + 32 * Q
      BY <1>2, <1>12, <2>2
    <3>2. 8 * E <= 16 * h + 8 * r
      BY <1>4, <1>5
    <3>3. G * (16 * D) = 16 * h
      BY <1>2
    <3> QED BY <1>1, <1>2, <3>1, <3>2, <3>3
  <2>8. PICK err \in Int : err = sum * W + g * e0
    OBVIOUS
  <2>9. Within(2 * Q * err, 2 * Q * (T * W))
    <3>1. W * (2 * Q * sum) + g * (2 * Q * e0) = 2 * Q * err
      BY <2>8
    <3>2. W * bound + W * E <= 2 * Q * (T * W)
      <4>1. PICK a \in Nat, b \in Nat : a = bound + E /\ b = 2 * T * Q
        OBVIOUS
      <4>2. W * a <= W * b
        BY <2>7, <4>1
      <4>3. W * a = W * bound + W * E /\ W * b = 2 * Q * (T * W)
        BY <4>1
      <4> QED BY <4>2, <4>3
    <3>3. 2 * Q * err \in Int /\ W * bound + W * E \in Int /\ 2 * Q * (T * W) \in Int
      OBVIOUS
    <3> QED BY <2>6, <3>1, <3>2, <3>3, WithinLess
  <2>10. Within(err, T * W)
    <3>1. PICK k \in Nat \ {0}, b \in Int : k = 2 * Q /\ b = T * W
      OBVIOUS
    <3>2. Within(k * err, k * b)
      BY <2>9, <3>1
    <3>3. Within(err, b)
      BY <3>2, WithinCancel
    <3> QED BY <3>1, <3>3
  <2> QED BY <2>1, <2>2, <2>8, <2>10
<1> QED BY <1>2, <1>3, <1>9, <1>11, <1>12

(* A mapped coordinate is off by the tolerance at most: e1, e2, e3 and e4 are *)
(* the errors of from * scale, of the offset, of v * scale and of their sum,  *)
(* in the order of the source (transform.py 26-71).                           *)
LEMMA AxisWithin ==
    ASSUME NEW G \in Nat \ {0}, Room(One, Significands, G, Tolerance),
           NEW W \in 1..G, NEW V \in 1..G, NEW f \in Int, NEW t \in Int, NEW v \in Int,
           f <= v, v <= f + W, -G <= t, t + V <= G, Within(f, G), Within(v, G),
           Within(f * V, G * W), Within(v * V, G * W)
    PROVE  /\ MapCoordinate(Axis(f, W, t, V), FloatOf(v)) \in Int
           /\ Within(MapCoordinate(Axis(f, W, t, V), FloatOf(v)) * W - (t * W + (v - f) * V) * One,
                     Tolerance * W)
<1>1. PICK D \in Nat \ {0}, Q \in Nat \ {0}, T \in Nat :
         D = One /\ Q = Significands /\ T = Tolerance /\ Room(D, Q, G, T)
  BY FloatUnits, GeometryAssumption
<1>2. /\ G < Q /\ 16 * (G * D) + D <= Q * D /\ 16 * (Q * G) <= Q * D /\ 17 * Q <= Q * D /\ D <= G * D
      /\ Q <= Q * G
  BY <1>1, RoomBounds
<1>3. PICK h \in Nat, p \in Nat : h = G * D /\ p = Q * D
  OBVIOUS
<1>4. /\ FloatOf(V) = V * One /\ FloatOf(W) = W * One /\ FloatOf(f) = f * One
      /\ FloatOf(t) = t * One /\ FloatOf(v) = v * One
  <2>1. ASSUME NEW x \in Int, Within(x, G) PROVE FloatOf(x) = x * One
    <3>1. Magnitude(x) < Significands
      BY <1>1, <1>2, <2>1 DEF Magnitude, Within
    <3> QED BY <3>1, FloatOfExact
  <2>2. Within(V, G) /\ Within(W, G) /\ Within(t, G) /\ V \in Int /\ W \in Int
    BY DEF Within
  <2> QED BY <2>1, <2>2
<1>5. PICK s \in Int : /\ s = Over(FloatOf(V), FloatOf(W))
                       /\ Within(2 * Q * (s * W - V * D), 2 * (V * D) + Q * W)
  <2>1. PICK n \in Nat, d \in Nat \ {0} : n = (V * D) * D /\ d = W * D
    OBVIOUS
  <2>2. Within(n, n) /\ n < d * (Q * D)
    <3>1. PICK k \in Nat \ {0} : k = D * D
      OBVIOUS
    <3>2. n = V * k /\ d * (Q * D) = (W * Q) * k
      BY <2>1, <3>1
    <3>3. V < W * Q
      <4>1. Q <= W * Q
        OBVIOUS
      <4> QED BY <1>2, <4>1
    <3>4. V * k < (W * Q) * k
      <4>1. PICK m \in Nat : m = W * Q /\ V < m
        BY <3>3
      <4>2. V * k < m * k
        BY <4>1
      <4> QED BY <4>1, <4>2
    <3> QED BY <3>2, <3>4 DEF Within
  <2>3. PICK s \in Int : s = Rounded(n, d) /\ Within(2 * Q * (s * d - n), 2 * n + Q * d)
    <3>1. PICK y \in Nat, i \in Int : y = n /\ i = n
      OBVIOUS
    <3>2. Within(i, y) /\ y < d * (Significands * One)
      BY <1>1, <2>2, <3>1
    <3>3. Rounded(i, d) \in Int /\ Within(2 * Significands * (Rounded(i, d) * d - i), 2 * y + Significands * d)
      BY <3>2, RoundedWithin
    <3> QED BY <1>1, <3>1, <3>3
  <2>4. PICK a \in Int, b \in Int : a = 2 * Q * (s * W - V * D) /\ b = 2 * (V * D) + Q * W
    OBVIOUS
  <2>5. 2 * Q * (s * d - n) = D * a /\ 2 * n + Q * d = D * b
    BY <2>1, <2>4
  <2>6. Within(a, b)
    BY <2>3, <2>5, WithinCancel
  <2>7. s = Over(FloatOf(V), FloatOf(W))
    BY <1>1, <1>4, <2>1, <2>3 DEF Over
  <2> QED BY <2>4, <2>6, <2>7
<1>6. PICK zf \in Nat : Within(f * s, zf) /\ 8 * zf <= 8 * (G * D) + D
  BY <1>1, <1>5, MagnifiedWithin
<1>7. PICK zv \in Nat : Within(v * s, zv) /\ 8 * zv <= 8 * (G * D) + D
  BY <1>1, <1>5, MagnifiedWithin
<1>8. zf < Significands * One /\ zv < Significands * One
  BY <1>1, <1>2, <1>3, <1>6, <1>7
<1>9. PICK m \in Int : m = Times(FloatOf(f), s) /\ Within(2 * Q * (m - f * s), 2 * zf + Q)
  BY <1>1, <1>4, <1>6, <1>8, TimesWithin
<1>10. PICK k \in Int : k = Times(FloatOf(v), s) /\ Within(2 * Q * (k - v * s), 2 * zv + Q)
  BY <1>1, <1>4, <1>7, <1>8, TimesWithin
<1>11. PICK e1 \in Int, e3 \in Int, fs \in Int, vs \in Int :
          fs = f * s /\ vs = v * s /\ e1 = m - fs /\ e3 = k - vs
  OBVIOUS
<1>12. PICK td \in Int : td = t * D /\ Within(td, h)
  <2>1. Within(t, G) /\ t \in Int /\ G \in Int /\ D \in Nat
    BY DEF Within
  <2>2. Within(D * t, D * G)
    BY <2>1, WithinTimes
  <2>3. D * t = t * D /\ D * G = h /\ t * D \in Int
    BY <1>3
  <2> QED BY <2>2, <2>3
<1>13. Within(8 * e1, D)
  <2>1. PICK j \in {1, 2} : j = 1
    OBVIOUS
  <2>2. 16 * h + D <= Q * D /\ 17 * Q <= Q * D /\ D <= h /\ 8 * zf <= j * (8 * h + D)
        /\ Within(2 * Q * e1, 2 * zf + Q) /\ j * D = D
    BY <1>2, <1>3, <1>6, <1>9, <1>11, <2>1
  <2>3. Within(8 * e1, j * D)
    BY <2>2, ErrorWithin
  <2> QED BY <2>2, <2>3
<1>14. PICK y2 \in Nat : Within(td - m, y2) /\ 8 * y2 <= 16 * (G * D) + 2 * D
  <2>1. PICK x \in Int : x = td - m
    OBVIOUS
  <2>2. Within(8 * x, 16 * h + 2 * D)
    <3>1. Within(fs, zf) /\ 8 * zf <= 8 * h + D
      BY <1>3, <1>6, <1>11
    <3>2. x = td - fs - e1
      BY <1>11, <2>1
    <3> QED BY <1>12, <1>13, <3>1, <3>2 DEF Within
  <2>3. PICK y \in Nat : Within(x, y) /\ (y = x \/ y = -x)
    <3>1. CASE x >= 0
      BY <3>1 DEF Within
    <3>2. CASE x < 0
      BY <3>2 DEF Within
    <3> QED BY <3>1, <3>2
  <2>4. 8 * y <= 16 * h + 2 * D
    BY <2>2, <2>3 DEF Within
  <2> QED BY <1>3, <2>1, <2>3, <2>4
<1>15. y2 < Significands * One
  BY <1>1, <1>2, <1>3, <1>14
<1>16. PICK o \in Int : o = Minus(FloatOf(t), m) /\ Within(2 * Q * (o - (td - m)), 2 * y2 + Q)
  <2>1. PICK n \in Int : n = td - m
    OBVIOUS
  <2>2. Rounded(n, 1) \in Int /\ Within(2 * Significands * (Rounded(n, 1) - n), 2 * y2 + Significands)
    BY <1>14, <1>15, <2>1, PlusWithin
  <2> QED BY <1>1, <1>4, <1>12, <2>1, <2>2 DEF Minus
<1>17. PICK e2 \in Int : e2 = o - (td - m)
  OBVIOUS
<1>18. PICK a4 \in Int : a4 = k + o /\ a4 = t * D + (v - f) * s + (e3 - e1 + e2)
  BY <1>11, <1>12, <1>17
<1>19. /\ Within(8 * (t * D + (v - f) * s + (e3 - e1 + e2)), 8 * (G * D) + 5 * D)
       /\ \A y4 \in Nat, e4 \in Int :
            8 * y4 <= 8 * (G * D) + 5 * D /\ Within(2 * Q * e4, 2 * y4 + Q) =>
                Within((t * D + (v - f) * s + (e3 - e1 + e2) + e4) * W
                           - (t * W + (v - f) * V) * D, T * W)
  <2>1. /\ Within(2 * Q * (s * W - V * D), 2 * (V * D) + Q * W)
        /\ 8 * zf <= 8 * (G * D) + D /\ 8 * zv <= 8 * (G * D) + D
        /\ 8 * y2 <= 16 * (G * D) + 2 * D
    BY <1>5, <1>6, <1>7, <1>14
  <2>2. Within(2 * Q * e1, 2 * zf + Q)
    BY <1>9, <1>11
  <2>3. Within(2 * Q * e2, 2 * y2 + Q)
    BY <1>16, <1>17
  <2>4. Within(2 * Q * e3, 2 * zv + Q)
    BY <1>10, <1>11
  <2>5. Room(D, Q, G, T)
    BY <1>1
  <2> QED BY <2>1, <2>2, <2>3, <2>4, <2>5, ChainWithin
<1>20. PICK y4 \in Nat : Within(a4, y4) /\ 8 * y4 <= 8 * (G * D) + 5 * D
  <2>1. Within(8 * a4, 8 * h + 5 * D)
    BY <1>3, <1>18, <1>19
  <2>2. PICK y \in Nat : Within(a4, y) /\ (y = a4 \/ y = -a4)
    <3>1. CASE a4 >= 0
      BY <3>1 DEF Within
    <3>2. CASE a4 < 0
      BY <3>2 DEF Within
    <3> QED BY <3>1, <3>2
  <2> QED BY <1>3, <2>1, <2>2 DEF Within
<1>21. y4 < Significands * One
  BY <1>1, <1>2, <1>3, <1>20
<1>22. PICK c \in Int : c = Plus(k, o) /\ Within(2 * Q * (c - a4), 2 * y4 + Q)
  <2>1. Rounded(a4, 1) \in Int /\ Within(2 * Significands * (Rounded(a4, 1) - a4), 2 * y4 + Significands)
    BY <1>20, <1>21, PlusWithin
  <2> QED BY <1>1, <1>18, <2>1 DEF Plus
<1>23. PICK e4 \in Int : e4 = c - a4
  OBVIOUS
<1>24. Within(c * W - (t * W + (v - f) * V) * D, T * W)
  <2>1. Within((a4 + e4) * W - (t * W + (v - f) * V) * D, T * W)
    BY <1>18, <1>19, <1>20, <1>22, <1>23
  <2>2. a4 + e4 = c
    BY <1>23
  <2> QED BY <2>1, <2>2
<1>25. MapCoordinate(Axis(f, W, t, V), FloatOf(v)) = c
  BY <1>5, <1>9, <1>10, <1>16, <1>22 DEF MapCoordinate, Axis
<1> QED BY <1>1, <1>24, <1>25

(* What is less when multiplied is less.                                      *)
LEMMA BelowMultiple ==
    ASSUME NEW k \in Nat \ {0}, NEW a \in Int, NEW b \in Int, k * a < k * b
    PROVE  a < b
<1>1. b <= a => k * b <= k * a
  OBVIOUS
<1>2. k * a \in Int /\ k * b \in Int
  OBVIOUS
<1> QED BY <1>1, <1>2

(* Cut off, a number that near to N / W is not above it, and less than two    *)
(* below.                                                                     *)
LEMMA FloorWithin ==
    ASSUME NEW D \in Nat \ {0}, NEW W \in Nat \ {0}, NEW T \in Nat, NEW N \in Int, NEW c \in Int,
           Within(c * W - N * D, T * W), 2 * T * W < D
    PROVE  (c \div D) \in Int /\ (c \div D) * W <= N /\ N < ((c \div D) + 2) * W
<1>1. PICK l \in Int, r \in 0..D - 1 : l = c \div D /\ c = l * D + r
  <2>1. c \div D \in Int /\ c % D \in 0..D - 1 /\ c = (c \div D) * D + (c % D)
    OBVIOUS
  <2> QED BY <2>1
<1>2. PICK u \in Nat, lw \in Int, rw \in Nat : u = T * W /\ lw = l * W /\ rw = r * W
  OBVIOUS
<1>3. 2 * u < D
  BY <1>2
<1>4. c * W = D * lw + rw
  <2>1. c * W = (l * D) * W + r * W
    <3>1. PICK ld \in Int : ld = l * D
      OBVIOUS
    <3>2. c = ld + r
      BY <1>1, <3>1
    <3>3. (ld + r) * W = ld * W + r * W
      OBVIOUS
    <3> QED BY <3>1, <3>2, <3>3
  <2>2. (l * D) * W = D * (l * W)
    OBVIOUS
  <2> QED BY <1>2, <2>1, <2>2
<1>5. PICK dn \in Int, dl \in Int : dn = D * N /\ dl = D * lw
  OBVIOUS
<1>6. -u <= dl + rw - dn /\ dl + rw - dn <= u
  <2>1. c * W - N * D = dl + rw - dn
    BY <1>4, <1>5
  <2> QED BY <1>2, <2>1 DEF Within
<1>7. l * W <= N
  <2>1. D * lw < D * (N + 1)
    <3>1. D * (N + 1) = dn + D
      BY <1>5
    <3> QED BY <1>3, <1>5, <1>6, <3>1
  <2>2. PICK m \in Int : m = N + 1
    OBVIOUS
  <2>3. lw < m
    BY <2>1, <2>2, BelowMultiple
  <2> QED BY <1>2, <2>2, <2>3
<1>8. N < (l + 2) * W
  <2>1. rw + W <= D * W
    <3>1. (r + 1) * W <= D * W
      <4>1. PICK s \in Nat : s = r + 1 /\ s <= D
        OBVIOUS
      <4>2. s * W <= D * W
        BY <4>1
      <4> QED BY <4>1, <4>2
    <3>2. (r + 1) * W = rw + W
      BY <1>2
    <3> QED BY <3>1, <3>2
  <2>2. PICK m \in Int : m = lw + W + 1
    OBVIOUS
  <2>3. D * m = dl + D * W + D
    BY <1>5, <2>2
  <2>4. D * N < D * m
    <3>1. PICK dw \in Nat : dw = D * W
      OBVIOUS
    <3> QED BY <1>3, <1>5, <1>6, <2>1, <2>3, <3>1
  <2>5. N < m
    BY <2>4, BelowMultiple
  <2>6. (l + 2) * W = lw + 2 * W
    BY <1>2
  <2> QED BY <2>2, <2>5, <2>6
<1> QED BY <1>1, <1>7, <1>8

(* Rounded up it is not below, and less than two above.                       *)
LEMMA CeilWithin ==
    ASSUME NEW D \in Nat \ {0}, NEW W \in Nat \ {0}, NEW T \in Nat, NEW N \in Int, NEW c \in Int,
           Within(c * W - N * D, T * W), 2 * T * W < D
    PROVE  /\ -((-c) \div D) \in Int
           /\ N <= (-((-c) \div D)) * W /\ ((-((-c) \div D)) - 2) * W < N
<1>1. PICK a \in Int, n \in Int : a = -c /\ n = -N
  OBVIOUS
<1>2. Within(a * W - n * D, T * W)
  <2>1. PICK x \in Int : x = c * W - N * D
    OBVIOUS
  <2>2. a * W - n * D = -x
    BY <1>1, <2>1
  <2>3. T * W \in Nat
    OBVIOUS
  <2> QED BY <2>1, <2>2, <2>3 DEF Within
<1>3. (a \div D) \in Int /\ (a \div D) * W <= n /\ n < ((a \div D) + 2) * W
  BY <1>2, FloorWithin
<1>4. PICK l \in Int : l = a \div D
  BY <1>3
<1>5. l * W <= n /\ n < (l + 2) * W
  BY <1>3, <1>4
<1>6. (-l) * W = -(l * W) /\ (-l - 2) * W = -((l + 2) * W) /\ l * W \in Int /\ (l + 2) * W \in Int
  OBVIOUS
<1>7. N <= (-l) * W /\ (-l - 2) * W < N
  BY <1>1, <1>5, <1>6
<1>8. l = (-c) \div D
  BY <1>1, <1>4
<1> QED BY <1>7, <1>8

(* The rounding of c tells whether N / W is an integer, and which.            *)
RoundsTo(c, D, N, W, T) ==
    /\ NearestEven(c, D) \in Int
    /\ N % W = 0 => NearestEven(c, D) = N \div W /\ Magnitude(c - NearestEven(c, D) * D) <= T
    /\ N % W # 0 => ~(Magnitude(c - NearestEven(c, D) * D) <= T)

(* It does if c is that near to N / W: half the tolerance apart two integers  *)
(* cannot be confused.                                                        *)
LEMMA RoundWithin ==
    ASSUME NEW D \in Nat \ {0}, NEW W \in Nat \ {0}, NEW T \in Nat, NEW N \in Int, NEW c \in Int,
           Within(c * W - N * D, T * W), 2 * T * W < D
    PROVE  RoundsTo(c, D, N, W, T)
<1>1. PICK near \in Int : near = NearestEven(c, D) /\ -D <= 2 * (near * D - c) /\ 2 * (near * D - c) <= D
  BY NearestEvenClose
<1>2. PICK x \in Int : x = c - near * D /\ Within(2 * x, D)
  BY <1>1 DEF Within
<1>3. PICK u \in Nat : u = T * W /\ 2 * u < D
  OBVIOUS
<1>4. 2 * T < D
  <2>1. T <= T * W
    OBVIOUS
  <2> QED BY <1>3, <2>1
<1>5. CASE N % W = 0
  <2>1. PICK k \in Int : k = N \div W /\ N = k * W
    <3>1. N \div W \in Int /\ N = (N \div W) * W + (N % W)
      OBVIOUS
    <3>2. PICK k \in Int : k = N \div W
      BY <3>1
    <3>3. k * W \in Int /\ N = k * W + 0
      BY <1>5, <3>1, <3>2
    <3> QED BY <3>2, <3>3
  <2>2. PICK y \in Int : y = c - k * D
    OBVIOUS
  <2>3. c * W - N * D = W * y
    <3>1. N * D = W * (k * D)
      <4>1. (k * W) * D = W * (k * D)
        OBVIOUS
      <4> QED BY <2>1, <4>1, Zenon
    <3>2. W * (c - k * D) = W * c - W * (k * D)
      OBVIOUS
    <3> QED BY <2>2, <3>1, <3>2
  <2>4. Within(y, T)
    <3>1. Within(W * y, W * T)
      <4>1. T * W = W * T
        OBVIOUS
      <4> QED BY <2>3, <4>1
    <3> QED BY <3>1, WithinCancel
  <2>5. near = k
    <3>1. PICK z \in Int : z = near - k
      OBVIOUS
    <3>2. D * z = y - x
      BY <1>2, <2>2, <3>1
    <3>3. 2 * (y - x) < 2 * D /\ -(2 * D) < 2 * (y - x)
      BY <1>2, <1>4, <2>4 DEF Within
    <3>4. D * z < D * 1 /\ D * (-1) < D * z
      BY <3>2, <3>3
    <3>5. PICK one \in Int, minus \in Int : one = 1 /\ minus = -1
      OBVIOUS
    <3>6. z < one /\ minus < z
      BY <3>4, <3>5, BelowMultiple
    <3> QED BY <3>1, <3>5, <3>6
  <2>6. Magnitude(c - near * D) <= T
    BY <2>2, <2>4, <2>5 DEF Magnitude, Within
  <2> QED BY <1>1, <1>5, <2>1, <2>5, <2>6 DEF RoundsTo
<1>6. CASE N % W # 0
  <2>1. SUFFICES ASSUME Magnitude(c - near * D) <= T PROVE FALSE
    BY <1>1, <1>6 DEF RoundsTo
  <2>2. Within(x, T)
    BY <1>2, <2>1 DEF Magnitude, Within
  <2>3. PICK e \in Int : e = c * W - N * D /\ Within(e, u)
    BY <1>3
  <2>4. PICK xw \in Int : xw = W * x /\ Within(xw, u)
    <3>1. Within(W * x, W * T) /\ W * T = T * W /\ W * x \in Int
      BY <2>2, WithinTimes
    <3> QED BY <1>3, <3>1
  <2>5. PICK z \in Int : z = N - near * W
    OBVIOUS
  <2>6. D * z = xw - e
    <3>1. D * z = N * D - (near * D) * W
      BY <2>5
    <3>2. W * x = c * W - (near * D) * W
      BY <1>2
    <3> QED BY <2>3, <2>4, <3>1, <3>2
  <2>7. D * z < D * 1 /\ D * (-1) < D * z
    BY <1>3, <2>3, <2>4, <2>6 DEF Within
  <2>8. PICK one \in Int, minus \in Int : one = 1 /\ minus = -1
    OBVIOUS
  <2>9. z < one /\ minus < z
    BY <2>7, <2>8, BelowMultiple
  <2>10. N = near * W
    BY <2>5, <2>8, <2>9
  <2>11. N % W = 0
    <3>1. PICK q \in Int, r \in 0..W - 1 : r = N % W /\ N = q * W + r
      <4>1. N \div W \in Int /\ N % W \in 0..W - 1 /\ N = (N \div W) * W + (N % W)
        OBVIOUS
      <4> QED BY <4>1
    <3>2. PICK g \in Int : g = near - q
      OBVIOUS
    <3>3. W * g = r
      <4>1. W * g = near * W - q * W
        BY <3>2
      <4>2. PICK nw \in Int, qw \in Int : nw = near * W /\ qw = q * W
        OBVIOUS
      <4> QED BY <2>10, <3>1, <4>1, <4>2
    <3>4. W * g < W * 1 /\ W * (-1) < W * g
      BY <3>1, <3>3
    <3>5. g < one /\ minus < g
      BY <2>8, <3>4, BelowMultiple
    <3>6. g = 0
      BY <2>8, <3>5
    <3> QED BY <3>1, <3>3, <3>6
  <2> QED BY <1>6, <2>11
<1> QED BY <1>5, <1>6

------------------------------------------------------------------------------
(* What floor, ceil and round make of a mapped edge whose exact image is n /  *)
(* W.                                                                         *)
EdgeExact(c, n, W) ==
    /\ FloorOf(c) \in Int /\ FloorOf(c) * W <= n /\ n < (FloorOf(c) + 2) * W
    /\ CeilOf(c) \in Int /\ n <= CeilOf(c) * W /\ (CeilOf(c) - 2) * W < n
    /\ RoundsTo(c, One, n, W, Tolerance)

(* They do so for every edge within reach.                                    *)
LEMMA EdgeReached ==
    ASSUME NEW G \in Nat \ {0}, Room(One, Significands, G, Tolerance),
           NEW W \in 1..G, NEW V \in 1..G, NEW f \in Int, NEW t \in Int, NEW v \in Int,
           f <= v, v <= f + W, -G <= t, t + V <= G, Within(f, G), Within(v, G),
           Within(f * V, G * W), Within(v * V, G * W)
    PROVE  EdgeExact(MapCoordinate(Axis(f, W, t, V), FloatOf(v)), t * W + (v - f) * V, W)
<1>1. PICK D \in Nat \ {0}, T \in Nat : D = One /\ T = Tolerance
  BY FloatUnits, GeometryAssumption
<1>2. PICK w \in Nat \ {0} : w = W
  OBVIOUS
<1>3. PICK c \in Int, N \in Int :
         /\ c = MapCoordinate(Axis(f, W, t, V), FloatOf(v)) /\ N = t * W + (v - f) * V
         /\ Within(c * w - N * D, T * w)
  <2>1. /\ MapCoordinate(Axis(f, W, t, V), FloatOf(v)) \in Int
        /\ Within(MapCoordinate(Axis(f, W, t, V), FloatOf(v)) * W - (t * W + (v - f) * V) * One, Tolerance * W)
    BY AxisWithin
  <2>2. PICK c \in Int, N \in Int :
          c = MapCoordinate(Axis(f, W, t, V), FloatOf(v)) /\ N = t * W + (v - f) * V
    BY <2>1
  <2>3. Within(c * w - N * D, T * w)
    BY <1>1, <1>2, <2>1, <2>2, Zenon
  <2> QED BY <2>2, <2>3
<1>4. 2 * T * w < D
  <2>1. PICK k \in Nat : k = 2 * T
    OBVIOUS
  <2>2. k * G < D
    BY <1>1, <2>1 DEF Room
  <2>3. k * w <= k * G
    BY <1>2
  <2>4. k * w \in Nat /\ k * G \in Nat
    BY <1>2
  <2> QED BY <2>1, <2>2, <2>3, <2>4
<1>5. (c \div D) \in Int /\ (c \div D) * w <= N /\ N < ((c \div D) + 2) * w
  BY <1>3, <1>4, FloorWithin
<1>6. /\ -((-c) \div D) \in Int
      /\ N <= (-((-c) \div D)) * w /\ ((-((-c) \div D)) - 2) * w < N
  BY <1>3, <1>4, CeilWithin
<1>7. RoundsTo(c, D, N, w, T)
  BY <1>3, <1>4, RoundWithin
<1>8. FloorOf(c) = c \div D /\ CeilOf(c) = -((-c) \div D)
  BY <1>1 DEF FloorOf, CeilOf
<1>9. EdgeExact(c, N, w)
  BY <1>1, <1>5, <1>6, <1>7, <1>8, Zenon DEF EdgeExact
<1> QED BY <1>2, <1>3, <1>9, Zenon

(* From side to side of two presentations: every edge is within reach,        *)
(* magnified or not.                                                          *)
Between(f, W, t, V) ==
    /\ W \in 1..Reach /\ V \in 1..Reach /\ f \in Int /\ t \in Int
    /\ -Reach <= t /\ t + V <= Reach /\ Within(f, Reach) /\ Within(f + W, Reach)
    /\ Within(f * V, Reach * W) /\ Within((f + W) * V, Reach * W)

(* Then so is every coordinate between the edges.                             *)
LEMMA EdgesExact ==
    ASSUME NEW f, NEW W, NEW t, NEW V, Between(f, W, t, V),
           NEW v \in Int, f <= v, v <= f + W
    PROVE  EdgeExact(MapCoordinate(Axis(f, W, t, V), FloatOf(v)), ExactEdge(v, f, W, t, V)[1], W)
<1>1. PICK G \in Nat \ {0} : G = Reach /\ Room(One, Significands, G, Tolerance)
  BY PrecisionAssumption, FloatUnits DEF Room
<1>2. /\ W \in 1..G /\ V \in 1..G /\ f \in Int /\ t \in Int
      /\ -G <= t /\ t + V <= G /\ Within(f, G) /\ Within(f + W, G)
      /\ Within(f * V, G * W) /\ Within((f + W) * V, G * W)
  BY <1>1 DEF Between
<1>3. Within(v, G)
  BY <1>2 DEF Within
<1>4. Within(v * V, G * W)
  <2>1. PICK e \in Int : e = f + W
    BY <1>2
  <2>2. f * V <= v * V /\ v * V <= e * V
    <3>1. f <= v /\ v <= e /\ V \in Nat /\ f \in Int
      BY <1>2, <2>1
    <3> QED BY <3>1
  <2>3. f * V \in Int /\ v * V \in Int /\ e * V \in Int /\ G * W \in Int
    BY <1>2, <2>1
  <2>4. Within(f * V, G * W) /\ Within(e * V, G * W)
    BY <1>2, <2>1
  <2> QED BY <2>2, <2>3, <2>4 DEF Within
<1>5. EdgeExact(MapCoordinate(Axis(f, W, t, V), FloatOf(v)), t * W + (v - f) * V, W)
  BY <1>1, <1>2, <1>3, <1>4, EdgeReached
<1>6. ExactEdge(v, f, W, t, V)[1] = t * W + (v - f) * V
  BY DEF ExactEdge
<1> QED BY <1>5, <1>6, Zenon

(* What map_rect_enclosing and map_rect_exact make of a region of such a      *)
(* presentation.                                                              *)
LEMMA RectEnclosed ==
    ASSUME NEW source \in Rects, NEW target \in Rects, NEW region \in Rects, NEW image,
           ContainsRect(source, region),
           Between(source.x, source.width, target.x, target.width),
           Between(source.y, source.height, target.y, target.height),
           MapRectEnclosing(FromRects(source, target), region) = <<image>>
    PROVE  LET X(v) == ExactEdge(v, source.x, source.width, target.x, target.width)
               Y(v) == ExactEdge(v, source.y, source.height, target.y, target.height)
               edges == <<X(region.x), Y(region.y), X(Right(region)), Y(Bottom(region))>>
           IN  /\ EnclosedOnAxis(image.x, Right(image), edges[1], edges[3])
               /\ EnclosedOnAxis(image.y, Bottom(image), edges[2], edges[4])
               /\ MapRectExact(FromRects(source, target), region) =
                    IF \A i \in 1..4 : edges[i][1] % edges[i][2] = 0
                    THEN FromLTRB(edges[1][1] \div edges[1][2], edges[2][1] \div edges[2][2],
                                  edges[3][1] \div edges[3][2], edges[4][1] \div edges[4][2])
                    ELSE None
<1> DEFINE X(v) == ExactEdge(v, source.x, source.width, target.x, target.width)
           Y(v) == ExactEdge(v, source.y, source.height, target.y, target.height)
           CX(v) == MapCoordinate(Axis(source.x, source.width, target.x, target.width), FloatOf(v))
           CY(v) == MapCoordinate(Axis(source.y, source.height, target.y, target.height), FloatOf(v))
<1>1. PICK W, H, l, t, r, b : /\ W = source.width /\ H = source.height
         /\ l = region.x /\ t = region.y /\ r = Right(region) /\ b = Bottom(region)
  OBVIOUS
<1>2. /\ l \in Int /\ t \in Int /\ r \in Int /\ b \in Int
      /\ source.x <= l /\ l <= source.x + W /\ source.x <= r /\ r <= source.x + W
      /\ source.y <= t /\ t <= source.y + H /\ source.y <= b /\ b <= source.y + H
  BY <1>1 DEF Rects, ContainsRect, Right, Bottom
<1>3. EdgeExact(CX(l), X(l)[1], W) /\ EdgeExact(CX(r), X(r)[1], W)
  BY <1>1, <1>2, EdgesExact
<1>4. EdgeExact(CY(t), Y(t)[1], H) /\ EdgeExact(CY(b), Y(b)[1], H)
  BY <1>1, <1>2, EdgesExact
<1>5. X(l)[2] = W /\ X(r)[2] = W /\ Y(t)[2] = H /\ Y(b)[2] = H
  BY <1>1 DEF ExactEdge
<1>6. Edges(FromRects(source, target), region) = <<CX(l), CY(t), CX(r), CY(b)>>
  BY <1>1 DEF Edges, FromRects
<1> DEFINE cxl == CX(l) cyt == CY(t) cxr == CX(r) cyb == CY(b)
           xl == X(l) yt == Y(t) xr == X(r) yb == Y(b)
<1>7. /\ Edges(FromRects(source, target), region) = <<cxl, cyt, cxr, cyb>>
      /\ EdgeExact(cxl, xl[1], W) /\ EdgeExact(cxr, xr[1], W)
      /\ EdgeExact(cyt, yt[1], H) /\ EdgeExact(cyb, yb[1], H)
      /\ xl[2] = W /\ xr[2] = W /\ yt[2] = H /\ yb[2] = H
  BY <1>3, <1>4, <1>5, <1>6
<1>8. X(region.x) = xl /\ Y(region.y) = yt /\ X(Right(region)) = xr /\ Y(Bottom(region)) = yb
  BY <1>1
<1> HIDE DEF cxl, cyt, cxr, cyb, xl, yt, xr, yb, CX, CY, X, Y
<1>9. /\ image.x = FloorOf(cxl) /\ image.y = FloorOf(cyt)
      /\ Right(image) = CeilOf(cxr) /\ Bottom(image) = CeilOf(cyb)
  <2>1. FromLTRB(FloorOf(cxl), FloorOf(cyt), CeilOf(cxr), CeilOf(cyb)) = <<image>>
    BY <1>7 DEF MapRectEnclosing
  <2>2. PICK a \in Int, c \in Int, d \in Int, e \in Int :
          a = FloorOf(cxl) /\ c = FloorOf(cyt) /\ d = CeilOf(cxr) /\ e = CeilOf(cyb)
    BY <1>7 DEF EdgeExact
  <2>3. image = Rect(a, c, d - a, e - c)
    BY <2>1, <2>2 DEF FromLTRB
  <2>4. a + (d - a) = d /\ c + (e - c) = e
    OBVIOUS
  <2> QED BY <2>2, <2>3, <2>4 DEF Rect, Right, Bottom
<1>10. EnclosedOnAxis(image.x, Right(image), xl, xr) /\ EnclosedOnAxis(image.y, Bottom(image), yt, yb)
  BY <1>7, <1>9, Zenon DEF EnclosedOnAxis, EdgeExact
<1> DEFINE edges == <<xl, yt, xr, yb>>
           Exactly == IF \A i \in 1..4 : edges[i][1] % edges[i][2] = 0
                      THEN FromLTRB(edges[1][1] \div edges[1][2], edges[2][1] \div edges[2][2],
                                    edges[3][1] \div edges[3][2], edges[4][1] \div edges[4][2])
                      ELSE None
<1>11. MapRectExact(FromRects(source, target), region) = Exactly
  <2> DEFINE images == <<cxl, cyt, cxr, cyb>>
             rounded == [i \in 1..4 |-> RoundOf(images[i])]
  <2>1. MapRectExact(FromRects(source, target), region) =
          IF \A i \in 1..4 : Magnitude(images[i] - rounded[i] * One) <= Tolerance
          THEN FromLTRB(rounded[1], rounded[2], rounded[3], rounded[4]) ELSE <<>>
    BY <1>7 DEF MapRectExact
  <2>2. /\ rounded[1] = RoundOf(cxl) /\ rounded[2] = RoundOf(cyt)
        /\ rounded[3] = RoundOf(cxr) /\ rounded[4] = RoundOf(cyb)
        /\ images[1] = cxl /\ images[2] = cyt /\ images[3] = cxr /\ images[4] = cyb
    OBVIOUS
  <2>3. edges[1] = xl /\ edges[2] = yt /\ edges[3] = xr /\ edges[4] = yb
    OBVIOUS
  <2> HIDE DEF images, rounded, edges
  <2>4. (\A i \in 1..4 : Magnitude(images[i] - rounded[i] * One) <= Tolerance) <=>
            /\ Magnitude(cxl - RoundOf(cxl) * One) <= Tolerance
            /\ Magnitude(cyt - RoundOf(cyt) * One) <= Tolerance
            /\ Magnitude(cxr - RoundOf(cxr) * One) <= Tolerance
            /\ Magnitude(cyb - RoundOf(cyb) * One) <= Tolerance
    <3>1. 1..4 = {1, 2, 3, 4}
      OBVIOUS
    <3> QED BY <2>2, <3>1, Zenon
  <2>5. (\A i \in 1..4 : edges[i][1] % edges[i][2] = 0) <=>
            xl[1] % W = 0 /\ yt[1] % H = 0 /\ xr[1] % W = 0 /\ yb[1] % H = 0
    <3>1. 1..4 = {1, 2, 3, 4}
      OBVIOUS
    <3> QED BY <1>7, <2>3, <3>1, Zenon
  <2>6. CASE xl[1] % W = 0 /\ yt[1] % H = 0 /\ xr[1] % W = 0 /\ yb[1] % H = 0
    <3>1. /\ RoundOf(cxl) = xl[1] \div W /\ RoundOf(cyt) = yt[1] \div H
          /\ RoundOf(cxr) = xr[1] \div W /\ RoundOf(cyb) = yb[1] \div H
      BY <1>7, <2>6, Zenon DEF EdgeExact, RoundsTo, RoundOf
    <3>2. \A i \in 1..4 : Magnitude(images[i] - rounded[i] * One) <= Tolerance
      BY <1>7, <2>4, <2>6, Zenon DEF EdgeExact, RoundsTo, RoundOf
    <3>3. MapRectExact(FromRects(source, target), region) =
            FromLTRB(RoundOf(cxl), RoundOf(cyt), RoundOf(cxr), RoundOf(cyb))
      BY <2>1, <2>2, <3>2, Zenon
    <3>4. Exactly = FromLTRB(xl[1] \div W, yt[1] \div H, xr[1] \div W, yb[1] \div H)
      BY <1>7, <2>3, <2>5, <2>6, Zenon
    <3> QED BY <3>1, <3>3, <3>4, Zenon
  <2>7. CASE ~(xl[1] % W = 0 /\ yt[1] % H = 0 /\ xr[1] % W = 0 /\ yb[1] % H = 0)
    <3>1. ~\A i \in 1..4 : Magnitude(images[i] - rounded[i] * One) <= Tolerance
      BY <1>7, <2>4, <2>7, Zenon DEF EdgeExact, RoundsTo, RoundOf
    <3> QED BY <2>1, <2>5, <2>7, <3>1, Zenon DEF None
  <2> QED BY <2>6, <2>7
<1>12. /\ EnclosedOnAxis(image.x, Right(image), edges[1], edges[3])
       /\ EnclosedOnAxis(image.y, Bottom(image), edges[2], edges[4])
  BY <1>10
<1> QED BY <1>8, <1>11, <1>12, Zenon DEF X, Y

(* Two sides that are within reach of the screen and of which one is no       *)
(* longer than the screen, or that are the same.                              *)
LEMMA SidesBetween ==
    ASSUME NEW screen \in 1..Reach, NEW f \in Int, NEW W \in Nat \ {0}, NEW t \in Int, NEW V \in Nat \ {0},
           InReach(f, W, screen), InReach(t, V, screen),
           (f = t /\ W = V) \/ V <= screen \/ (f = 0 /\ W <= screen)
    PROVE  Between(f, W, t, V)
<1>1. PICK G \in Nat \ {0} : G = Reach
  BY PrecisionAssumption
<1>2. W <= G /\ V <= G /\ screen <= G
  BY <1>1 DEF InReach
<1>3. Within(f, G) /\ Within(f + W, G) /\ Within(t, G) /\ Within(t + V, G)
  BY <1>1 DEF InReach, Magnitude, Within
<1>4. ASSUME NEW e \in Int, e = f \/ e = f + W
      PROVE  Within(e * V, G * W)
  <2>1. PICK m \in Nat : m = Magnitude(e) /\ m <= G /\ m * screen <= G * W /\ (e = m \/ e = -m)
    <3>1. Magnitude(e) \in Nat /\ (e = Magnitude(e) \/ e = -Magnitude(e))
      BY DEF Magnitude
    <3> QED BY <1>1, <1>4, <3>1 DEF InReach
  <2>2. m * V <= G * W
    <3>1. CASE W = V
      BY <1>2, <2>1, <3>1
    <3>2. CASE V <= screen
      <4>1. m * V <= m * screen
        BY <2>1, <3>2
      <4> QED BY <2>1, <4>1
    <3>3. CASE f = 0
      <4>1. m = 0 \/ m = W
        BY <1>4, <2>1, <3>3 DEF Magnitude
      <4>2. W * V <= W * G
        BY <1>2
      <4> QED BY <4>1, <4>2
    <3> QED BY <3>1, <3>2, <3>3
  <2>3. e * V = m * V \/ e * V = -(m * V)
    BY <2>1
  <2>4. m * V \in Nat /\ G * W \in Nat
    OBVIOUS
  <2> QED BY <2>2, <2>3, <2>4 DEF Within
<1>5. Within(f * V, G * W) /\ Within((f + W) * V, G * W)
  BY <1>4
<1> QED BY <1>1, <1>2, <1>3, <1>5 DEF Between, Within

(* The bounds of a part of the screen.                                        *)
OnScreen(r) == r \in Rects /\ r.x = 0 /\ r.y = 0 /\ r.width <= ScreenWidth /\ r.height <= ScreenHeight

(* Any target, and any view: the pairs that MapRegion maps between.           *)
LEMMA PresentationsBetween ==
    ASSUME NEW source, NEW target, source = target \/ OnScreen(source) \/ OnScreen(target),
           OnScreen(source) \/ source \in Targets, OnScreen(target) \/ target \in Targets
    PROVE  /\ source \in Rects /\ target \in Rects
           /\ Between(source.x, source.width, target.x, target.width)
           /\ Between(source.y, source.height, target.y, target.height)
<1>1. ScreenWidth \in 1..Reach /\ ScreenHeight \in 1..Reach
  BY PrecisionAssumption, FramesAssumption
<1>2. ASSUME NEW r, OnScreen(r) \/ r \in Targets
      PROVE  r \in Rects /\ InReach(r.x, r.width, ScreenWidth) /\ InReach(r.y, r.height, ScreenHeight)
  <2>1. CASE r \in Targets
    BY <2>1, FramesAssumption, PrecisionAssumption
  <2>2. CASE OnScreen(r)
    <3>1. ASSUME NEW size \in Nat \ {0}, NEW screen \in 1..Reach, size <= screen
          PROVE  InReach(0, size, screen)
      <4>1. PICK G \in Nat \ {0} : G = Reach
        BY PrecisionAssumption
      <4>2. size * screen <= G * size /\ 0 * screen = 0 /\ G * size \in Nat
        BY <3>1, <4>1
      <4>3. Magnitude(0) = 0 /\ Magnitude(size) = size /\ 0 + size = size
        BY DEF Magnitude
      <4> QED BY <3>1, <4>1, <4>2, <4>3 DEF InReach
    <3> QED BY <1>1, <2>2, <3>1 DEF OnScreen, Rects
  <2> QED BY <1>2, <2>1, <2>2
<1>3. source \in Rects /\ target \in Rects
  BY <1>2
<1>4. /\ InReach(source.x, source.width, ScreenWidth) /\ InReach(target.x, target.width, ScreenWidth)
      /\ InReach(source.y, source.height, ScreenHeight) /\ InReach(target.y, target.height, ScreenHeight)
  BY <1>2
<1>5. /\ source.x \in Int /\ source.y \in Int /\ target.x \in Int /\ target.y \in Int
      /\ source.width \in Nat \ {0} /\ target.width \in Nat \ {0}
      /\ source.height \in Nat \ {0} /\ target.height \in Nat \ {0}
  BY <1>3 DEF Rects
<1>6. Between(source.x, source.width, target.x, target.width)
  BY <1>1, <1>4, <1>5, SidesBetween DEF OnScreen
<1>7. Between(source.y, source.height, target.y, target.height)
  BY <1>1, <1>4, <1>5, SidesBetween DEF OnScreen
<1> QED BY <1>3, <1>6, <1>7

------------------------------------------------------------------------------
(* What a caller has mapped went from a presentation to one within reach.     *)
Mapped(m) ==
    /\ m.source \in Rects /\ m.target \in Rects /\ m.region \in Rects /\ ContainsRect(m.source, m.region)
    /\ Between(m.source.x, m.source.width, m.target.x, m.target.width)
    /\ Between(m.source.y, m.source.height, m.target.y, m.target.height)
    /\ MapRectEnclosing(FromRects(m.source, m.target), m.region) = <<m.image>>

(* No view is larger than the screen, and every mapping was one within reach. *)
Reached ==
    /\ DOMAIN mapped = Callers
    /\ \A c \in Callers : /\ at[c] \in Looking => OnScreen(Bounds(view[c][1]))
                          /\ at[c] = "captured" => OnScreen(Bounds(frame[c][1].image))
    /\ \A c \in Callers : mapped[c] # None => Mapped(mapped[c][1])

(* A crop is no larger than what it is a crop of.                             *)
LEMMA CropSize ==
    ASSUME NEW image, NEW p, NEW x, NEW y, ShowsFrom(image, p, x, y), NEW region \in Rects,
           Crop(image, region) # <<>>
    PROVE  /\ Bounds(Crop(image, region)[1]).width <= Bounds(image).width
           /\ Bounds(Crop(image, region)[1]).height <= Bounds(image).height
<1>1. PICK left, top \in Int, width, height \in Nat \ {0} :
         /\ image.backing = Part(p, left, top, width, height)
         /\ \/ image.slice = <<>> /\ x = left /\ y = top
            \/ \E r \in Rects : /\ image.slice = <<r>> /\ x = left + r.x /\ y = top + r.y
                                /\ ContainsRect(Rect(0, 0, width, height), r)
  BY DEF ShowsFrom
<1>2. DOMAIN image = {"backing", "slice", "format"}
  BY DEF ShowsFrom
<1>3. Bounds(image) \in Rects /\ Bounds(image).x = 0 /\ Bounds(image).y = 0
  BY BoundsShown
<1>4. region.width <= Bounds(image).width /\ region.height <= Bounds(image).height
  BY <1>3 DEF Crop, ContainsRect, Rects, Right, Bottom
<1>5. CASE region = Bounds(image)
  <2>1. Crop(image, region) = <<image>>
    BY <1>5 DEF Crop
  <2> QED BY <1>3, <2>1 DEF Rects
<1>6. ASSUME NEW whole \in Rects, RasterSlice(image, whole) # <<>>, whole.width = region.width,
             whole.height = region.height
      PROVE  /\ Bounds(RasterSlice(image, whole)[1]).width = region.width
             /\ Bounds(RasterSlice(image, whole)[1]).height = region.height
  <2> DEFINE cropped == [image EXCEPT !.slice = <<whole>>]
  <2>1. RasterSlice(image, whole) = <<cropped>> /\ ContainsRect(BoundsOf(image.backing), whole)
    BY <1>6 DEF RasterSlice
  <2>2. cropped.backing = image.backing /\ cropped.slice = <<whole>>
    BY <1>2
  <2>3. BoundsOf(image.backing) = Rect(0, 0, width, height)
    BY <1>1, PartSize DEF BoundsOf
  <2>4. Pixels(cropped) = Part(p, left + whole.x, top + whole.y, whole.width, whole.height)
    <3>1. Pixels(cropped) = SlicePixels(image.backing, whole)
      BY <2>2 DEF Pixels
    <3> QED BY <1>1, <2>1, <2>3, <3>1, SlicedPart
  <2>5. /\ Len(Pixels(cropped)) = whole.height /\ Len(Pixels(cropped)[1]) = whole.width
    <3>1. left + whole.x \in Int /\ top + whole.y \in Int /\ whole.width \in Nat \ {0} /\ whole.height \in Nat \ {0}
      BY DEF Rects
    <3> QED BY <2>4, <3>1, PartSize
  <2> HIDE DEF cropped
  <2> QED BY <1>6, <2>1, <2>5 DEF Bounds, BoundsOf, Rect
<1>7. CASE region # Bounds(image) /\ image.slice = <<>>
  <2>1. Crop(image, region) = RasterSlice(image, region)
    BY <1>7 DEF Crop
  <2> QED BY <1>3, <1>4, <1>6, <2>1 DEF Rects
<1>8. ASSUME region # Bounds(image), NEW r \in Rects, image.slice = <<r>>
      PROVE  /\ Bounds(Crop(image, region)[1]).width <= Bounds(image).width
             /\ Bounds(Crop(image, region)[1]).height <= Bounds(image).height
  <2> DEFINE whole == Translated(region, r.x, r.y)
  <2>1. whole \in Rects /\ whole.width = region.width /\ whole.height = region.height
    <3>1. r.x \in Int /\ r.y \in Int
      BY DEF Rects
    <3> QED BY <3>1, TranslatedShape
  <2>2. Crop(image, region) = RasterSlice(image, whole)
    BY <1>8 DEF Crop
  <2> HIDE DEF whole
  <2> QED BY <1>3, <1>4, <1>6, <2>1, <2>2 DEF Rects
<1> QED BY <1>1, <1>5, <1>7, <1>8

(* A copy has the size of what it is a copy of.                               *)
LEMMA CopyBounds ==
    ASSUME NEW image, DOMAIN image = {"backing", "slice", "format"}
    PROVE  Bounds(Materialize(image)) = Bounds(image)
<1>1. CASE image.slice = <<>>
  BY <1>1 DEF Materialize
<1>2. CASE image.slice # <<>>
  <2> DEFINE copy == [image EXCEPT !.backing = Pixels(image), !.slice = <<>>]
  <2>1. Materialize(image) = copy
    BY <1>2 DEF Materialize
  <2>2. copy.slice = <<>> /\ copy.backing = Pixels(image)
    OBVIOUS
  <2> HIDE DEF copy
  <2>3. Pixels(copy) = Pixels(image)
    BY <2>2 DEF Pixels
  <2> QED BY <2>1, <2>3 DEF Bounds
<1> QED BY <1>1, <1>2

(* One case per step of a caller.                                             *)
LEMMA ReachedKept ==
    ASSUME InPlace, Reached, [FramesNext]_frameVars
    PROVE  Reached'
<1> DEFINE Fine(c) == /\ at[c] \in Looking => OnScreen(Bounds(view[c][1]))
                      /\ at[c] = "captured" => OnScreen(Bounds(frame[c][1].image))
                      /\ mapped[c] # None => Mapped(mapped[c][1])
<1>1. /\ DOMAIN at = Callers /\ DOMAIN view = Callers /\ DOMAIN frame = Callers /\ DOMAIN mapped = Callers
      /\ \A c \in Callers : Fine(c)
  <2>1. DOMAIN at = Callers /\ DOMAIN view = Callers /\ DOMAIN frame = Callers
    BY DEF InPlace
  <2>2. DOMAIN mapped = Callers
    BY DEF Reached
  <2>3. \A c \in Callers : Fine(c)
    BY DEF Reached
  <2> QED BY <2>1, <2>2, <2>3
<1>2. ASSUME DOMAIN mapped' = Callers, \A c \in Callers : Fine(c)'
      PROVE  Reached'
  BY <1>2 DEF Reached
<1>3. CASE Tick \/ SetBack \/ UNCHANGED frameVars
  <2>1. UNCHANGED <<at, view, frame, mapped>>
    BY <1>3 DEF Tick, SetBack, frameVars, reading
  <2>2. \A c \in Callers : Fine(c)'
    BY <1>1, <2>1 DEF OnScreen, Mapped, Looking
  <2> QED BY <1>1, <1>2, <2>1, <2>2
<1>4. ASSUME NEW c \in Callers,
             \A d \in Callers \ {c} : UNCHANGED <<at[d], view[d], frame[d], mapped[d]>>,
             DOMAIN mapped' = Callers, Fine(c)'
      PROVE  Reached'
  <2>1. ASSUME NEW d \in Callers \ {c} PROVE Fine(d)'
    BY <1>1, <1>4 DEF OnScreen, Mapped, Looking
  <2> HIDE DEF Fine
  <2> QED BY <1>2, <1>4, <2>1
<1>5. ASSUME NEW c \in Callers, Acquire(c) \/ Shoot(c) \/ Number(c) PROVE Reached'
  <2>1. /\ at'[c] \notin Looking /\ mapped'[c] \in {None, mapped[c]} /\ DOMAIN mapped' = Callers
        /\ \A d \in Callers \ {c} : UNCHANGED <<at[d], view[d], frame[d], mapped[d]>>
    <3>1. CASE Acquire(c)
      BY <1>1, <3>1 DEF Acquire, Goto, Looking
    <3>2. CASE Shoot(c)
      BY <1>1, <3>2 DEF Shoot, Goto, Refuse, Looking, reading
    <3>3. CASE Number(c)
      BY <1>1, <3>3 DEF Number, TakeFrameId, Goto, Refuse, Looking, reading
    <3> QED BY <1>5, <3>1, <3>2, <3>3
  <2>2. Fine(c)'
    BY <1>1, <2>1 DEF Looking, Mapped
  <2> QED BY <1>4, <2>1, <2>2
<1>6. ASSUME NEW c \in Callers, Stamp(c) PROVE Reached'
  <2> DEFINE owned == RasterImage(array[c][1], FormatOf(array[c][1].channels))
             image == owned[1]
  <2>1. CASE owned = None
    <3>1. /\ at'[c] = "idle" /\ UNCHANGED <<frame, view, mapped>>
          /\ \A d \in Callers \ {c} : UNCHANGED at[d]
      BY <1>1, <1>6, <2>1 DEF Stamp, Refuse, Goto
    <3>2. Fine(c)'
      BY <1>1, <3>1 DEF Mapped, Looking
    <3> QED BY <1>1, <1>4, <3>1, <3>2
  <2>2. CASE owned # None
    <3>1. /\ ShowsFrom(image, shot[c], 0, 0) /\ image.backing = array[c][1].rows /\ image.slice = <<>>
          /\ ShowsAll(array[c][1].rows, shot[c])
      <4>1. ShowsAll(array[c][1].rows, shot[c])
        BY <1>6 DEF Stamp, Placed, InPlace
      <4> QED BY <2>2, <4>1, RasterOfPicture DEF IsMaterialized
    <3>2. OnScreen(Bounds(image))
      <4>1. Pixels(image) = Part(shot[c], 0, 0, ScreenWidth, ScreenHeight)
        BY <3>1 DEF Pixels, ShowsAll
      <4>2. Bounds(image) = Rect(0, 0, ScreenWidth, ScreenHeight)
        BY <4>1, FramesAssumption, PartSize DEF Bounds, BoundsOf
      <4> QED BY <4>2, FramesAssumption DEF OnScreen, Rect, Rects
    <3>3. OnScreen(Bounds(Materialize(image)))
      BY <3>1, <3>2, CopyBounds DEF ShowsFrom
    <3>4. /\ view'[c] = <<Materialize(image)>> /\ frame'[c][1].image = image /\ mapped' = mapped
          /\ \A d \in Callers \ {c} : UNCHANGED <<at[d], view[d], frame[d]>>
      BY <1>1, <1>6, <2>2 DEF Stamp, Goto
    <3> HIDE DEF image, owned
    <3>5. Fine(c)'
      BY <1>1, <3>2, <3>3, <3>4 DEF OnScreen, Mapped, Looking
    <3> QED BY <1>1, <1>4, <3>4, <3>5
  <2> QED BY <2>1, <2>2
<1>7. ASSUME NEW c \in Callers, Extract(c) PROVE Reached'
  <2> DEFINE image == frame[c][1].image
  <2>1. /\ ShowsFrom(image, shot[c], 0, 0) /\ OnScreen(Bounds(image)) /\ at[c] = "captured"
        /\ UNCHANGED <<frame, mapped>>
    BY <1>1, <1>7 DEF Extract, Placed, InPlace
  <2>2. PICK answer \in Answers :
           LET located == Locate(frame[c][1], answer) IN
           IF located.bounds = None
           THEN Refuse(c, located.reason) /\ UNCHANGED <<view, corner>>
           ELSE /\ view' = [view EXCEPT ![c] = <<Extracted(frame[c][1], located.bounds[1])>>]
                /\ corner' = [corner EXCEPT ![c] = <<located.bounds[1].x, located.bounds[1].y>>]
                /\ Goto(c, "extracted")
                /\ UNCHANGED outcome
    BY <1>7 DEF Extract
  <2> DEFINE bounds == Locate(frame[c][1], answer).bounds
  <2>3. CASE bounds = None
    <3>1. /\ at'[c] = "idle" /\ \A d \in Callers \ {c} : UNCHANGED <<at[d], view[d], frame[d], mapped[d]>>
      BY <1>1, <2>1, <2>2, <2>3 DEF Refuse, Goto
    <3>2. Fine(c)'
      BY <1>1, <2>1, <3>1 DEF Mapped, Looking
    <3> QED BY <1>1, <1>4, <2>1, <3>1, <3>2
  <2>4. CASE bounds # None
    <3>1. bounds[1] = Bounds(image) \/ (bounds[1] \in Rects /\ Crop(image, bounds[1]) # <<>>)
      <4>1. \/ bounds = <<Bounds(image)>>
            \/ answer.says = "configured" /\ bounds = <<answer.bounds>>
               /\ ContainsRect(Bounds(image), answer.bounds)
        BY <2>4 DEF Locate, None
      <4>2. answer.says = "configured" => answer.bounds \in Rects
        BY FramesAssumption DEF Answers
      <4>3. frame[c][1].image.slice = <<>>
        BY <2>1 DEF Placed, InPlace, IsMaterialized
      <4> HIDE DEF bounds
      <4> QED BY <4>1, <4>2, <4>3 DEF Crop, RasterSlice, Bounds, Pixels
    <3>2. OnScreen(Bounds(Extracted(frame[c][1], bounds[1])))
      <4>1. PICK b : b = bounds[1]
        OBVIOUS
      <4> HIDE DEF bounds
      <4>2. CASE b = Bounds(image)
        BY <2>1, <4>1, <4>2, CopyBounds DEF Extracted, ShowsFrom
      <4>3. CASE b # Bounds(image)
        <5>1. ShowsFrom(Crop(image, b)[1], shot[c], 0 + b.x, 0 + b.y)
          BY <2>1, <3>1, <4>1, <4>3, CropShown
        <5>2. /\ Bounds(Crop(image, b)[1]).width <= Bounds(image).width
              /\ Bounds(Crop(image, b)[1]).height <= Bounds(image).height
          BY <2>1, <3>1, <4>1, <4>3, CropSize
        <5>3. /\ Bounds(Crop(image, b)[1]).x = 0 /\ Bounds(Crop(image, b)[1]).y = 0
              /\ Bounds(Crop(image, b)[1]) \in Rects
          BY <5>1, BoundsShown
        <5>4. OnScreen(Bounds(Crop(image, b)[1]))
          BY <2>1, <5>2, <5>3, FramesAssumption DEF OnScreen, Rects
        <5>5. Extracted(frame[c][1], b) = Materialize(Crop(image, b)[1])
          BY <4>3 DEF Extracted
        <5>6. Bounds(Materialize(Crop(image, b)[1])) = Bounds(Crop(image, b)[1])
          BY <5>1, CopyBounds DEF ShowsFrom
        <5> QED BY <4>1, <5>4, <5>5, <5>6
      <4> QED BY <4>2, <4>3
    <3>3. /\ at'[c] = "extracted" /\ view'[c] = <<Extracted(frame[c][1], bounds[1])>>
          /\ \A d \in Callers \ {c} : UNCHANGED <<at[d], view[d], frame[d], mapped[d]>>
      BY <1>1, <2>1, <2>2, <2>4 DEF Goto
    <3> HIDE DEF bounds
    <3>4. Fine(c)'
      BY <1>1, <2>1, <3>2, <3>3 DEF OnScreen, Mapped, Looking
    <3> QED BY <1>1, <1>4, <2>1, <3>3, <3>4
  <2> QED BY <2>3, <2>4
<1>8. ASSUME NEW c \in Callers, CropView(c) PROVE Reached'
  <2>1. PICK region \in Regions :
           LET cropped == Crop(view[c][1], region) IN
           IF cropped = None THEN Refuse(c, "ValueError") /\ UNCHANGED <<view, corner>>
           ELSE /\ view' = [view EXCEPT ![c] = cropped]
                /\ corner' = [corner EXCEPT ![c] = <<@[1] + region.x, @[2] + region.y>>]
                /\ Goto(c, "cropped")
                /\ UNCHANGED outcome
    BY <1>8 DEF CropView
  <2>2. /\ region \in Rects /\ ShowsFrom(view[c][1], shot[c], corner[c][1], corner[c][2])
        /\ OnScreen(Bounds(view[c][1]))
    BY <1>1, <1>8, FramesAssumption DEF CropView, Placed, Looking, InPlace
  <2>3. UNCHANGED <<frame, mapped>>
    BY <1>8 DEF CropView
  <2>4. CASE Crop(view[c][1], region) = None
    <3>1. at'[c] = "idle" /\ \A d \in Callers \ {c} : UNCHANGED <<at[d], view[d], frame[d], mapped[d]>>
      BY <1>1, <2>1, <2>3, <2>4 DEF Refuse, Goto
    <3>2. Fine(c)'
      BY <1>1, <2>3, <3>1 DEF Mapped, Looking
    <3> QED BY <1>1, <1>4, <2>3, <3>1, <3>2
  <2>5. CASE Crop(view[c][1], region) # None
    <3>1. /\ at'[c] = "cropped" /\ view'[c] = Crop(view[c][1], region)
          /\ \A d \in Callers \ {c} : UNCHANGED <<at[d], view[d], frame[d], mapped[d]>>
      BY <1>1, <2>1, <2>3, <2>5 DEF Goto
    <3>2. OnScreen(Bounds(Crop(view[c][1], region)[1]))
      <4> DEFINE crop == Crop(view[c][1], region)[1]
      <4>1. ShowsFrom(crop, shot[c], corner[c][1] + region.x, corner[c][2] + region.y)
        BY <2>2, <2>5, CropShown DEF None
      <4>2. Bounds(crop).width <= Bounds(view[c][1]).width /\ Bounds(crop).height <= Bounds(view[c][1]).height
        BY <2>2, <2>5, CropSize DEF None
      <4> HIDE DEF crop
      <4>3. Bounds(crop).x = 0 /\ Bounds(crop).y = 0 /\ Bounds(crop) \in Rects
        BY <4>1, BoundsShown
      <4>4. OnScreen(Bounds(crop))
        BY <2>2, <4>2, <4>3, FramesAssumption DEF OnScreen, Rects
      <4> QED BY <4>4 DEF crop
    <3>3. Fine(c)'
      BY <1>1, <2>3, <3>1, <3>2 DEF OnScreen, Mapped, Looking
    <3> QED BY <1>1, <1>4, <2>3, <3>1, <3>3
  <2> QED BY <2>4, <2>5
<1>9. ASSUME NEW c \in Callers, MaterializeView(c) PROVE Reached'
  <2>1. /\ at'[c] = "extracted" /\ view'[c] = <<Materialize(view[c][1])>> /\ UNCHANGED <<frame, mapped>>
        /\ \A d \in Callers \ {c} : UNCHANGED <<at[d], view[d]>>
    BY <1>1, <1>9 DEF MaterializeView, Goto
  <2>2. ShowsFrom(view[c][1], shot[c], corner[c][1], corner[c][2]) /\ OnScreen(Bounds(view[c][1]))
    BY <1>1, <1>9 DEF MaterializeView, Placed, Looking, InPlace
  <2>3. OnScreen(Bounds(Materialize(view[c][1])))
    BY <2>2, CopyBounds DEF ShowsFrom
  <2>4. Fine(c)'
    BY <1>1, <2>1, <2>3 DEF OnScreen, Mapped, Looking
  <2> QED BY <1>1, <1>4, <2>1, <2>4
<1>10. ASSUME NEW c \in Callers, MapRegion(c) PROVE Reached'
  <2>1. /\ at'[c] = "idle" /\ UNCHANGED <<frame, view>> /\ DOMAIN mapped' = Callers
        /\ \A d \in Callers \ {c} : UNCHANGED <<at[d], mapped[d]>>
    BY <1>1, <1>10 DEF MapRegion, Refuse, Goto
  <2>2. OnScreen(Bounds(view[c][1]))
    BY <1>1, <1>10 DEF MapRegion, Looking
  <2>3. CASE UNCHANGED mapped
    <3>1. Fine(c)'
      BY <1>1, <2>1, <2>3 DEF Mapped, Looking
    <3> QED BY <1>4, <2>1, <3>1
  <2>4. CASE mapped' # mapped
    <3>1. PICK region \in Regions, other \in Targets :
            \E source, target \in {Bounds(view[c][1]), other} :
              /\ MapRectBetween(source, target, region) # None
              /\ mapped' = [mapped EXCEPT ![c] =
                   <<[source |-> source, region |-> region, target |-> target,
                      image |-> MapRectBetween(source, target, region)[1]]>>]
      BY <1>10, <2>4 DEF MapRegion
    <3>2. PICK source, target \in {Bounds(view[c][1]), other} :
              /\ MapRectBetween(source, target, region) # None
              /\ mapped' = [mapped EXCEPT ![c] =
                   <<[source |-> source, region |-> region, target |-> target,
                      image |-> MapRectBetween(source, target, region)[1]]>>]
      BY <3>1
    <3>3. /\ source \in Rects /\ target \in Rects
          /\ Between(source.x, source.width, target.x, target.width)
          /\ Between(source.y, source.height, target.y, target.height)
      BY <2>2, PresentationsBetween
    <3> DEFINE image == MapRectEnclosing(FromRects(source, target), region)
    <3>4. ContainsRect(source, region) /\ MapRectBetween(source, target, region) = image /\ image # <<>>
      BY <3>2 DEF MapRectBetween, None
    <3>5. image = <<image[1]>>
      <4>1. \A l, t, r, b : FromLTRB(l, t, r, b) # <<>> => FromLTRB(l, t, r, b) = <<FromLTRB(l, t, r, b)[1]>>
        BY DEF FromLTRB
      <4> QED BY <3>4, <4>1 DEF MapRectEnclosing
    <3>6. mapped'[c] = <<[source |-> source, region |-> region, target |-> target, image |-> image[1]]>>
      BY <1>1, <3>2, <3>4
    <3>7. region \in Rects
      BY FramesAssumption
    <3> HIDE DEF image
    <3>8. Mapped(mapped'[c][1])
      BY <3>3, <3>4, <3>5, <3>6, <3>7 DEF Mapped, image
    <3>9. Fine(c)'
      BY <2>1, <3>8 DEF Mapped, Looking
    <3> QED BY <1>4, <2>1, <3>9
  <2> QED BY <2>3, <2>4
<1> QED BY <1>3, <1>5, <1>6, <1>7, <1>8, <1>9, <1>10 DEF FramesNext

(* The pixels of a view are where they were on the screen, and a region       *)
(* mapped to another presentation encloses its exact image by less than two   *)
(* pixels on each side, while map_rect_exact says it exactly when it is one:  *)
(* the floats of the transform are precise enough for that, for every         *)
(* precision, tolerance and size with room for one another (models.py         *)
(* 205-288, extraction.py 94-131, transform.py 26-162).                       *)
THEOREM PixelsStayInPlace == FramesSpec => []PixelsInPlace
<1>1. FramesInit => InPlace /\ Reached
  BY DEF FramesInit, InPlace, Placed, Reached, Looking, None
<1>2. InPlace /\ Reached /\ [FramesNext]_frameVars => InPlace' /\ Reached'
  BY PlacesKept, ReachedKept
<1>3. Reached => RegionEnclosed
  <2> SUFFICES ASSUME Reached PROVE RegionEnclosed
    OBVIOUS
  <2>1. ASSUME NEW c \in Callers, mapped[c] # None
        PROVE  LET m == mapped[c][1]
                   X(v) == ExactEdge(v, m.source.x, m.source.width, m.target.x, m.target.width)
                   Y(v) == ExactEdge(v, m.source.y, m.source.height, m.target.y, m.target.height)
                   edges == <<X(m.region.x), Y(m.region.y), X(Right(m.region)), Y(Bottom(m.region))>>
               IN  /\ EnclosedOnAxis(m.image.x, Right(m.image), edges[1], edges[3])
                   /\ EnclosedOnAxis(m.image.y, Bottom(m.image), edges[2], edges[4])
                   /\ MapRectExact(FromRects(m.source, m.target), m.region) =
                        IF \A i \in 1..4 : edges[i][1] % edges[i][2] = 0
                        THEN FromLTRB(edges[1][1] \div edges[1][2], edges[2][1] \div edges[2][2],
                                      edges[3][1] \div edges[3][2], edges[4][1] \div edges[4][2])
                        ELSE None
    <3>1. PICK source, target, region, image :
             /\ source \in Rects /\ target \in Rects /\ region \in Rects
             /\ source = mapped[c][1].source /\ target = mapped[c][1].target
             /\ region = mapped[c][1].region /\ image = mapped[c][1].image
      BY <2>1 DEF Reached, Mapped
    <3>2. /\ source \in Rects /\ target \in Rects /\ region \in Rects
          /\ ContainsRect(source, region)
          /\ Between(source.x, source.width, target.x, target.width)
          /\ Between(source.y, source.height, target.y, target.height)
          /\ MapRectEnclosing(FromRects(source, target), region) = <<image>>
      BY <2>1, <3>1 DEF Reached, Mapped
    <3>3. LET X(v) == ExactEdge(v, source.x, source.width, target.x, target.width)
              Y(v) == ExactEdge(v, source.y, source.height, target.y, target.height)
              edges == <<X(region.x), Y(region.y), X(Right(region)), Y(Bottom(region))>>
          IN  /\ EnclosedOnAxis(image.x, Right(image), edges[1], edges[3])
              /\ EnclosedOnAxis(image.y, Bottom(image), edges[2], edges[4])
              /\ MapRectExact(FromRects(source, target), region) =
                   IF \A i \in 1..4 : edges[i][1] % edges[i][2] = 0
                   THEN FromLTRB(edges[1][1] \div edges[1][2], edges[2][1] \div edges[2][2],
                                 edges[3][1] \div edges[3][2], edges[4][1] \div edges[4][2])
                   ELSE None
      BY <3>2, RectEnclosed
    <3> QED BY <3>1, <3>3, ZenonT(30)
  <2> QED BY <2>1, Zenon DEF RegionEnclosed
<1>4. FramesSpec => []Reached
  <2>1. FramesSpec => [](InPlace /\ Reached)
    BY <1>1, <1>2, PTL DEF FramesSpec
  <2> QED BY <2>1, PTL
<1>5. FramesSpec => []RegionEnclosed
  BY <1>3, <1>4, PTL
<1> QED BY <1>5, ViewsStayInPlace, PTL DEF PixelsInPlace
==============================================================================
