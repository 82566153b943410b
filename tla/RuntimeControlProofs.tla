-------------------------- MODULE RuntimeControlProofs --------------------------
(***************************************************************************)
(* Proofs about RuntimeControl for any operations, requests and sessions   *)
(* and any number of faults: the resume evidence holds, no command is      *)
(* executed twice, the server's outcomes are true and the fence keeps      *)
(* mutations apart.  What a response in flight, an entry of a journal and  *)
(* a terminal row say of an operation is one predicate, Says.              *)
(***************************************************************************)
EXTENDS RuntimeControl, SequenceTheorems, FunctionTheorems, FiniteSetTheorems, TLAPS

SessionIds == Sessions \cup {NoSession}
Kinds == {"accepted"} \cup Outcomes
Messages == [type : Kinds, op : Ops, ev : Nat, session : SessionIds]
Hellos == [cmd : Nat, last : Nat]
Frames == [type : {"close"}] \cup [type : {"registered", "ack"}, ev : Nat]
          \cup [type : {"command"}, op : Ops, seq : Nat]
Requests == [phase : {"free"}]
            \cup [phase : {"asked", "reserved", "marked", "waiting"}, op : Ops,
                  session : SessionIds]
Work == [phase : {"accepted", "prepared"} \cup Outcomes, op : Ops, seq : Nat]
Entries == [seq : Nat, op : Ops, first : Nat, second : Nat,
            kind : {"open"} \cup Outcomes, prepared : BOOLEAN]
Held == {"reserved"} \cup Unresolved

-------------------------------------------------------------------------------
\* The inductive invariant, with r the rows, d and j the journals in the file and in
\* memory, b the command in execution and ef the effects.

Unprepared(o, j) == \A i \in DOMAIN j.log : j.log[i].op = o => ~j.log[i].prepared
Spared(o, d, j, ef) == o \notin ef /\ Unprepared(o, d) /\ Unprepared(o, j)

\* What an outcome is worth: the operation is over, a result comes with the effect, and
\* where a mutation was refused there is and will be none.
Says(o, kind, r, d, j, b, ef) ==
  /\ kind \in Outcomes => (b # Idle => b.op # o)
  /\ kind = "result" /\ o \in Mutations => o \in ef
  /\ kind = "unavailable" /\ o \in Mutations => r[o].seq <= d.cmd /\ Spared(o, d, j, ef)

\* A response the runtime has sent.
Message(m, r, d, j, b, ef) ==
  /\ m \in Messages /\ m.ev <= d.last
  /\ r[m.op].seq # 0 /\ r[m.op].seq <= d.cmd
  /\ Says(m.op, m.type, r, d, j, b, ef)

\* A frame the server has sent, under the watermark ev.
Frame(f, r, ev) ==
  /\ f \in Frames
  /\ f.type \in {"registered", "ack"} => f.ev <= ev
  /\ f.type = "command" => f.seq # 0 /\ f.seq = r[f.op].seq

Numbered(row, cm, ev) ==
  /\ row.state \in {"none", "reserved"} => row.seq = 0
  /\ row.state \in Unresolved => row.seq # 0
  /\ row.seq <= cm /\ row.acc <= ev /\ row.res <= ev

Ended(o, r, d, j, b, ef) ==
  /\ r[o].state \in Terminal => r[o].seq <= d.cmd
  /\ r[o].state = "completed" => Says(o, "result", r, d, j, b, ef)
  /\ r[o].state = "failed" => Says(o, "unavailable", r, d, j, b, ef)

RowsInv ==
  /\ \A o \in Ops : Numbered(op[o], cmdMark, evMark) /\ Ended(o, op, disk, rt, busy, effect)
  /\ \A o, p \in Ops : op[o].seq = op[p].seq /\ op[o].seq # 0 => o = p
  /\ \A o, p \in Mutations : op[o].state \in Held /\ op[p].state \in Held => o = p
  /\ evMark <= disk.last /\ resumeAt <= evMark

CallsInv ==
  /\ call \in [Calls -> Requests]
  /\ \A c \in Calls : call[c].phase \in {"marked", "waiting"} => op[call[c].op].seq # 0

WiresInv ==
  /\ toRt \in Seq(Frames) /\ late \in Seq(Messages) /\ toSrv \in Seq(Messages \cup Hellos)
  /\ \A i \in 1..Len(toRt) : Frame(toRt[i], op, evMark)
  /\ \A i \in 1..Len(late) : Message(late[i], op, disk, rt, busy, effect)
  /\ \A i \in 1..Len(toSrv) :
       i > 1 \/ srv # "none" => Message(toSrv[i], op, disk, rt, busy, effect)
  /\ link = "up" /\ srv = "none" => toSrv # <<>>

Entry(e, j, r, d, k, b, ef) ==
  /\ e.seq # 0 /\ e.seq <= j.cmd /\ e.seq = r[e.op].seq
  /\ e.first <= j.last /\ e.second <= j.last
  /\ e.second = 0 <=> e.kind = "open"
  /\ e.prepared => e.seq <= d.cmd
  /\ Says(e.op, e.kind, r, d, k, b, ef)

JournalsInv ==
  /\ rt.cmd <= cmdMark /\ rt.acc <= evMark /\ disk.acc <= evMark
  /\ disk.cmd <= rt.cmd /\ disk.last <= rt.last
  /\ \A i \in DOMAIN rt.log : Entry(rt.log[i], rt, op, disk, rt, busy, effect)
  /\ \A i \in DOMAIN disk.log : Entry(disk.log[i], disk, op, disk, rt, busy, effect)

\* While a command is executed, memory is the file and the row is unresolved.
BusyInv ==
  /\ busy \in {Idle} \cup Work
  /\ busy # Idle =>
       /\ rt = disk /\ busy.seq = op[busy.op].seq /\ busy.seq # 0 /\ busy.seq <= rt.cmd
       /\ op[busy.op].state \in Unresolved
       /\ busy.phase \in {"accepted", "prepared"} => ran[busy.op] = 0
       /\ busy.phase = "accepted" => Unprepared(busy.op, rt) /\ busy.op \notin effect
       /\ busy.phase = "result" => busy.op \in effect
       /\ busy.phase = "unavailable" => busy.op \notin Mutations

HistoryInv ==
  /\ \A o \in Ops : ran[o] # 0 => ran[o] = 1 /\ op[o].seq # 0 /\ op[o].seq <= disk.cmd
  /\ \A o \in effect : op[o].seq # 0 /\ op[o].seq <= disk.cmd

Inv == TypeOK /\ RowsInv /\ CallsInv /\ WiresInv /\ JournalsInv /\ BusyInv /\ HistoryInv

-------------------------------------------------------------------------------
\* What no step takes back.

\* An operation that may still gain effects: it is executed, or its intent is journaled.
Source(o) ==
  \/ busy # Idle /\ busy.op = o
  \/ ~Unprepared(o, rt) \/ ~Unprepared(o, disk)

Kept ==
  /\ disk.cmd <= disk'.cmd /\ disk.last <= disk'.last
  /\ effect \subseteq effect'
  /\ \A o \in Ops : op[o].seq # 0 \/ op[o].state \in Terminal => op'[o].seq = op[o].seq
  /\ \A o \in Ops : ~Source(o) => /\ o \in effect' => o \in effect
                                  /\ Unprepared(o, rt') /\ Unprepared(o, disk')
  /\ \A o \in Ops : op[o].seq <= rt.cmd /\ (busy # Idle => busy.op # o)
                    => (busy' # Idle => busy'.op # o)

LEMMA Numbers ==
  ASSUME Inv
  PROVE  /\ \A o \in Ops : op[o].seq \in Nat /\ op[o].acc \in Nat /\ op[o].res \in Nat
         /\ rt \in Journals /\ disk \in Journals
         /\ rt.cmd \in Nat /\ rt.acc \in Nat /\ rt.last \in Nat
         /\ disk.cmd \in Nat /\ disk.acc \in Nat /\ disk.last \in Nat
         /\ cmdMark \in Nat /\ evMark \in Nat /\ resumeAt \in Nat
         /\ rt.log \in Seq(Entries) /\ disk.log \in Seq(Entries)
         /\ busy # Idle => busy \in Work
BY DEF Inv, TypeOK, Journals, Entries, BusyInv

\* The counters of the two journals alone.
LEMMA Counters ==
  ASSUME Inv
  PROVE  /\ rt.cmd \in Nat /\ rt.last \in Nat /\ disk.cmd \in Nat /\ disk.last \in Nat
         /\ disk.cmd <= rt.cmd /\ disk.last <= rt.last
<1>1. disk.cmd <= rt.cmd /\ disk.last <= rt.last
  BY DEF Inv, JournalsInv
<1> QED BY ONLY <1>1, Inv, Numbers

LEMMA AtMost == \A a, b, c \in Nat : a <= b /\ b <= c => a <= c
OBVIOUS

\* What an outcome says outlives every step.
LEMMA SaysKept ==
  ASSUME Inv, Kept, NEW o \in Ops, NEW kind, op[o].seq <= rt.cmd,
         op[o].seq # 0 \/ op[o].state \in Terminal, disk'.cmd \in Nat,
         Says(o, kind, op, disk, rt, busy, effect)
  PROVE  Says(o, kind, op', disk', rt', busy', effect')
<1>1. kind \in Outcomes => (busy' # Idle => busy'.op # o)
  BY DEF Says, Kept
<1>2. kind = "result" /\ o \in Mutations => o \in effect'
  BY DEF Says, Kept
<1>3. ASSUME kind = "unavailable", o \in Mutations
      PROVE  op'[o].seq <= disk'.cmd /\ Spared(o, disk', rt', effect')
  <2>1. /\ op[o].seq <= disk.cmd /\ (busy # Idle => busy.op # o)
        /\ o \notin effect /\ Unprepared(o, disk) /\ Unprepared(o, rt)
    BY <1>3 DEF Says, Spared, Outcomes
  <2>2. ~Source(o)
    BY <2>1 DEF Source
  <2>3. op'[o].seq = op[o].seq /\ disk.cmd <= disk'.cmd
    BY DEF Kept
  <2>4. op'[o].seq <= disk'.cmd
    BY <2>1, <2>3, Numbers
  <2> QED BY <2>1, <2>2, <2>4 DEF Kept, Spared
<1> QED BY <1>1, <1>2, <1>3 DEF Says

LEMMA MessageKept ==
  ASSUME Inv, Kept, disk'.cmd \in Nat, disk'.last \in Nat
  PROVE  \A m \in Messages : Message(m, op, disk, rt, busy, effect)
                             => Message(m, op', disk', rt', busy', effect')
<1> SUFFICES ASSUME NEW m \in Messages, Message(m, op, disk, rt, busy, effect)
             PROVE  Message(m, op', disk', rt', busy', effect')
  OBVIOUS
<1>1. /\ m.op \in Ops /\ m.ev \in Nat /\ m.ev <= disk.last
      /\ op[m.op].seq # 0 /\ op[m.op].seq <= disk.cmd
      /\ Says(m.op, m.type, op, disk, rt, busy, effect)
  BY DEF Message, Messages
<1>2. disk.cmd <= rt.cmd
  BY DEF Inv, JournalsInv
<1>3. op[m.op].seq <= rt.cmd
  <2>1. rt.cmd \in Nat /\ disk.cmd \in Nat
    BY Counters
  <2>2. op[m.op].seq \in Nat
    BY <1>1, Numbers
  <2> QED BY <1>1, <1>2, <2>1, <2>2, AtMost
<1>4. Says(m.op, m.type, op', disk', rt', busy', effect')
  BY <1>1, <1>3, SaysKept
<1>5. op'[m.op].seq = op[m.op].seq /\ disk.cmd <= disk'.cmd /\ disk.last <= disk'.last
  BY <1>1 DEF Kept
<1>6. m.ev <= disk'.last /\ op'[m.op].seq <= disk'.cmd
  <2>1. disk.cmd \in Nat /\ disk.last \in Nat /\ op[m.op].seq \in Nat
    BY <1>1, Numbers
  <2> QED BY <1>1, <1>5, <2>1, AtMost
<1> QED BY <1>1, <1>4, <1>5, <1>6 DEF Message

\* An entry that stays in a journal keeps its meaning.
LEMMA EntryKept ==
  ASSUME Inv, Kept, disk'.cmd \in Nat, NEW k \in {rt, disk}, NEW i \in DOMAIN k.log,
         NEW j, j.cmd \in Nat, j.last \in Nat, k.cmd <= j.cmd, k.last <= j.last
  PROVE  Entry(k.log[i], j, op', disk', rt', busy', effect')
<1> DEFINE e == k.log[i]
<1>1. k.log \in Seq(Entries) /\ k.cmd \in Nat /\ k.last \in Nat /\ k.cmd <= rt.cmd
  <2>1. k.log \in Seq(Entries)
    BY Numbers
  <2> QED BY <2>1, Counters
<1>2. e \in Entries
  BY <1>1
<1>3. Entry(e, k, op, disk, rt, busy, effect)
  BY DEF Inv, JournalsInv
<1> HIDE DEF e
<1>4. e.op \in Ops /\ e.seq \in Nat /\ e.first \in Nat /\ e.second \in Nat
  BY <1>2 DEF Entries
<1>5. op[e.op].seq = e.seq /\ e.seq # 0 /\ e.seq <= k.cmd
  BY <1>3 DEF Entry
<1>6. op[e.op].seq <= rt.cmd
  <2>1. rt.cmd \in Nat
    BY Numbers
  <2> QED BY <1>1, <1>4, <1>5, <2>1, AtMost
<1>7. Says(e.op, e.kind, op', disk', rt', busy', effect')
  BY <1>3, <1>4, <1>5, <1>6, SaysKept DEF Entry
<1>8. op'[e.op].seq = e.seq
  BY <1>4, <1>5 DEF Kept
<1>9. e.seq <= j.cmd /\ e.first <= j.last /\ e.second <= j.last
  <2>1. e.seq <= k.cmd /\ e.first <= k.last /\ e.second <= k.last
    BY <1>3 DEF Entry
  <2> QED BY <1>1, <1>4, <2>1, AtMost
<1>10. e.prepared => e.seq <= disk'.cmd
  <2>1. disk.cmd \in Nat /\ disk.cmd <= disk'.cmd /\ (e.prepared => e.seq <= disk.cmd)
    BY <1>3, Numbers DEF Entry, Kept
  <2> QED BY <1>4, <2>1, AtMost
<1> QED BY <1>3, <1>5, <1>7, <1>8, <1>9, <1>10 DEF Entry, e

LEMMA EndedKept ==
  ASSUME Inv, Kept, disk'.cmd \in Nat, NEW o \in Ops,
         op'[o].state \in Terminal => op'[o].state = op[o].state
  PROVE  Ended(o, op', disk', rt', busy', effect')
<1> SUFFICES ASSUME op'[o].state \in Terminal
             PROVE  Ended(o, op', disk', rt', busy', effect')
  BY DEF Ended, Terminal
<1>1. op[o].state \in Terminal /\ op'[o].state = op[o].state
  OBVIOUS
<1>2. Ended(o, op, disk, rt, busy, effect) /\ disk.cmd <= rt.cmd
  BY DEF Inv, RowsInv, JournalsInv
<1>3. op[o].seq <= disk.cmd
  BY <1>1, <1>2 DEF Ended
<1>4. op[o].seq <= rt.cmd
  BY <1>2, <1>3, Numbers
<1>5. op'[o].seq = op[o].seq /\ disk.cmd <= disk'.cmd
  BY <1>1 DEF Kept
<1>6. op'[o].seq <= disk'.cmd
  BY <1>3, <1>5, Numbers
<1>7. op[o].state = "completed" => Says(o, "result", op', disk', rt', busy', effect')
  BY <1>1, <1>2, <1>4, SaysKept DEF Ended
<1>8. op[o].state = "failed" => Says(o, "unavailable", op', disk', rt', busy', effect')
  BY <1>1, <1>2, <1>4, SaysKept DEF Ended
<1> QED BY <1>1, <1>6, <1>7, <1>8 DEF Ended

-------------------------------------------------------------------------------
\* The wires.

LEMMA TailParts ==
  ASSUME NEW S, NEW s \in Seq(S), s # <<>>
  PROVE  /\ Tail(s) \in Seq(S) /\ Head(s) \in S /\ Head(s) = s[1] /\ 1 \in 1..Len(s)
         /\ \A i \in 1..Len(Tail(s)) : i + 1 \in 1..Len(s) /\ Tail(s)[i] = s[i + 1]
<1>1. Len(s) \in Nat \ {0}
  BY EmptySeq
<1>2. Tail(s) \in Seq(S) /\ Head(s) \in S /\ Len(Tail(s)) = Len(s) - 1
  BY HeadTailProperties
<1> QED BY <1>1, <1>2

LEMMA AppendParts ==
  ASSUME NEW S, NEW s \in Seq(S), NEW x \in S
  PROVE  /\ Append(s, x) \in Seq(S) /\ Len(Append(s, x)) = Len(s) + 1
         /\ \A i \in 1..Len(Append(s, x)) :
              Append(s, x)[i] = x \/ \E k \in 1..Len(s) : Append(s, x)[i] = s[k]
OBVIOUS

\* A frame to the runtime is the last one, or is not sent at all.
LEMMA SentParts ==
  ASSUME toRt \in Seq(Frames), NEW f \in Frames
  PROVE  /\ Sent(f) \in Seq(Frames)
         /\ \A i \in 1..Len(Sent(f)) :
              Sent(f)[i] = f \/ \E k \in 1..Len(toRt) : Sent(f)[i] = toRt[k]
<1>1. CASE Sent(f) = toRt
  BY <1>1
<1>2. CASE Sent(f) = Append(toRt, f)
  BY <1>2, AppendParts
<1> QED BY <1>1, <1>2 DEF Sent

LEMMA SentToParts ==
  ASSUME toRt \in Seq(Frames), NEW f \in Frames, NEW s
  PROVE  /\ SentTo(s, f) \in Seq(Frames)
         /\ \A i \in 1..Len(SentTo(s, f)) :
              SentTo(s, f)[i] = f \/ \E k \in 1..Len(toRt) : SentTo(s, f)[i] = toRt[k]
<1>1. CASE SentTo(s, f) = toRt
  BY <1>1
<1>2. CASE SentTo(s, f) = Sent(f)
  BY <1>2, SentParts
<1> QED BY <1>1, <1>2 DEF SentTo

LEMMA FrameKept ==
  ASSUME Inv, Kept, evMark <= evMark', evMark' \in Nat
  PROVE  \A f \in Frames : Frame(f, op, evMark) => Frame(f, op', evMark')
<1> SUFFICES ASSUME NEW f \in Frames, Frame(f, op, evMark)
             PROVE  Frame(f, op', evMark')
  OBVIOUS
<1>1. ASSUME f.type \in {"registered", "ack"}
      PROVE  f.ev <= evMark'
  <2>1. f.ev \in Nat /\ f.ev <= evMark
    BY <1>1 DEF Frame, Frames
  <2> QED BY <2>1, Numbers
<1>2. ASSUME f.type = "command"
      PROVE  f.seq # 0 /\ f.seq = op'[f.op].seq
  <2>1. f.op \in Ops /\ f.seq # 0 /\ f.seq = op[f.op].seq
    BY <1>2 DEF Frame, Frames
  <2> QED BY <2>1 DEF Kept
<1> QED BY <1>1, <1>2 DEF Frame

LEMMA CloseIsFrame == CloseFrame \in Frames /\ \A r, ev : Frame(CloseFrame, r, ev)
BY DEF CloseFrame, Frames, Frame

\* Where the frames to the runtime come from.
FramesFrom(t) ==
  /\ t \in Seq(Frames)
  /\ \A i \in 1..Len(t) : \/ \E k \in 1..Len(toRt) : t[i] = toRt[k]
                          \/ Frame(t[i], op', evMark')

LEMMA FramesKept ==
  ASSUME Inv, Kept, evMark <= evMark', evMark' \in Nat, FramesFrom(toRt')
  PROVE  toRt' \in Seq(Frames) /\ \A i \in 1..Len(toRt') : Frame(toRt'[i], op', evMark')
<1>1. \A k \in 1..Len(toRt) : toRt[k] \in Frames /\ Frame(toRt[k], op, evMark)
  BY DEF Inv, WiresInv
<1> QED BY <1>1, FrameKept DEF FramesFrom

LEMMA FramesSent ==
  ASSUME Inv, NEW f \in Frames, Frame(f, op', evMark')
  PROVE  FramesFrom(Sent(f)) /\ \A s : FramesFrom(SentTo(s, f))
<1>1. toRt \in Seq(Frames)
  BY DEF Inv, WiresInv
<1>2. FramesFrom(Sent(f))
  BY <1>1, SentParts DEF FramesFrom
<1>3. \A s : FramesFrom(SentTo(s, f))
  BY <1>1, SentToParts DEF FramesFrom
<1> QED BY <1>2, <1>3

LEMMA FramesLeft ==
  ASSUME Inv
  PROVE  FramesFrom(toRt) /\ FramesFrom(<<>>) /\ (toRt # <<>> => FramesFrom(Tail(toRt)))
<1>1. toRt \in Seq(Frames)
  BY DEF Inv, WiresInv
<1>2. FramesFrom(toRt) /\ FramesFrom(<<>>)
  BY <1>1 DEF FramesFrom
<1>3. ASSUME toRt # <<>>
      PROVE  FramesFrom(Tail(toRt))
  BY <1>1, <1>3, TailParts DEF FramesFrom
<1> QED BY <1>2, <1>3

\* A response still under way was sent before, or is worth what it says.
Sound(m) ==
  \/ m \in Messages /\ Message(m, op, disk, rt, busy, effect)
  \/ Message(m, op', disk', rt', busy', effect')

LEMMA SoundKept ==
  ASSUME Inv, Kept, disk'.cmd \in Nat, disk'.last \in Nat
  PROVE  \A m : Sound(m) => Message(m, op', disk', rt', busy', effect')
BY MessageKept DEF Sound

LEMMA OldSound ==
  ASSUME Inv
  PROVE  /\ \A i \in 1..Len(late) : Sound(late[i])
         /\ \A i \in 1..Len(toSrv) : i > 1 \/ srv # "none" => Sound(toSrv[i])
BY DEF Inv, WiresInv, Sound, Message

\* The wires after a step.
LEMMA WiresKept ==
  ASSUME Inv, Kept, disk'.cmd \in Nat, disk'.last \in Nat, evMark <= evMark', evMark' \in Nat,
         FramesFrom(toRt'),
         late' \in Seq(Messages), \A i \in 1..Len(late') : Sound(late'[i]),
         toSrv' \in Seq(Messages \cup Hellos),
         \A i \in 1..Len(toSrv') : i > 1 \/ srv' # "none" => Sound(toSrv'[i]),
         link' = "up" /\ srv' = "none" => toSrv' # <<>>
  PROVE  WiresInv'
<1>1. toRt' \in Seq(Frames) /\ \A i \in 1..Len(toRt') : Frame(toRt'[i], op', evMark')
  BY FramesKept
<1>2. \A i \in 1..Len(late') : Message(late'[i], op', disk', rt', busy', effect')
  BY SoundKept
<1>3. \A i \in 1..Len(toSrv') : i > 1 \/ srv' # "none" =>
        Message(toSrv'[i], op', disk', rt', busy', effect')
  BY SoundKept
<1> QED BY <1>1, <1>2, <1>3 DEF WiresInv

LEMMA HangupKeeps ==
  ASSUME Inv, Kept, disk'.cmd \in Nat, disk'.last \in Nat, UNCHANGED <<evMark, srv>>, Hangup
  PROVE  WiresInv'
<1>1. /\ late \in Seq(Messages) /\ toSrv \in Seq(Messages \cup Hellos) /\ evMark \in Nat
      /\ srv # "none" => \A i \in 1..Len(toSrv) :
                           toSrv[i] \in Messages /\ Message(toSrv[i], op, disk, rt, busy, effect)
  BY Numbers DEF Inv, WiresInv, Message
<1>2. late' \in Seq(Messages) /\ \A i \in 1..Len(late') : Sound(late'[i])
  <2>1. CASE late' = late
    BY <1>1, <2>1, OldSound
  <2>2. CASE Active /\ \E n \in 0..Len(toSrv) : late' = SubSeq(toSrv, 1, n)
    <3>1. PICK n \in 0..Len(toSrv) : late' = SubSeq(toSrv, 1, n)
      BY <2>2
    <3>2. Len(toSrv) \in Nat /\ n \in Int /\ 1 \in Int
      BY <1>1
    <3>3. \A i \in 1..n : toSrv[i] \in Messages /\ Message(toSrv[i], op, disk, rt, busy, effect)
      BY <1>1, <2>2, <3>2 DEF Active
    <3>4. /\ late' \in Seq(Messages) /\ Len(late') = IF 1 <= n THEN n - 1 + 1 ELSE 0
          /\ \A i \in 1..n - 1 + 1 : late'[i] = toSrv[1 + i - 1]
      BY <3>1, <3>2, <3>3, SubSeqProperties
    <3>5. n - 1 + 1 = n /\ Len(late') = n /\ \A i \in 1..n : 1 + i - 1 = i
      BY <3>2, <3>4
    <3>6. \A i \in 1..Len(late') : late'[i] = toSrv[i]
      BY <3>4, <3>5
    <3> QED BY <3>3, <3>4, <3>5, <3>6 DEF Sound
  <2> QED BY <2>1, <2>2 DEF Hangup
<1>3. toRt' = <<>> /\ toSrv' = <<>> /\ link' = "down"
  BY DEF Hangup
<1>4. FramesFrom(toRt')
  BY <1>3, FramesLeft
<1> QED BY <1>1, <1>2, <1>3, <1>4, WiresKept

\* What is saved is followed by the responses, unless it was not valid.
LEMMA SaveWires ==
  ASSUME Inv, Kept, disk'.cmd \in Nat, disk'.last \in Nat, UNCHANGED <<evMark, srv>>,
         NEW j, NEW frames \in Seq(Messages), NEW next, Save(j, frames, next),
         busy = Idle => toRt # <<>>,
         Valid(j) => \A i \in 1..Len(frames) : Sound(frames[i])
  PROVE  WiresInv'
<1>1. CASE ~Valid(j)
  BY <1>1, HangupKeeps DEF Save
<1>2. CASE Valid(j)
  <2>1. /\ late \in Seq(Messages) /\ toSrv \in Seq(Messages \cup Hellos) /\ evMark \in Nat
        /\ link = "up" /\ srv = "none" => toSrv # <<>>
    BY Numbers DEF Inv, WiresInv
  <2>2. FramesFrom(toRt')
    BY <1>2, FramesLeft DEF Save
  <2>3. UNCHANGED <<late, link>> /\ (toSrv' = toSrv \/ (link = "up" /\ toSrv' = toSrv \o frames))
    BY <1>2 DEF Save
  <2>4. CASE toSrv' = toSrv
    BY <2>1, <2>2, <2>3, <2>4, OldSound, WiresKept
  <2>5. CASE link = "up" /\ toSrv' = toSrv \o frames
    <3>1. frames \in Seq(Messages \cup Hellos)
      BY SeqMonotonic
    <3>2. /\ toSrv' \in Seq(Messages \cup Hellos)
          /\ Len(toSrv') = Len(toSrv) + Len(frames)
          /\ \A i \in 1 .. Len(toSrv) + Len(frames) :
               toSrv'[i] = IF i <= Len(toSrv) THEN toSrv[i] ELSE frames[i - Len(toSrv)]
      BY <2>1, <2>5, <3>1, ConcatProperties
    <3>3. Len(toSrv) \in Nat /\ Len(frames) \in Nat /\ (srv = "none" => Len(toSrv) > 0)
      <4>1. Len(toSrv) \in Nat /\ Len(frames) \in Nat
        BY <2>1
      <4>2. srv = "none" => toSrv # <<>>
        BY <2>1, <2>5
      <4> QED BY <2>1, <4>1, <4>2, EmptySeq
    <3>4. ASSUME NEW i \in 1..Len(toSrv'), i > 1 \/ srv' # "none"
          PROVE  Sound(toSrv'[i])
      <4>1. CASE i <= Len(toSrv)
        <5>1. i \in 1..Len(toSrv) /\ toSrv'[i] = toSrv[i]
          BY <3>2, <3>3, <4>1
        <5> QED BY <3>4, <5>1, OldSound
      <4>2. CASE ~(i <= Len(toSrv))
        <5>1. i - Len(toSrv) \in 1..Len(frames) /\ toSrv'[i] = frames[i - Len(toSrv)]
          BY <3>2, <3>3, <4>2
        <5> QED BY <1>2, <5>1
      <4> QED BY <4>1, <4>2
    <3>5. toSrv' # <<>> \/ srv # "none"
      <4>1. Len(toSrv') > 0 \/ srv # "none"
        BY <3>2, <3>3
      <4> QED BY <4>1, EmptySeq
    <3> QED BY <2>1, <2>2, <2>3, <3>2, <3>4, <3>5, OldSound, WiresKept
  <2> QED BY <2>3, <2>4, <2>5
<1> QED BY <1>1, <1>2

-------------------------------------------------------------------------------
\* Steps of the runtime.

\* The rows and the requests stand; what remains is the receiver and the wires.
LEMMA RuntimeKeeps ==
  ASSUME Inv, Kept, UNCHANGED <<op, cmdMark, evMark, current, map, call, resumeAt>>,
         {session', dying'} \subseteq SessionIds, link' \in {"up", "down"},
         srv' \in {"none", srv}, rt' \in Journals, disk' \in Journals,
         effect' \subseteq Ops, ran' \in [Ops -> Nat],
         WiresInv', JournalsInv', BusyInv', HistoryInv'
  PROVE  Inv'
<1>1. TypeOK'
  BY DEF Inv, TypeOK, SessionIds
<1>2. disk'.cmd \in Nat /\ disk'.last \in Nat /\ disk.last <= disk'.last
  BY DEF Journals, Kept
<1>3. evMark' <= disk'.last /\ resumeAt' <= evMark'
  BY <1>2, Numbers DEF Inv, RowsInv
<1>4. \A o \in Ops : Ended(o, op', disk', rt', busy', effect')
  BY <1>2, EndedKept
<1>5. RowsInv'
  BY <1>3, <1>4 DEF Inv, RowsInv
<1>6. CallsInv'
  BY DEF Inv, CallsInv
<1> QED BY <1>1, <1>5, <1>6 DEF Inv

\* A step that leaves both journals and the effects alone.
LEMMA JournalsStay ==
  ASSUME Inv, UNCHANGED <<op, cmdMark, evMark, disk, effect>>, rt' \in {rt, disk},
         busy' = Idle \/ busy' = busy
  PROVE  Kept /\ JournalsInv'
<1>1. Kept
  <2>1. \A o \in Ops : ~Source(o) => Unprepared(o, rt') /\ Unprepared(o, disk')
    BY DEF Source
  <2> QED BY <2>1, Numbers DEF Kept
<1>2. rt.cmd \in Nat /\ disk.cmd \in Nat /\ rt.last \in Nat /\ disk.last \in Nat
  BY Numbers
<1>3. \A i \in DOMAIN disk.log : Entry(disk.log[i], disk, op', disk', rt', busy', effect')
  BY <1>1, <1>2, EntryKept
<1>4. \A i \in DOMAIN rt.log : Entry(rt.log[i], rt, op', disk', rt', busy', effect')
  BY <1>1, <1>2, EntryKept
<1>5. disk.cmd <= rt.cmd /\ disk.last <= rt.last /\ rt.cmd <= cmdMark
      /\ rt.acc <= evMark /\ disk.acc <= evMark
  BY DEF Inv, JournalsInv
<1>6. disk.cmd <= cmdMark /\ disk.cmd <= disk.cmd /\ disk.last <= disk.last
  BY <1>5, Numbers
<1>7. CASE rt' = rt
  BY <1>1, <1>3, <1>4, <1>5, <1>7 DEF JournalsInv
<1>8. CASE rt' = disk
  BY <1>1, <1>3, <1>5, <1>6, <1>8 DEF JournalsInv
<1> QED BY <1>1, <1>7, <1>8

\* A new journal in memory, and in the file when it is valid.
LEMMA SaveKeeps ==
  ASSUME Inv, NEW j \in Journals, NEW frames \in Seq(Messages), NEW next \in {Idle} \cup Work,
         \/ Save(j, frames, next)
         \/ Hangup /\ rt' = j /\ disk' \in {disk, j} /\ busy' = Idle,
         UNCHANGED <<store, map, session, srv, resumeAt, call, ran>>,
         busy = Idle => toRt # <<>>,
         rt.cmd <= j.cmd, j.cmd <= cmdMark, j.acc <= evMark, rt.last <= j.last,
         effect \subseteq effect', effect' \subseteq Ops,
         \A o \in effect' : op[o].seq # 0 /\ op[o].seq <= disk.cmd,
         \A o \in Ops : ~Source(o) => (o \in effect' => o \in effect) /\ Unprepared(o, j),
         \A o \in Ops : op[o].seq <= rt.cmd /\ (busy # Idle => busy.op # o)
                        => (next # Idle => next.op # o),
         Kept => \A i \in DOMAIN j.log :
                   \/ \E k \in DOMAIN rt.log : j.log[i] = rt.log[k]
                   \/ Entry(j.log[i], j, op, disk', rt', busy', effect'),
         Kept /\ Valid(j) => \A i \in 1..Len(frames) : Sound(frames[i]),
         Valid(j) /\ next # Idle => BusyInv'
  PROVE  Inv'
<1>1. /\ rt' = j /\ disk' \in {disk, j} /\ busy' \in {Idle, next}
      /\ busy' = Idle \/ (Valid(j) /\ next # Idle)
  BY DEF Save, Hangup
<1>2. /\ j.cmd \in Nat /\ j.last \in Nat /\ j.acc \in Nat /\ disk' \in Journals
      /\ disk'.cmd \in Nat /\ disk'.last \in Nat
  BY <1>1, Numbers DEF Journals
<1>3. /\ disk.cmd <= rt.cmd /\ disk.last <= rt.last /\ disk.acc <= evMark
  BY DEF Inv, JournalsInv
<1>4. disk.cmd <= disk'.cmd /\ disk.last <= disk'.last /\ disk'.cmd <= j.cmd
      /\ disk'.last <= j.last /\ disk'.acc <= evMark
  <2>1. disk.cmd <= j.cmd /\ disk.last <= j.last
    <3>1. /\ disk.cmd \in Nat /\ disk.last \in Nat /\ rt.cmd \in Nat /\ rt.last \in Nat
      BY Numbers
    <3> QED BY <1>2, <1>3, <3>1, AtMost
  <2>2. CASE disk' = disk
    BY <1>3, <2>1, <2>2, Numbers
  <2>3. CASE disk' = j
    BY <1>2, <2>1, <2>3
  <2> QED BY <1>1, <2>2, <2>3
<1>5. Kept
  <2>1. \A o \in Ops : ~Source(o) => Unprepared(o, rt') /\ Unprepared(o, disk')
    BY <1>1 DEF Source
  <2>2. UNCHANGED op
    BY DEF store
  <2> QED BY <1>1, <1>4, <2>1, <2>2 DEF Kept
<1>6. \A i \in DOMAIN j.log : Entry(j.log[i], j, op', disk', rt', busy', effect')
  <2>1. UNCHANGED op
    BY DEF store
  <2>2. \A k \in DOMAIN rt.log : Entry(rt.log[k], j, op', disk', rt', busy', effect')
    BY <1>2, <1>5, EntryKept
  <2> QED BY <1>5, <2>1, <2>2
<1>7. JournalsInv'
  <2>1. \A i \in DOMAIN disk.log : Entry(disk.log[i], disk, op', disk', rt', busy', effect')
    <3>1. /\ disk.cmd \in Nat /\ disk.last \in Nat
          /\ disk.cmd <= disk.cmd /\ disk.last <= disk.last
      BY Numbers
    <3> QED BY <1>2, <1>5, <3>1, EntryKept
  <2>2. CASE disk' = disk
    BY <1>1, <1>4, <1>6, <2>1, <2>2 DEF JournalsInv, store
  <2>3. CASE disk' = j
    BY <1>1, <1>4, <1>6, <2>3 DEF JournalsInv, store
  <2> QED BY <1>1, <2>2, <2>3
<1>8. BusyInv'
  <2>1. CASE busy' = Idle
    BY <2>1 DEF BusyInv
  <2> QED BY <1>1, <2>1
<1>9. HistoryInv'
  <2>1. \A o \in Ops : op[o].seq <= disk.cmd => op[o].seq <= disk'.cmd
    <3>1. disk.cmd \in Nat /\ \A o \in Ops : op[o].seq \in Nat
      BY Numbers
    <3> QED BY <1>2, <1>4, <3>1, AtMost
  <2> QED BY <2>1 DEF Inv, HistoryInv, store
<1>10. WiresInv'
  <2>1. UNCHANGED <<evMark, srv>>
    BY DEF store
  <2>2. CASE Save(j, frames, next)
    BY <1>2, <1>5, <2>1, <2>2, SaveWires
  <2> QED BY <1>2, <1>5, <2>1, <2>2, HangupKeeps
<1>11. {session', dying'} \subseteq SessionIds /\ link' \in {"up", "down"}
  BY DEF Inv, TypeOK, SessionIds, Save, Hangup
<1>12. ran' \in [Ops -> Nat] /\ UNCHANGED <<op, cmdMark, evMark, current, map, call, resumeAt>>
  BY DEF Inv, TypeOK, store
<1> QED BY <1>1, <1>2, <1>5, <1>7, <1>8, <1>9, <1>10, <1>11, <1>12, RuntimeKeeps

\* The connection is gone; the process may have died with it.
LEMMA HangupInv ==
  ASSUME Inv, Hangup, UNCHANGED <<store, map, session, srv, resumeAt, call, disk, effect, ran>>,
         rt' \in {rt, disk}, busy' = Idle \/ busy' = busy
  PROVE  Inv'
<1>1. UNCHANGED <<op, cmdMark, evMark, current>>
  BY DEF store
<1>2. Kept /\ JournalsInv'
  BY <1>1, JournalsStay
<1>3. disk'.cmd \in Nat /\ disk'.last \in Nat /\ rt' \in Journals /\ disk' \in Journals
  BY Numbers
<1>4. WiresInv'
  BY <1>1, <1>2, <1>3, HangupKeeps
<1>5. BusyInv'
  BY <1>1 DEF Inv, BusyInv
<1>6. HistoryInv'
  BY <1>1 DEF Inv, HistoryInv
<1>7. /\ {session', dying'} \subseteq SessionIds /\ link' \in {"up", "down"}
      /\ effect' \subseteq Ops /\ ran' \in [Ops -> Nat]
  BY DEF Inv, TypeOK, SessionIds, Hangup
<1> QED BY <1>1, <1>2, <1>3, <1>4, <1>5, <1>6, <1>7, RuntimeKeeps

LEMMA RefuseKeeps ==
  ASSUME Inv, Refuse, UNCHANGED <<store, map, session, srv, resumeAt, call, effect, ran>>
  PROVE  Inv'
BY HangupInv DEF Refuse

LEMMA DialKeeps == ASSUME Inv, Dial PROVE Inv'
<1>1. UNCHANGED <<op, cmdMark, evMark, current, map, call, resumeAt, rt, disk, busy, effect,
                  ran, dying, toRt, late>>
  BY DEF Dial, store, receiver
<1>2. Kept /\ JournalsInv'
  BY <1>1, JournalsStay
<1>3. disk'.cmd \in Nat /\ disk'.last \in Nat /\ rt' \in Journals /\ disk' \in Journals
      /\ [cmd |-> rt.cmd, last |-> rt.last] \in Hellos /\ evMark \in Nat /\ evMark <= evMark
  BY <1>1, Numbers DEF Hellos
<1>4. WiresInv'
  <2>1. /\ toSrv' = <<[cmd |-> rt.cmd, last |-> rt.last]>> /\ srv' = "none"
    BY DEF Dial
  <2>2. toSrv' \in Seq(Messages \cup Hellos) /\ Len(toSrv') = 1 /\ toSrv' # <<>>
    BY <1>3, <2>1
  <2>3. late' \in Seq(Messages)
    BY <1>1 DEF Inv, WiresInv
  <2> QED BY <1>1, <1>2, <1>3, <2>1, <2>2, <2>3, FramesLeft, OldSound, WiresKept
<1>5. BusyInv' /\ HistoryInv'
  BY <1>1 DEF Inv, BusyInv, HistoryInv
<1>6. /\ {session', dying'} \subseteq SessionIds /\ link' \in {"up", "down"} /\ srv' = "none"
      /\ effect' \subseteq Ops /\ ran' \in [Ops -> Nat]
  BY <1>1 DEF Inv, TypeOK, SessionIds, Dial
<1> QED BY <1>1, <1>2, <1>3, <1>4, <1>5, <1>6, RuntimeKeeps

LEMMA ClosedKeeps == ASSUME Inv, Closed PROVE Inv'
BY RefuseKeeps DEF Closed, quietServer

LEMMA LoseKeeps == ASSUME Inv, Lose PROVE Inv'
BY HangupInv DEF Lose, receiver

LEMMA RuntimeCrashKeeps == ASSUME Inv, RuntimeCrash PROVE Inv'
BY HangupInv DEF RuntimeCrash

\* The operation that is executed was never executed before.
LEMMA ExecuteKeeps == ASSUME Inv, Execute PROVE Inv'
<1> DEFINE o == busy.op
<1>1. UNCHANGED <<op, cmdMark, evMark, current, map, session, srv, call, resumeAt, rt, disk,
                  link, toRt, toSrv, late, dying>>
  BY DEF Execute, quietServer, store, wires
<1>2. /\ busy # Idle /\ busy \in Work /\ o \in Ops /\ busy.phase \in {"accepted", "prepared"}
      /\ rt = disk /\ busy.seq = op[o].seq /\ busy.seq # 0 /\ busy.seq <= rt.cmd
      /\ op[o].state \in Unresolved /\ ran[o] = 0
  BY DEF Execute, Inv, BusyInv, Work
<1>3. /\ ran' = [ran EXCEPT ![o] = @ + 1] /\ effect \subseteq effect'
      /\ effect' \subseteq effect \cup {o}
      /\ busy'.op = o /\ busy'.seq = busy.seq /\ busy' \in Work
      /\ busy'.phase = "result" => o \in effect'
      /\ busy'.phase = "unavailable" => o \notin Mutations
      /\ busy'.phase \in Outcomes
  BY <1>2 DEF Execute, Work, Outcomes
<1> HIDE DEF o
<1>4. Kept
  <2>1. \A x \in Ops : ~Source(x) => /\ x \in effect' => x \in effect
                                     /\ Unprepared(x, rt') /\ Unprepared(x, disk')
    BY <1>1, <1>2, <1>3 DEF Source, o
  <2>2. \A x \in Ops : op[x].seq <= rt.cmd /\ (busy # Idle => busy.op # x)
                       => (busy' # Idle => busy'.op # x)
    BY <1>2, <1>3 DEF o
  <2> QED BY <1>1, <1>3, <2>1, <2>2, Numbers DEF Kept
<1>5. /\ rt' \in Journals /\ disk' \in Journals /\ disk'.cmd \in Nat /\ disk'.last \in Nat
      /\ disk.cmd \in Nat /\ disk.last \in Nat /\ evMark \in Nat
      /\ disk.cmd <= disk.cmd /\ disk.last <= disk.last /\ evMark <= evMark
  BY <1>1, Numbers
<1>6. JournalsInv'
  <2>1. \A i \in DOMAIN disk.log : Entry(disk.log[i], disk, op', disk', rt', busy', effect')
    BY <1>4, <1>5, EntryKept
  <2> QED BY <1>1, <1>2, <2>1 DEF Inv, JournalsInv
<1>7. WiresInv'
  <2>1. late' \in Seq(Messages) /\ toSrv' \in Seq(Messages \cup Hellos)
        /\ (link' = "up" /\ srv' = "none" => toSrv' # <<>>)
    BY <1>1 DEF Inv, WiresInv
  <2> QED BY <1>1, <1>4, <1>5, <2>1, FramesLeft, OldSound, WiresKept
<1>8. BusyInv'
  BY <1>1, <1>2, <1>3 DEF BusyInv, Outcomes
<1>9. ran' \in [Ops -> Nat] /\ ran'[o] = 1 /\ \A x \in Ops \ {o} : ran'[x] = ran[x]
  BY <1>2, <1>3 DEF Inv, TypeOK
<1>10. HistoryInv'
  BY <1>1, <1>2, <1>3, <1>9 DEF Inv, HistoryInv
<1>11. effect' \subseteq Ops /\ {session', dying'} \subseteq SessionIds /\ link' \in {"up", "down"}
  BY <1>1, <1>2, <1>3 DEF Inv, TypeOK, SessionIds
<1> QED BY <1>1, <1>4, <1>5, <1>6, <1>7, <1>8, <1>9, <1>10, <1>11, RuntimeKeeps

-------------------------------------------------------------------------------
\* What the receiver does to its journal.

NewEntry(o, n, ev) == [seq |-> n, op |-> o, first |-> ev, second |-> 0, kind |-> "open",
                       prepared |-> FALSE]

LEMMA JournalFields ==
  ASSUME NEW j \in Journals
  PROVE  /\ j.log \in Seq(Entries) /\ j.cmd \in Nat /\ j.acc \in Nat /\ j.last \in Nat
         /\ j = [cmd |-> j.cmd, acc |-> j.acc, last |-> j.last, log |-> j.log]
         /\ \A i \in DOMAIN j.log : j.log[i] \in Entries
<1>1. /\ j.log \in Seq(Entries) /\ j.cmd \in Nat /\ j.acc \in Nat /\ j.last \in Nat
      /\ j = [cmd |-> j.cmd, acc |-> j.acc, last |-> j.last, log |-> j.log]
  BY DEF Journals, Entries
<1>2. \A i \in DOMAIN j.log : j.log[i] \in Entries
  BY <1>1
<1> QED BY <1>1, <1>2

LEMMA JournaledParts ==
  ASSUME NEW j \in Journals, NEW o \in Ops, NEW n \in Nat
  PROVE  /\ Journaled(j, o, n) \in Journals /\ Journaled(j, o, n).cmd = n
         /\ Journaled(j, o, n).acc = j.acc /\ Journaled(j, o, n).last = j.last + 1
         /\ \A i \in DOMAIN Journaled(j, o, n).log :
              \/ Journaled(j, o, n).log[i] = NewEntry(o, n, j.last + 1)
              \/ \E k \in DOMAIN j.log : Journaled(j, o, n).log[i] = j.log[k]
<1> DEFINE new == NewEntry(o, n, j.last + 1)
           long == Append(j.log, new)
           short == IF Len(long) > MaxCommands THEN Tail(long) ELSE long
<1>1. /\ j.log \in Seq(Entries) /\ j.cmd \in Nat /\ j.acc \in Nat /\ j.last \in Nat
      /\ j = [cmd |-> j.cmd, acc |-> j.acc, last |-> j.last, log |-> j.log]
  BY JournalFields
<1>2. new \in Entries
  BY <1>1 DEF NewEntry, Entries
<1>3. Journaled(j, o, n) = [cmd |-> n, acc |-> j.acc, last |-> j.last + 1, log |-> short]
  BY DEF Journaled, NewEntry
<1> HIDE DEF new
<1>4. /\ long \in Seq(Entries) /\ Len(long) = Len(j.log) + 1
      /\ \A i \in 1..Len(long) : long[i] = new \/ \E k \in 1..Len(j.log) : long[i] = j.log[k]
  BY <1>1, <1>2, AppendParts
<1>5. long # <<>>
  <2>1. Len(long) # 0
    BY <1>1, <1>4
  <2> QED BY <2>1, EmptySeq
<1> HIDE DEF long
<1>6. /\ Tail(long) \in Seq(Entries)
      /\ \A i \in 1..Len(Tail(long)) : i + 1 \in 1..Len(long) /\ Tail(long)[i] = long[i + 1]
  BY <1>4, <1>5, TailParts
<1>7. /\ short \in Seq(Entries)
      /\ \A i \in 1..Len(short) : short[i] = new \/ \E k \in 1..Len(j.log) : short[i] = j.log[k]
  <2>1. CASE short = long
    BY <1>4, <2>1
  <2>2. CASE short = Tail(long)
    BY <1>4, <1>6, <2>2
  <2> QED BY <2>1, <2>2
<1> HIDE DEF short
<1>8. DOMAIN short = 1..Len(short) /\ DOMAIN j.log = 1..Len(j.log)
  BY <1>1, <1>7
<1>9. Journaled(j, o, n) \in Journals
  BY <1>1, <1>3, <1>7 DEF Journals, Entries
<1> QED BY <1>3, <1>7, <1>8, <1>9 DEF new

\* One entry changes, the others stay.
LEMMA EntryReplaced ==
  ASSUME NEW j \in Journals, NEW i \in DOMAIN j.log, NEW e \in Entries
  PROVE  /\ [j.log EXCEPT ![i] = e] \in Seq(Entries)
         /\ DOMAIN [j.log EXCEPT ![i] = e] = DOMAIN j.log
         /\ [j.log EXCEPT ![i] = e][i] = e
         /\ \A k \in DOMAIN j.log \ {i} : [j.log EXCEPT ![i] = e][k] = j.log[k]
<1>1. j.log \in Seq(Entries) /\ DOMAIN j.log = 1..Len(j.log)
  BY DEF Journals, Entries
<1>2. [j.log EXCEPT ![i] = e] \in Seq(Entries)
  BY <1>1, ExceptSeq
<1> QED BY <1>1, <1>2

Ending(e, ev, kind) == [e EXCEPT !.second = ev, !.kind = kind]
Intended(e) == [e EXCEPT !.prepared = TRUE]

LEMMA ConcludedParts ==
  ASSUME NEW j \in Journals, NEW i \in DOMAIN j.log, NEW kind \in Outcomes
  PROVE  /\ Concluded(j, i, kind) \in Journals /\ Concluded(j, i, kind).cmd = j.cmd
         /\ Concluded(j, i, kind).acc = j.acc /\ Concluded(j, i, kind).last = j.last + 1
         /\ DOMAIN Concluded(j, i, kind).log = DOMAIN j.log
         /\ Concluded(j, i, kind).log[i] = Ending(j.log[i], j.last + 1, kind)
         /\ \A k \in DOMAIN j.log \ {i} : Concluded(j, i, kind).log[k] = j.log[k]
<1> DEFINE e == [j.log[i] EXCEPT !.second = j.last + 1, !.kind = kind]
           log == [j.log EXCEPT ![i] = e]
<1>1. /\ j.log \in Seq(Entries) /\ j.cmd \in Nat /\ j.acc \in Nat /\ j.last \in Nat
      /\ j = [cmd |-> j.cmd, acc |-> j.acc, last |-> j.last, log |-> j.log]
      /\ j.log[i] \in Entries
  BY JournalFields
<1>2. e \in Entries
  <2>1. j.last + 1 \in Nat
    BY <1>1
  <2> QED BY <1>1, <2>1 DEF Entries
<1>3. Concluded(j, i, kind) = [cmd |-> j.cmd, acc |-> j.acc, last |-> j.last + 1, log |-> log]
  <2>1. Concluded(j, i, kind) = [j EXCEPT !.last = j.last + 1, !.log = log]
    BY <1>1 DEF Concluded
  <2> HIDE DEF log
  <2> QED BY <1>1, <2>1
<1> HIDE DEF e
<1>4. /\ log \in Seq(Entries) /\ DOMAIN log = DOMAIN j.log /\ log[i] = e
      /\ \A k \in DOMAIN j.log \ {i} : log[k] = j.log[k]
  BY <1>2, EntryReplaced
<1> HIDE DEF log
<1>5. Concluded(j, i, kind) \in Journals
  <2>1. j.last + 1 \in Nat
    BY <1>1
  <2> QED BY <1>1, <1>3, <1>4, <2>1 DEF Journals, Entries
<1> QED BY <1>3, <1>4, <1>5 DEF e, Ending

LEMMA PreparedParts ==
  ASSUME NEW j \in Journals, NEW i \in DOMAIN j.log
  PROVE  LET p == Prepared(j, i)
         IN  /\ p \in Journals /\ p.cmd = j.cmd /\ p.acc = j.acc /\ p.last = j.last
             /\ DOMAIN p.log = DOMAIN j.log
             /\ p.log[i] = Intended(j.log[i])
             /\ \A k \in DOMAIN j.log \ {i} : p.log[k] = j.log[k]
<1> DEFINE e == [j.log[i] EXCEPT !.prepared = TRUE]
           log == [j.log EXCEPT ![i] = e]
           p == Prepared(j, i)
<1>1. /\ j.log \in Seq(Entries) /\ j.cmd \in Nat /\ j.acc \in Nat /\ j.last \in Nat
      /\ j = [cmd |-> j.cmd, acc |-> j.acc, last |-> j.last, log |-> j.log]
      /\ j.log[i] \in Entries
  BY JournalFields
<1>2. e \in Entries
  BY <1>1 DEF Entries
<1>3. p = [cmd |-> j.cmd, acc |-> j.acc, last |-> j.last, log |-> log]
  <2>1. p = [j EXCEPT !.log = log]
    BY <1>1 DEF Prepared
  <2> HIDE DEF log, p
  <2> QED BY <1>1, <2>1
<1> HIDE DEF e, p
<1>4. /\ log \in Seq(Entries) /\ DOMAIN log = DOMAIN j.log /\ log[i] = e
      /\ \A k \in DOMAIN j.log \ {i} : log[k] = j.log[k]
  BY <1>2, EntryReplaced
<1> HIDE DEF log
<1>5. p \in Journals
  BY <1>1, <1>3, <1>4 DEF Journals, Entries
<1> QED BY <1>3, <1>4, <1>5 DEF e, p, Intended

LEMMA MarkedParts ==
  ASSUME NEW j \in Journals, NEW w \in Nat
  PROVE  LET m == [j EXCEPT !.acc = w]
         IN  m \in Journals /\ m.cmd = j.cmd /\ m.acc = w /\ m.last = j.last /\ m.log = j.log
BY DEF Journals

-------------------------------------------------------------------------------
\* What the receiver sends.

LEMMA SessionTyped ==
  ASSUME Inv
  PROVE  /\ session \in SessionIds
         /\ \A o \in Ops, kind \in Kinds, ev \in Nat : Response(o, kind, ev) \in Messages
BY DEF Inv, TypeOK, SessionIds, Response, Messages

\* A response of an entry of the journal that was saved says what the entry says.
LEMMA EntrySpeaks ==
  ASSUME Inv, UNCHANGED op, NEW e \in Entries,
         Entry(e, disk', op, disk', rt', busy', effect')
  PROVE  /\ Response(e.op, "accepted", e.first) \in Messages
         /\ Sound(Response(e.op, "accepted", e.first))
         /\ e.second # 0 => /\ Response(e.op, e.kind, e.second) \in Messages
                            /\ Sound(Response(e.op, e.kind, e.second))
<1>1. /\ e.op \in Ops /\ e.first \in Nat /\ e.second \in Nat
      /\ e.kind \in {"open"} \cup Outcomes
  BY DEF Entries
<1>2. /\ op'[e.op].seq # 0 /\ op'[e.op].seq <= disk'.cmd
      /\ e.first <= disk'.last /\ e.second <= disk'.last
      /\ Says(e.op, e.kind, op', disk', rt', busy', effect')
      /\ e.second # 0 => e.kind \in Outcomes
  BY <1>1 DEF Entry
<1>3. Says(e.op, "accepted", op', disk', rt', busy', effect')
  BY DEF Says, Outcomes
<1>4. /\ Response(e.op, "accepted", e.first) \in Messages
      /\ e.second # 0 => Response(e.op, e.kind, e.second) \in Messages
  BY <1>1, <1>2, SessionTyped DEF Kinds
<1>5. Sound(Response(e.op, "accepted", e.first))
  BY <1>2, <1>3, <1>4 DEF Sound, Message, Response
<1>6. e.second # 0 => Sound(Response(e.op, e.kind, e.second))
  BY <1>2, <1>4 DEF Sound, Message, Response
<1> QED BY <1>4, <1>5, <1>6

LEMMA OneMessage ==
  ASSUME NEW m \in Messages
  PROVE  /\ <<m>> \in Seq(Messages) /\ Len(<<m>>) = 1 /\ <<m>>[1] = m
OBVIOUS

LEMMA ReplayedParts ==
  ASSUME NEW e, Response(e.op, "accepted", e.first) \in Messages,
         e.second # 0 => Response(e.op, e.kind, e.second) \in Messages
  PROVE  /\ Replayed(e) \in Seq(Messages)
         /\ \A i \in 1..Len(Replayed(e)) :
              \/ Replayed(e)[i] = Response(e.op, "accepted", e.first)
              \/ e.second # 0 /\ Replayed(e)[i] = Response(e.op, e.kind, e.second)
<1> DEFINE a == Response(e.op, "accepted", e.first)
           b == Response(e.op, e.kind, e.second)
<1>1. CASE e.second = 0
  <2>1. Replayed(e) = <<a>> \o <<>>
    BY <1>1 DEF Replayed
  <2> HIDE DEF a
  <2>2. <<a>> \o <<>> = <<a>> /\ <<a>> \in Seq(Messages)
    BY OneMessage, ConcatEmptySeq DEF a
  <2> QED BY <2>1, <2>2, OneMessage DEF a
<1>2. CASE e.second # 0
  <2>1. Replayed(e) = <<a>> \o <<b>> /\ a \in Messages /\ b \in Messages
    BY <1>2 DEF Replayed
  <2> HIDE DEF a, b
  <2>2. <<a>> \in Seq(Messages) /\ <<b>> \in Seq(Messages) /\ Len(<<a>>) = 1 /\ Len(<<b>>) = 1
        /\ <<a>>[1] = a /\ <<b>>[1] = b
    BY <2>1, OneMessage
  <2>3. /\ <<a>> \o <<b>> \in Seq(Messages) /\ Len(<<a>> \o <<b>>) = 1 + 1
        /\ \A i \in 1 .. 1 + 1 :
             (<<a>> \o <<b>>)[i] = IF i <= 1 THEN <<a>>[i] ELSE <<b>>[i - 1]
    BY <2>2, ConcatProperties
  <2>4. \A i \in 1..Len(Replayed(e)) : Replayed(e)[i] = a \/ Replayed(e)[i] = b
    <3> SUFFICES ASSUME NEW i \in 1..Len(Replayed(e))
                 PROVE  Replayed(e)[i] = a \/ Replayed(e)[i] = b
      OBVIOUS
    <3>1. i \in 1 .. 1 + 1 /\ (i = 1 \/ i = 2)
      BY <2>1, <2>3
    <3>2. CASE i = 1
      BY <2>1, <2>2, <2>3, <3>2
    <3>3. CASE i = 2
      BY <2>1, <2>2, <2>3, <3>3
    <3> QED BY <3>1, <3>2, <3>3
  <2> QED BY <1>2, <2>1, <2>3, <2>4 DEF a, b
<1> QED BY <1>1, <1>2

\* What is sent again is finite.
LEMMA UnseenFinite ==
  ASSUME NEW j \in Journals, NEW w
  PROVE  IsFiniteSet(Unseen(j, w))
<1> DEFINE D == DOMAIN j.log
           F == {i \in D : j.log[i].second # 0}
           A(i) == Response(j.log[i].op, "accepted", j.log[i].first)
           B(i) == Response(j.log[i].op, j.log[i].kind, j.log[i].second)
           as == {A(i) : i \in D}
           bs == {B(i) : i \in F}
<1>1. IsFiniteSet(D)
  <2>1. D = 1..Len(j.log) /\ Len(j.log) \in Int /\ 1 \in Int
    BY JournalFields
  <2> QED BY <2>1, FS_Interval
<1>2. IsFiniteSet(F)
  BY <1>1, FS_Subset
<1>3. IsFiniteSet(as)
  <2>1. [i \in D |-> A(i)] \in Surjection(D, as)
    <3> HIDE DEF A, D
    <3> QED BY DEF Surjection
  <2> QED BY <1>1, <2>1, FS_Surjection
<1>4. IsFiniteSet(bs)
  <2>1. [i \in F |-> B(i)] \in Surjection(F, bs)
    <3> HIDE DEF B, F
    <3> QED BY DEF Surjection
  <2> QED BY <1>2, <2>1, FS_Surjection
<1>5. IsFiniteSet(as \cup bs)
  BY <1>3, <1>4, FS_Union
<1>6. Unseen(j, w) \subseteq as \cup bs
  BY DEF Unseen
<1> QED BY <1>5, <1>6, FS_Subset

LEMMA ResentParts ==
  ASSUME Inv, NEW j \in Journals, NEW w, NEW frames \in Resent(j, w),
         \A i \in DOMAIN j.log : j.log[i].second # 0 => j.log[i].kind # "open"
  PROVE  /\ frames \in Seq(Messages)
         /\ \A n \in 1..Len(frames) : \E i \in DOMAIN j.log :
              \/ frames[n] = Response(j.log[i].op, "accepted", j.log[i].first)
              \/ /\ j.log[i].second # 0
                 /\ frames[n] = Response(j.log[i].op, j.log[i].kind, j.log[i].second)
<1> DEFINE U == Unseen(j, w)
<1>1. Cardinality(U) \in Nat
  BY UnseenFinite, FS_CardinalityType
<1>2. frames \in [1..Cardinality(U) -> U]
  BY DEF Resent
<1>3. frames \in Seq(U)
  BY <1>1, <1>2
<1>4. \A m \in U : \E i \in DOMAIN j.log :
              \/ m = Response(j.log[i].op, "accepted", j.log[i].first)
              \/ j.log[i].second # 0 /\ m = Response(j.log[i].op, j.log[i].kind, j.log[i].second)
  BY DEF Unseen
<1> HIDE DEF U
<1>5. U \subseteq Messages
  <2>1. \A i \in DOMAIN j.log :
          /\ j.log[i].op \in Ops /\ j.log[i].first \in Nat /\ j.log[i].second \in Nat
          /\ "accepted" \in Kinds /\ (j.log[i].second # 0 => j.log[i].kind \in Kinds)
    BY JournalFields DEF Entries, Kinds
  <2>2. \A i \in DOMAIN j.log :
          /\ Response(j.log[i].op, "accepted", j.log[i].first) \in Messages
          /\ j.log[i].second # 0 =>
               Response(j.log[i].op, j.log[i].kind, j.log[i].second) \in Messages
    BY <2>1, SessionTyped
  <2> QED BY <1>4, <2>2
<1> QED BY <1>3, <1>4, <1>5, SeqMonotonic

\* What the receiver has just read.
LEMMA ReadParts ==
  ASSUME Inv, NEW t, Reads(t)
  PROVE  /\ busy = Idle /\ toRt # <<>> /\ Head(toRt) \in Frames /\ Frame(Head(toRt), op, evMark)
         /\ Head(toRt).type = t
<1>1. toRt \in Seq(Frames) /\ toRt # <<>>
  BY DEF Reads, Inv, WiresInv
<1>2. Head(toRt) = toRt[1] /\ 1 \in 1..Len(toRt) /\ Head(toRt) \in Frames
  BY <1>1, TailParts
<1> QED BY <1>1, <1>2 DEF Reads, Inv, WiresInv

-------------------------------------------------------------------------------
\* The receiver's handlers.

\* Responses of the journal are repeated, at most the watermark moves.
LEMMA SameLogKeeps ==
  ASSUME Inv, NEW j \in Journals, NEW frames \in Seq(Messages), Save(j, frames, Idle),
         UNCHANGED <<quietServer, effect, ran>>, busy = Idle, toRt # <<>>,
         j.cmd = rt.cmd, j.last = rt.last, j.acc <= evMark, j.log = rt.log,
         \A n \in 1..Len(frames) : \E i \in DOMAIN j.log :
           \/ frames[n] = Response(j.log[i].op, "accepted", j.log[i].first)
           \/ /\ j.log[i].second # 0
              /\ frames[n] = Response(j.log[i].op, j.log[i].kind, j.log[i].second)
  PROVE  Inv'
<1>1. UNCHANGED <<store, map, session, srv, resumeAt, call, ran>> /\ UNCHANGED op
  BY DEF quietServer, store
<1>2. /\ rt.cmd <= j.cmd /\ j.cmd <= cmdMark /\ rt.last <= j.last
      /\ effect \subseteq effect' /\ effect' \subseteq Ops
      /\ \A o \in effect' : op[o].seq # 0 /\ op[o].seq <= disk.cmd
  <2>1. rt.cmd <= rt.cmd /\ rt.last <= rt.last
    BY Numbers
  <2> QED BY <2>1 DEF Inv, JournalsInv, HistoryInv, TypeOK
<1>3. \A o \in Ops : ~Source(o) => (o \in effect' => o \in effect) /\ Unprepared(o, j)
  BY DEF Source, Unprepared
<1>4. ASSUME Kept, Valid(j)
      PROVE  \A n \in 1..Len(frames) : Sound(frames[n])
  <2>1. disk' = j
    BY <1>4 DEF Save
  <2>2. disk'.cmd \in Nat /\ disk'.last \in Nat /\ rt.cmd <= disk'.cmd /\ rt.last <= disk'.last
    BY <1>2, <2>1, JournalFields DEF Journals
  <2>3. \A i \in DOMAIN rt.log : Entry(rt.log[i], disk', op', disk', rt', busy', effect')
    BY <1>4, <2>2, EntryKept
  <2>4. \A i \in DOMAIN j.log : j.log[i] \in Entries
    BY JournalFields
  <2>5. \A i \in DOMAIN j.log :
          /\ Sound(Response(j.log[i].op, "accepted", j.log[i].first))
          /\ j.log[i].second # 0 =>
               Sound(Response(j.log[i].op, j.log[i].kind, j.log[i].second))
    BY <1>1, <2>3, <2>4, EntrySpeaks
  <2> QED BY <2>5
<1> QED BY <1>1, <1>2, <1>3, <1>4, SaveKeeps

LEMMA OpenEntries ==
  ASSUME Inv
  PROVE  /\ \A i \in DOMAIN rt.log : /\ rt.log[i] \in Entries
                                     /\ Entry(rt.log[i], rt, op, disk, rt, busy, effect)
                                     /\ rt.log[i].second = 0 <=> rt.log[i].kind = "open"
BY Numbers, JournalFields DEF Inv, JournalsInv, Entry

LEMMA BindKeeps == ASSUME Inv, Bind PROVE Inv'
<1> DEFINE w == Head(toRt).ev
           j == [rt EXCEPT !.acc = w]
<1>1. /\ busy = Idle /\ toRt # <<>> /\ w \in Nat /\ w <= evMark
      /\ UNCHANGED <<quietServer, effect, ran>>
  BY ReadParts DEF Bind, Frame, Frames
<1>2. CASE w < rt.acc \/ w > rt.last
  <2>1. Refuse
    BY <1>2 DEF Bind
  <2> QED BY <1>1, <2>1, RefuseKeeps DEF quietServer
<1>3. CASE ~(w < rt.acc \/ w > rt.last)
  <2>1. PICK frames \in Resent(j, w) : Save(j, frames, Idle)
    BY <1>3 DEF Bind
  <2>2. j \in Journals /\ j.cmd = rt.cmd /\ j.acc = w /\ j.last = rt.last /\ j.log = rt.log
    BY <1>1, Numbers, MarkedParts
  <2> HIDE DEF w, j
  <2>3. \A i \in DOMAIN j.log : j.log[i].second # 0 => j.log[i].kind # "open"
    BY <2>2, OpenEntries
  <2>4. /\ frames \in Seq(Messages)
        /\ \A n \in 1..Len(frames) : \E i \in DOMAIN j.log :
             \/ frames[n] = Response(j.log[i].op, "accepted", j.log[i].first)
             \/ /\ j.log[i].second # 0
                /\ frames[n] = Response(j.log[i].op, j.log[i].kind, j.log[i].second)
    BY <2>1, <2>2, <2>3, ResentParts
  <2> QED BY <1>1, <2>1, <2>2, <2>4, SameLogKeeps
<1> QED BY <1>2, <1>3

LEMMA AcknowledgeKeeps == ASSUME Inv, Acknowledge PROVE Inv'
<1> DEFINE w == Head(toRt).ev
           j == [rt EXCEPT !.acc = w]
<1>1. /\ busy = Idle /\ toRt # <<>> /\ w \in Nat /\ w <= evMark
      /\ UNCHANGED <<quietServer, effect, ran>>
  BY ReadParts DEF Acknowledge, Frame, Frames
<1>2. CASE w < rt.acc \/ w > rt.last
  <2>1. Refuse
    BY <1>2 DEF Acknowledge
  <2> QED BY <1>1, <2>1, RefuseKeeps DEF quietServer
<1>3. CASE ~(w < rt.acc \/ w > rt.last)
  <2>1. PICK frames : frames = <<>> /\ Save(j, frames, Idle)
    BY <1>3 DEF Acknowledge
  <2>2. j \in Journals /\ j.cmd = rt.cmd /\ j.acc = w /\ j.last = rt.last /\ j.log = rt.log
    BY <1>1, Numbers, MarkedParts
  <2>3. frames \in Seq(Messages) /\ Len(frames) = 0
    BY <2>1, EmptySeq
  <2> HIDE DEF w, j
  <2>4. \A n \in 1..Len(frames) : FALSE
    BY <2>3
  <2> QED BY <1>1, <2>1, <2>2, <2>3, <2>4, SameLogKeeps
<1> QED BY <1>2, <1>3

\* An entry is concluded: what its new kind says must hold.
LEMMA ConcludeKeeps ==
  ASSUME Inv, NEW i \in DOMAIN rt.log, NEW kind \in Outcomes, rt.log[i].second = 0,
         NEW frames \in Seq(Messages), Save(Concluded(rt, i, kind), frames, Idle),
         UNCHANGED <<quietServer, ran>>, busy = Idle => toRt # <<>>,
         effect' = effect \/ (rt.log[i].prepared /\ effect' = effect \cup {rt.log[i].op}),
         kind = "result" /\ rt.log[i].op \in Mutations => rt.log[i].op \in effect',
         kind = "unavailable" /\ rt.log[i].op \in Mutations =>
           /\ op[rt.log[i].op].seq <= disk.cmd
           /\ rt.log[i].op \notin effect' /\ Unprepared(rt.log[i].op, rt)
           /\ Unprepared(rt.log[i].op, disk),
         \A n \in 1..Len(frames) :
           \/ frames[n] = Response(rt.log[i].op, "accepted", rt.log[i].first)
           \/ frames[n] = Response(rt.log[i].op, kind, rt.last + 1)
  PROVE  Inv'
<1> DEFINE j == Concluded(rt, i, kind)
           e == rt.log[i]
           x == j.log[i]
<1>1. UNCHANGED <<store, map, session, srv, resumeAt, call, ran>> /\ UNCHANGED op
  BY DEF quietServer, store
<1>2. /\ j \in Journals /\ j.cmd = rt.cmd /\ j.acc = rt.acc /\ j.last = rt.last + 1
      /\ DOMAIN j.log = DOMAIN rt.log
      /\ x = Ending(e, rt.last + 1, kind)
      /\ \A k \in DOMAIN rt.log \ {i} : j.log[k] = rt.log[k]
  <2>1. rt \in Journals
    BY Numbers
  <2> QED BY <2>1, ConcludedParts
<1>3. /\ e \in Entries /\ e.op \in Ops /\ e.seq \in Nat /\ e.first \in Nat
      /\ Entry(e, rt, op, disk, rt, busy, effect)
      /\ rt.cmd \in Nat /\ rt.last \in Nat /\ kind # "open"
  BY OpenEntries, Numbers DEF Entries, Outcomes
<1> HIDE DEF j
<1>4. /\ x.op = e.op /\ x.seq = e.seq /\ x.first = e.first /\ x.second = rt.last + 1
      /\ x.kind = kind /\ x.prepared = e.prepared /\ x \in Entries
  <2>1. rt.last + 1 \in Nat
    BY <1>3
  <2> HIDE DEF e, x
  <2> QED BY <1>2, <1>3, <2>1 DEF Entries, Ending
<1> HIDE DEF e, x
<1>5. Save(j, frames, Idle) /\ rt' = j /\ busy' = Idle /\ (disk' = disk \/ disk' = j)
  BY DEF Save, Hangup, j
<1>6. /\ rt.cmd <= j.cmd /\ j.cmd <= cmdMark /\ rt.last <= j.last /\ j.acc <= evMark
      /\ effect \subseteq effect' /\ effect' \subseteq Ops
      /\ \A o \in effect' : op[o].seq # 0 /\ op[o].seq <= disk.cmd
  <2>1. e.prepared => op[e.op].seq # 0 /\ op[e.op].seq <= disk.cmd
    BY <1>3 DEF Entry
  <2>2. rt.cmd <= j.cmd /\ rt.last <= j.last
    BY <1>2, <1>3
  <2> QED BY <1>2, <1>3, <2>1, <2>2 DEF Inv, JournalsInv, HistoryInv, TypeOK, e
<1>7. \A o : Unprepared(o, j) <=> Unprepared(o, rt)
  <2>1. \A k \in DOMAIN rt.log : j.log[k].op = rt.log[k].op /\ j.log[k].prepared = rt.log[k].prepared
    BY <1>2, <1>4 DEF e, x
  <2> QED BY <1>2, <2>1 DEF Unprepared
<1>8. \A o \in Ops : ~Source(o) => (o \in effect' => o \in effect) /\ Unprepared(o, j)
  <2>1. e.prepared => ~Unprepared(e.op, rt)
    BY DEF Unprepared, e
  <2> QED BY <1>7, <2>1 DEF Source, e
<1>9. ASSUME Kept, NEW k, k = rt' \/ (k = disk' /\ disk' = j)
      PROVE  Entry(x, k, op, disk', rt', busy', effect')
  <2>1. k = j
    BY <1>5, <1>9
  <2>2. x.seq # 0 /\ x.seq <= k.cmd /\ x.seq = op[x.op].seq
    BY <1>2, <1>3, <1>4, <2>1 DEF Entry
  <2>3. x.first <= k.last /\ x.second <= k.last
    BY <1>2, <1>3, <1>4, <2>1 DEF Entry
  <2>4. x.second # 0 /\ x.kind # "open"
    BY <1>3, <1>4
  <2>5. x.prepared => x.seq <= disk'.cmd
    <3>1. e.prepared => e.seq <= disk.cmd
      BY <1>3 DEF Entry
    <3>2. disk.cmd <= disk'.cmd /\ disk'.cmd \in Nat /\ disk.cmd \in Nat
      BY <1>2, <1>3, <1>5, <1>9, Numbers DEF Kept
    <3> QED BY <1>3, <1>4, <3>1, <3>2
  <2>6. Says(x.op, x.kind, op, disk', rt', busy', effect')
    <3>1. kind = "unavailable" /\ e.op \in Mutations =>
            op[e.op].seq <= disk'.cmd /\ Spared(e.op, disk', rt', effect')
      <4>1. op[e.op].seq <= disk.cmd /\ disk.cmd <= disk'.cmd => op[e.op].seq <= disk'.cmd
        <5>1. disk.cmd \in Nat /\ rt.cmd \in Nat /\ op[e.op].seq \in Nat
          BY <1>3, Numbers
        <5>2. disk'.cmd \in Nat
          BY <1>2, <1>5, <1>9, <5>1
        <5> QED BY <5>1, <5>2, AtMost
      <4> QED BY <1>5, <1>7, <1>9, <4>1 DEF Spared, Kept, e
    <3> QED BY <1>4, <1>5, <3>1 DEF Says, e
  <2> QED BY <2>2, <2>3, <2>4, <2>5, <2>6 DEF Entry
<1>10. Kept => \A k \in DOMAIN j.log :
                 \/ \E l \in DOMAIN rt.log : j.log[k] = rt.log[l]
                 \/ Entry(j.log[k], j, op, disk', rt', busy', effect')
  BY <1>2, <1>5, <1>9 DEF x
<1>11. ASSUME Kept, Valid(j)
       PROVE  \A n \in 1..Len(frames) : Sound(frames[n])
  <2>1. disk' = j
    BY <1>5, <1>11 DEF Save
  <2>2. Entry(x, disk', op, disk', rt', busy', effect')
    BY <1>9, <1>11, <2>1
  <2>3. /\ Sound(Response(x.op, "accepted", x.first))
        /\ x.second # 0 => Sound(Response(x.op, x.kind, x.second))
    BY <1>1, <1>4, <2>2, EntrySpeaks
  <2> QED BY <1>3, <1>4, <2>3 DEF e
<1> QED BY <1>1, <1>2, <1>5, <1>6, <1>8, <1>10, <1>11, SaveKeeps

LEMMA ReplayKeeps == ASSUME Inv, Replay PROVE Inv'
<1> DEFINE n == Head(toRt).seq
<1>1. /\ busy = Idle /\ toRt # <<>> /\ UNCHANGED <<quietServer, ran>>
  BY ReadParts DEF Replay
<1>2. CASE Places(rt, n) = {}
  <2>1. Refuse /\ UNCHANGED effect
    BY <1>2 DEF Replay
  <2> QED BY <1>1, <2>1, RefuseKeeps DEF quietServer
<1>3. CASE Places(rt, n) # {}
  <2>1. PICK i \in Places(rt, n) :
          IF rt.log[i].second # 0
          THEN Save(rt, Replayed(rt.log[i]), Idle) /\ UNCHANGED effect
          ELSE \E kind \in {"uncertain"} \cup (IF rt.log[i].prepared THEN {"result"} ELSE {}) :
            /\ Save(Concluded(rt, i, kind), Replayed(Concluded(rt, i, kind).log[i]), Idle)
            /\ effect' \in {effect} \cup
                 (IF rt.log[i].prepared THEN {effect \cup {rt.log[i].op}} ELSE {})
            /\ kind = "result" => rt.log[i].op \in effect'
    BY <1>3 DEF Replay
  <2>2. i \in DOMAIN rt.log /\ rt \in Journals
    BY Numbers DEF Places
  <2>3. rt.log[i] \in Entries /\ (rt.log[i].second = 0 <=> rt.log[i].kind = "open")
    BY <2>2, OpenEntries
  <2>4. CASE rt.log[i].second # 0
    <3>1. PICK frames : frames = Replayed(rt.log[i]) /\ Save(rt, frames, Idle)
      BY <2>1, <2>4
    <3>2. /\ Response(rt.log[i].op, "accepted", rt.log[i].first) \in Messages
          /\ Response(rt.log[i].op, rt.log[i].kind, rt.log[i].second) \in Messages
      BY <2>3, <2>4, SessionTyped DEF Entries, Kinds
    <3>3. /\ frames \in Seq(Messages)
          /\ \A k \in 1..Len(frames) :
              \/ frames[k] = Response(rt.log[i].op, "accepted", rt.log[i].first)
              \/ frames[k] = Response(rt.log[i].op, rt.log[i].kind, rt.log[i].second)
      BY <3>1, <3>2, ReplayedParts
    <3>4. rt.acc <= evMark
      BY DEF Inv, JournalsInv
    <3> QED BY <1>1, <2>1, <2>2, <2>4, <3>1, <3>3, <3>4, SameLogKeeps
  <2>5. CASE rt.log[i].second = 0
    <3> DEFINE e == rt.log[i]
    <3>1. PICK kind \in Outcomes :
            /\ kind = "uncertain" \/ kind = "result"
            /\ Save(Concluded(rt, i, kind), Replayed(Concluded(rt, i, kind).log[i]), Idle)
            /\ effect' = effect \/ (e.prepared /\ effect' = effect \cup {e.op})
            /\ kind = "result" => e.op \in effect'
      BY <2>1, <2>5 DEF Outcomes
    <3>2. PICK x, frames : /\ x = Concluded(rt, i, kind).log[i] /\ frames = Replayed(x)
                           /\ Save(Concluded(rt, i, kind), frames, Idle)
      BY <3>1
    <3>3. x = Ending(e, rt.last + 1, kind)
      BY <2>2, <3>2, ConcludedParts
    <3>4. rt.last + 1 \in Nat /\ rt.last + 1 # 0 /\ e.first \in Nat /\ e.op \in Ops
      <4>1. rt.last \in Nat
        BY Numbers
      <4> QED BY <2>3, <4>1 DEF Entries
    <3>5. x.op = e.op /\ x.first = e.first /\ x.second = rt.last + 1 /\ x.kind = kind
      <4> HIDE DEF e
      <4> QED BY <2>3, <3>3 DEF Entries, Ending, e
    <3> HIDE DEF e
    <3>6. /\ Response(x.op, "accepted", x.first) \in Messages
          /\ Response(x.op, x.kind, x.second) \in Messages
      BY <3>4, <3>5, SessionTyped DEF Kinds
    <3>7. /\ frames \in Seq(Messages)
          /\ \A k \in 1..Len(frames) : \/ frames[k] = Response(e.op, "accepted", e.first)
                                       \/ frames[k] = Response(e.op, kind, rt.last + 1)
      BY <3>2, <3>5, <3>6, ReplayedParts
    <3> QED BY <1>1, <2>2, <2>5, <3>1, <3>2, <3>7, ConcludeKeeps DEF e
  <2> QED BY <2>4, <2>5
<1> QED BY <1>2, <1>3

\* The command in execution has open entries only.
LEMMA BusyParts ==
  ASSUME Inv, busy # Idle
  PROVE  /\ busy \in Work /\ busy.op \in Ops /\ busy.seq \in Nat /\ rt = disk
         /\ busy.seq = op[busy.op].seq /\ busy.seq # 0 /\ busy.seq <= rt.cmd
         /\ op[busy.op].state \in Unresolved
         /\ \A i \in Places(rt, busy.seq) :
              i \in DOMAIN rt.log /\ rt.log[i].op = busy.op /\ rt.log[i].second = 0
<1>1. /\ busy \in Work /\ busy.op \in Ops /\ busy.seq \in Nat /\ rt = disk
      /\ busy.seq = op[busy.op].seq /\ busy.seq # 0 /\ busy.seq <= rt.cmd
      /\ op[busy.op].state \in Unresolved
  BY DEF Inv, BusyInv, Work
<1>2. ASSUME NEW i \in Places(rt, busy.seq)
      PROVE  i \in DOMAIN rt.log /\ rt.log[i].op = busy.op /\ rt.log[i].second = 0
  <2>1. i \in DOMAIN rt.log /\ rt.log[i].seq = busy.seq
    BY DEF Places
  <2>2. rt.log[i] \in Entries /\ Entry(rt.log[i], rt, op, disk, rt, busy, effect)
    BY <2>1, OpenEntries
  <2>3. rt.log[i].op \in Ops /\ rt.log[i].kind \in {"open"} \cup Outcomes
    BY <2>2 DEF Entries
  <2>4. op[rt.log[i].op].seq = op[busy.op].seq /\ op[busy.op].seq # 0
    BY <1>1, <2>1, <2>2 DEF Entry
  <2>5. rt.log[i].op = busy.op
    BY <1>1, <2>3, <2>4 DEF Inv, RowsInv
  <2>6. rt.log[i].kind \notin Outcomes
    BY <2>2, <2>5 DEF Entry, Says
  <2> QED BY <2>1, <2>2, <2>3, <2>5, <2>6 DEF Entry
<1> QED BY <1>1, <1>2

LEMMA ConcludesKeeps == ASSUME Inv, Conclude PROVE Inv'
<1>1. /\ busy.phase \in Outcomes /\ UNCHANGED <<quietServer, effect, ran>>
      /\ \E i \in Places(rt, busy.seq) :
           Save(Concluded(rt, i, busy.phase), <<Response(busy.op, busy.phase, rt.last + 1)>>, Idle)
  BY DEF Conclude
<1>2. busy # Idle
  BY <1>1 DEF Idle, Outcomes
<1>3. PICK i \in Places(rt, busy.seq) :
        Save(Concluded(rt, i, busy.phase), <<Response(busy.op, busy.phase, rt.last + 1)>>, Idle)
  BY <1>1
<1>4. PICK frames :
        /\ frames = <<Response(busy.op, busy.phase, rt.last + 1)>>
        /\ Save(Concluded(rt, i, busy.phase), frames, Idle)
  BY <1>3
<1>5. /\ i \in DOMAIN rt.log /\ rt.log[i].op = busy.op /\ rt.log[i].second = 0 /\ busy.op \in Ops
      /\ busy.phase = "result" => busy.op \in effect
      /\ busy.phase = "unavailable" => busy.op \notin Mutations
  BY <1>2, BusyParts DEF Inv, BusyInv
<1>6. Response(busy.op, busy.phase, rt.last + 1) \in Messages
  <2>1. rt.last + 1 \in Nat
    BY Numbers
  <2> QED BY <1>1, <1>5, <2>1, SessionTyped DEF Kinds
<1>7. /\ frames \in Seq(Messages)
      /\ \A n \in 1..Len(frames) : frames[n] = Response(busy.op, busy.phase, rt.last + 1)
  BY <1>4, <1>6
<1>8. /\ busy.phase = "result" => rt.log[i].op \in effect'
      /\ busy.phase = "unavailable" => rt.log[i].op \notin Mutations
      /\ \A n \in 1..Len(frames) : frames[n] = Response(rt.log[i].op, busy.phase, rt.last + 1)
      /\ UNCHANGED <<quietServer, ran>> /\ effect' = effect
  BY <1>1, <1>5, <1>7
<1> QED BY <1>1, <1>2, <1>4, <1>5, <1>7, <1>8, ConcludeKeeps

\* The intent is journaled, or the refusal.
LEMMA PrepareKeeps == ASSUME Inv, Prepare PROVE Inv'
<1>1. /\ busy.phase = "accepted" /\ busy.op \in Mutations /\ busy # Idle
      /\ UNCHANGED <<quietServer, ran>> /\ effect' = effect
  BY DEF Prepare, Idle
<1>2. PICK i \in Places(rt, busy.seq) :
        \/ Save(Prepared(rt, i), <<>>, [busy EXCEPT !.phase = "prepared"])
        \/ Save(Concluded(rt, i, "unavailable"),
                <<Response(busy.op, "unavailable", rt.last + 1)>>, Idle)
  BY DEF Prepare
<1>3. /\ busy \in Work /\ busy.op \in Ops /\ rt = disk /\ i \in DOMAIN rt.log /\ rt \in Journals
      /\ busy.seq = op[busy.op].seq /\ busy.seq # 0 /\ busy.seq <= rt.cmd
      /\ op[busy.op].state \in Unresolved /\ ran[busy.op] = 0
      /\ rt.log[i].op = busy.op /\ rt.log[i].second = 0 /\ rt.log[i] \in Entries
      /\ Unprepared(busy.op, rt) /\ busy.op \notin effect
      /\ Entry(rt.log[i], rt, op, disk, rt, busy, effect)
  BY <1>1, Numbers, BusyParts, OpenEntries DEF Inv, BusyInv
<1>4. CASE Save(Concluded(rt, i, "unavailable"),
                <<Response(busy.op, "unavailable", rt.last + 1)>>, Idle)
  <2>1. PICK frames : /\ frames = <<Response(busy.op, "unavailable", rt.last + 1)>>
                      /\ Save(Concluded(rt, i, "unavailable"), frames, Idle)
    BY <1>4
  <2>2. rt.last + 1 \in Nat /\ "unavailable" \in Kinds /\ "unavailable" \in Outcomes
    BY Numbers DEF Kinds, Outcomes
  <2>3. Response(busy.op, "unavailable", rt.last + 1) \in Messages
    BY <1>3, <2>2, SessionTyped
  <2>4. /\ frames \in Seq(Messages)
        /\ \A n \in 1..Len(frames) :
             frames[n] = Response(rt.log[i].op, "unavailable", rt.last + 1)
    BY <1>3, <2>1, <2>3
  <2>5. /\ op[rt.log[i].op].seq <= disk.cmd /\ rt.log[i].op \notin effect'
        /\ Unprepared(rt.log[i].op, rt) /\ Unprepared(rt.log[i].op, disk)
    BY <1>1, <1>3
  <2> QED BY <1>1, <1>3, <2>1, <2>2, <2>4, <2>5, ConcludeKeeps
<1>5. CASE Save(Prepared(rt, i), <<>>, [busy EXCEPT !.phase = "prepared"])
  <2>1. PICK j, frames, next : /\ j = Prepared(rt, i) /\ frames = <<>>
                               /\ next = [busy EXCEPT !.phase = "prepared"]
                               /\ Save(j, frames, next)
    BY <1>5
  <2>2. /\ j \in Journals /\ j.cmd = rt.cmd /\ j.acc = rt.acc /\ j.last = rt.last
        /\ DOMAIN j.log = DOMAIN rt.log /\ j.log[i] = Intended(rt.log[i])
        /\ \A k \in DOMAIN rt.log \ {i} : j.log[k] = rt.log[k]
    BY <1>3, <2>1, PreparedParts
  <2>3. /\ next \in Work /\ next # Idle /\ next.op = busy.op /\ next.seq = busy.seq
        /\ next.phase = "prepared"
    BY <1>3, <2>1 DEF Work, Idle
  <2>4. frames \in Seq(Messages) /\ \A n \in 1..Len(frames) : FALSE
    <3>1. frames \in Seq(Messages) /\ Len(frames) = 0
      BY <2>1, EmptySeq
    <3> QED BY <3>1
  <2>5. UNCHANGED <<store, map, session, srv, resumeAt, call, ran>> /\ UNCHANGED op
    BY <1>1 DEF quietServer, store
  <2>6. /\ rt.cmd <= j.cmd /\ j.cmd <= cmdMark /\ rt.last <= j.last /\ j.acc <= evMark
        /\ effect \subseteq effect' /\ effect' \subseteq Ops
        /\ \A o \in effect' : op[o].seq # 0 /\ op[o].seq <= disk.cmd
    <3>1. rt.cmd <= rt.cmd /\ rt.last <= rt.last
      BY Numbers
    <3> QED BY <1>1, <2>2, <3>1 DEF Inv, JournalsInv, HistoryInv, TypeOK
  <2>7. /\ j.log[i].op = busy.op /\ j.log[i].seq = rt.log[i].seq /\ j.log[i].second = 0
        /\ j.log[i].kind = rt.log[i].kind /\ j.log[i].first = rt.log[i].first
    BY <1>3, <2>2 DEF Entries, Intended
  <2>8. \A o \in Ops : ~Source(o) => (o \in effect' => o \in effect) /\ Unprepared(o, j)
    <3> SUFFICES ASSUME NEW o \in Ops, ~Source(o)
                 PROVE  Unprepared(o, j)
      BY <1>1
    <3>1. o # busy.op /\ Unprepared(o, rt)
      BY <1>1 DEF Source
    <3> QED BY <2>2, <2>7, <3>1 DEF Unprepared
  <2>9. ASSUME Kept
        PROVE  Entry(j.log[i], j, op, disk', rt', busy', effect')
    <3>1. rt.log[i].kind = "open"
      BY <1>3 DEF Entry
    <3>2. Says(j.log[i].op, j.log[i].kind, op, disk', rt', busy', effect')
      BY <2>7, <3>1 DEF Says, Outcomes
    <3>3. rt.log[i].seq <= disk'.cmd
      <4>1. disk'.cmd \in Nat
        <5>1. disk' = disk \/ disk' = j
          BY <2>1 DEF Save, Hangup
        <5> QED BY <2>2, <5>1, Numbers
      <4>2. rt.log[i].seq \in Nat /\ rt.log[i].seq <= disk.cmd /\ disk.cmd \in Nat
            /\ disk.cmd <= disk'.cmd
        BY <1>3, <2>9, Numbers DEF Entries, Entry, Kept
      <4> QED BY <4>1, <4>2
    <3> QED BY <1>3, <2>2, <2>7, <3>1, <3>2, <3>3 DEF Entry
  <2>10. ASSUME Valid(j)
         PROVE  BusyInv'
    <3>1. rt' = j /\ disk' = j /\ busy' = next
      BY <2>1, <2>10 DEF Save
    <3>2. next.seq = op[next.op].seq /\ next.seq # 0 /\ next.seq <= j.cmd
      BY <1>3, <2>2, <2>3
    <3>3. op[next.op].state \in Unresolved /\ ran[next.op] = 0
      BY <1>3, <2>3
    <3>4. op' = op /\ ran' = ran
      BY <2>5
    <3>5. /\ busy' \in Work /\ busy'.phase = "prepared" /\ rt' = disk' /\ rt' = j
          /\ busy'.seq = op'[busy'.op].seq /\ busy'.seq # 0 /\ busy'.seq <= rt'.cmd
          /\ op'[busy'.op].state \in Unresolved /\ ran'[busy'.op] = 0
      BY <2>3, <3>1, <3>2, <3>3, <3>4
    <3> QED BY <3>5 DEF BusyInv
  <2>11. Kept => \A k \in DOMAIN j.log :
                   \/ \E l \in DOMAIN rt.log : j.log[k] = rt.log[l]
                   \/ Entry(j.log[k], j, op, disk', rt', busy', effect')
    BY <2>2, <2>9
  <2>12. /\ \A o \in Ops : op[o].seq <= rt.cmd /\ (busy # Idle => busy.op # o)
                           => (next # Idle => next.op # o)
         /\ busy = Idle => toRt # <<>>
    BY <1>1, <2>3
  <2>13. Kept /\ Valid(j) => \A n \in 1..Len(frames) : Sound(frames[n])
    BY <2>4
  <2>14. Valid(j) /\ next # Idle => BusyInv'
    BY <2>10
  <2>15. next \in {Idle} \cup Work /\ j \in Journals /\ frames \in Seq(Messages)
    BY <2>2, <2>3, <2>4
  <2> QED BY <2>1, <2>5, <2>6, <2>8, <2>11, <2>12, <2>13, <2>14, <2>15, SaveKeeps
<1> QED BY <1>2, <1>4, <1>5

\* A command that is new to the runtime was never executed, and its row is unresolved.
LEMMA NewCommand ==
  ASSUME Inv, NEW o \in Ops, op[o].seq > rt.cmd
  PROVE  /\ ran[o] = 0 /\ o \notin effect /\ op[o].state \in Unresolved
         /\ Unprepared(o, rt) /\ op[o].seq \in Nat /\ op[o].seq # 0 /\ op[o].seq <= cmdMark
<1>1. rt.cmd \in Nat /\ disk.cmd \in Nat /\ op[o].seq \in Nat /\ disk.cmd <= rt.cmd
  BY Numbers DEF Inv, JournalsInv
<1>2. op[o].seq # 0 /\ ~(op[o].seq <= disk.cmd) /\ ~(op[o].seq <= rt.cmd)
  BY <1>1
<1>3. ran[o] = 0 /\ o \notin effect
  BY <1>2 DEF Inv, HistoryInv
<1>4. op[o].seq <= cmdMark /\ op[o].state \in Unresolved
  BY <1>2 DEF Inv, RowsInv, Numbered, Ended, TypeOK, States
<1>5. Unprepared(o, rt)
  <2>1. ASSUME NEW i \in DOMAIN rt.log, rt.log[i].op = o
        PROVE  FALSE
    BY <1>2, <2>1, OpenEntries DEF Entry
  <2> QED BY <2>1 DEF Unprepared
<1> QED BY <1>1, <1>2, <1>3, <1>4, <1>5

LEMMA AcceptKeeps == ASSUME Inv, Accept PROVE Inv'
<1> DEFINE o == Head(toRt).op
           n == Head(toRt).seq
           ev == rt.last + 1
           new == NewEntry(o, n, ev)
<1>1. /\ busy = Idle /\ toRt # <<>> /\ o \in Ops /\ n \in Nat /\ n = op[o].seq /\ n > rt.cmd
      /\ UNCHANGED <<store, map, session, srv, resumeAt, backlog, call, effect, ran>>
  BY ReadParts DEF Accept, Frame, Frames
<1>2. CASE ~Follows(n)
  <2>1. Refuse
    BY <1>2 DEF Accept
  <2> QED BY <1>1, <2>1, RefuseKeeps
<1>3. CASE Follows(n)
  <2>1. PICK j, frames, next :
          /\ j = Journaled(rt, o, n) /\ frames = <<Response(o, "accepted", ev)>>
          /\ next = [phase |-> "accepted", op |-> o, seq |-> n]
          /\ \/ Save(j, frames, next)
             \/ Hangup /\ rt' = j /\ disk' \in {disk, j} /\ busy' = Idle
    BY <1>1, <1>3 DEF Accept
  <2>2. /\ j \in Journals /\ j.cmd = n /\ j.acc = rt.acc /\ j.last = ev
        /\ \A i \in DOMAIN j.log : \/ j.log[i] = new
                                   \/ \E k \in DOMAIN rt.log : j.log[i] = rt.log[k]
    <3>1. rt \in Journals
      BY Numbers
    <3> HIDE DEF o, n
    <3> QED BY <1>1, <2>1, <3>1, JournaledParts DEF new, ev
  <2>3. /\ ran[o] = 0 /\ o \notin effect /\ op[o].state \in Unresolved
        /\ Unprepared(o, rt) /\ n # 0 /\ n <= cmdMark
    BY <1>1, NewCommand
  <2>4. /\ new.op = o /\ new.seq = n /\ new.first = ev /\ new.second = 0 /\ new.kind = "open"
        /\ new.prepared = FALSE /\ new \in Entries /\ ev \in Nat
    <3>1. ev \in Nat
      BY Numbers
    <3> QED BY <1>1, <3>1 DEF NewEntry, Entries
  <2>5. /\ next \in Work /\ next # Idle /\ next.op = o /\ next.seq = n /\ next.phase = "accepted"
    BY <1>1, <2>1 DEF Work, Idle
  <2>6. frames \in Seq(Messages) /\ \A i \in 1..Len(frames) : frames[i] = Response(o, "accepted", ev)
    <3>1. Response(o, "accepted", ev) \in Messages
      BY <1>1, <2>4, SessionTyped DEF Kinds
    <3> QED BY <2>1, <3>1, OneMessage
  <2> HIDE DEF o, n, ev, new
  <2>7. /\ rt.cmd <= j.cmd /\ j.cmd <= cmdMark /\ rt.last <= j.last /\ j.acc <= evMark
        /\ effect \subseteq effect' /\ effect' \subseteq Ops
        /\ \A x \in effect' : op[x].seq # 0 /\ op[x].seq <= disk.cmd
    <3>1. rt.cmd <= j.cmd /\ rt.last <= j.last
      BY <1>1, <2>2, Numbers DEF ev
    <3> QED BY <1>1, <2>2, <2>3, <3>1 DEF Inv, JournalsInv, HistoryInv, TypeOK
  <2>8. \A x \in Ops : ~Source(x) => (x \in effect' => x \in effect) /\ Unprepared(x, j)
    <3> SUFFICES ASSUME NEW x \in Ops, ~Source(x)
                 PROVE  Unprepared(x, j)
      BY <1>1
    <3>1. Unprepared(x, rt)
      BY DEF Source
    <3> QED BY <2>2, <2>4, <3>1 DEF Unprepared
  <2>9. \A x \in Ops : op[x].seq <= rt.cmd /\ (busy # Idle => busy.op # x)
                       => (next # Idle => next.op # x)
    <3>1. ~(op[o].seq <= rt.cmd)
      BY <1>1, Numbers
    <3> QED BY <2>5, <3>1
  <2>10. UNCHANGED op
    BY <1>1 DEF store
  <2>11. Entry(new, j, op, disk', rt', busy', effect')
    <3>1. Says(new.op, new.kind, op, disk', rt', busy', effect')
      BY <2>4 DEF Says, Outcomes
    <3>2. new.seq <= j.cmd /\ new.first <= j.last /\ new.second <= j.last
      BY <1>1, <2>2, <2>4
    <3> QED BY <1>1, <2>3, <2>4, <3>1, <3>2 DEF Entry
  <2>12. ASSUME Save(j, frames, next), Valid(j)
         PROVE  /\ \A i \in 1..Len(frames) : Sound(frames[i])
                /\ BusyInv'
    <3>1. rt' = j /\ disk' = j /\ busy' = next
      BY <2>12 DEF Save
    <3>2. Sound(Response(o, "accepted", ev))
      <4>1. Entry(new, disk', op, disk', rt', busy', effect')
        BY <2>11, <3>1
      <4>2. Sound(Response(new.op, "accepted", new.first))
        BY <2>4, <2>10, <4>1, EntrySpeaks
      <4> QED BY <2>4, <4>2
    <3>3. Unprepared(o, j)
      BY <2>2, <2>3, <2>4 DEF Unprepared
    <3>4. j.cmd <= j.cmd
      BY <1>1, <2>2
    <3>5. BusyInv'
      BY <1>1, <2>2, <2>3, <2>5, <2>10, <3>1, <3>3, <3>4 DEF BusyInv
    <3> QED BY <2>6, <3>2, <3>5
  <2>13. CASE Save(j, frames, next)
    BY <1>1, <2>2, <2>5, <2>6, <2>7, <2>8, <2>9, <2>11, <2>12, <2>13, SaveKeeps
  <2>14. CASE Hangup /\ rt' = j /\ disk' \in {disk, j} /\ busy' = Idle
    <3>1. PICK none, still : none = <<>> /\ still = Idle
      OBVIOUS
    <3>2. none \in Seq(Messages) /\ \A i \in 1..Len(none) : FALSE
      <4>1. none \in Seq(Messages) /\ Len(none) = 0
        BY <3>1, EmptySeq
      <4> QED BY <4>1
    <3> QED BY <1>1, <2>2, <2>7, <2>8, <2>11, <2>14, <3>1, <3>2, SaveKeeps
  <2> QED BY <2>1, <2>13, <2>14
<1> QED BY <1>2, <1>3

LEMMA RuntimeStepKeeps == ASSUME Inv, RuntimeStep PROVE Inv'
BY DialKeeps, BindKeeps, AcknowledgeKeeps, ReplayKeeps, AcceptKeeps, PrepareKeeps, ExecuteKeeps,
   ConcludesKeeps, ClosedKeeps DEF RuntimeStep

-------------------------------------------------------------------------------
\* Steps of the server.

Rows == [state : States, session : SessionIds, seq : Nat, acc : Nat, res : Nat, lease : BOOLEAN]

\* The receiver stands, and a row with a number keeps it.
LEMMA ServerKept ==
  ASSUME Inv, UNCHANGED receiver,
         \A o \in Ops : op[o].seq # 0 \/ op[o].state \in Terminal => op'[o].seq = op[o].seq
  PROVE  /\ Kept /\ UNCHANGED <<rt, disk, busy, effect, ran>>
         /\ disk'.cmd \in Nat /\ disk'.last \in Nat
<1>1. UNCHANGED <<rt, disk, busy, effect, ran>>
  BY DEF receiver
<1>2. \A o \in Ops : ~Source(o) => Unprepared(o, rt') /\ Unprepared(o, disk')
  BY <1>1 DEF Source
<1>3. disk.cmd <= disk'.cmd /\ disk.last <= disk'.last /\ disk'.cmd \in Nat /\ disk'.last \in Nat
  BY <1>1, Numbers
<1>4. \A o \in Ops : op[o].seq <= rt.cmd /\ (busy # Idle => busy.op # o)
                     => (busy' # Idle => busy'.op # o)
  BY <1>1
<1> QED BY <1>1, <1>2, <1>3, <1>4 DEF Kept

\* What the gateway and the table do with the rows, the receiver standing.
LEMMA ServerKeeps ==
  ASSUME Inv, UNCHANGED receiver, op' \in [Ops -> Rows],
         cmdMark' \in Nat, evMark' \in Nat, resumeAt' \in Nat,
         cmdMark <= cmdMark', evMark <= evMark', evMark' <= disk.last, resumeAt' <= evMark',
         {current', map', session', dying'} \subseteq SessionIds, link' \in {"up", "down"},
         srv' \in {"none", "registering", "querying", "resending", "failed"},
         \A o \in Ops : op[o].seq # 0 \/ op[o].state \in Terminal => op'[o].seq = op[o].seq,
         \A o \in Ops : /\ Numbered(op'[o], cmdMark', evMark')
                        /\ \/ op'[o].state \in Terminal => op'[o].state = op[o].state
                           \/ Ended(o, op', disk, rt, busy, effect),
         \A o, p \in Ops : op'[o].seq = op'[p].seq /\ op'[o].seq # 0 => o = p,
         \A o, p \in Mutations : op'[o].state \in Held /\ op'[p].state \in Held => o = p,
         busy # Idle => op'[busy.op].state \in Unresolved,
         Kept => CallsInv' /\ WiresInv'
  PROVE  Inv'
<1>1. /\ Kept /\ UNCHANGED <<rt, disk, busy, effect, ran>>
      /\ disk'.cmd \in Nat /\ disk'.last \in Nat
  BY ServerKept
<1>2. TypeOK'
  BY <1>1 DEF Inv, TypeOK, Rows, SessionIds
<1>3. \A o \in Ops : Ended(o, op', disk', rt', busy', effect')
  BY <1>1, EndedKept
<1>4. RowsInv'
  BY <1>1, <1>3 DEF RowsInv
<1>5. JournalsInv'
  <2>1. /\ rt.cmd \in Nat /\ rt.last \in Nat /\ disk.cmd \in Nat /\ disk.last \in Nat
        /\ rt.cmd <= rt.cmd /\ rt.last <= rt.last /\ disk.cmd <= disk.cmd
        /\ disk.last <= disk.last
    BY Counters
  <2>2. \A i \in DOMAIN rt.log : Entry(rt.log[i], rt, op', disk', rt', busy', effect')
    BY <1>1, <2>1, EntryKept
  <2>3. \A i \in DOMAIN disk.log : Entry(disk.log[i], disk, op', disk', rt', busy', effect')
    BY <1>1, <2>1, EntryKept
  <2>4. rt.cmd <= cmdMark' /\ rt.acc <= evMark' /\ disk.acc <= evMark'
    <3>1. rt.cmd <= cmdMark /\ rt.acc <= evMark /\ disk.acc <= evMark
      BY DEF Inv, JournalsInv
    <3>2. /\ rt.cmd \in Nat /\ cmdMark \in Nat /\ rt.acc \in Nat /\ disk.acc \in Nat
          /\ evMark \in Nat
      BY Numbers
    <3> QED BY <3>1, <3>2, AtMost
  <2> QED BY <1>1, <2>2, <2>3, <2>4 DEF Inv, JournalsInv
<1>6. BusyInv'
  <2>1. busy # Idle => op'[busy.op].seq = op[busy.op].seq
    BY DEF Inv, BusyInv, Work
  <2> QED BY <1>1, <2>1 DEF Inv, BusyInv
<1>7. HistoryInv'
  BY <1>1 DEF Inv, HistoryInv, TypeOK
<1> QED BY <1>1, <1>2, <1>4, <1>5, <1>6, <1>7 DEF Inv

\* The rows and the marks stand.
LEMMA RowsStay ==
  ASSUME Inv, UNCHANGED <<op, cmdMark, evMark, receiver>>, resumeAt' \in {resumeAt, evMark},
         {current', map', session', dying'} \subseteq SessionIds, link' \in {"up", "down"},
         srv' \in {"none", "registering", "querying", "resending", "failed"},
         Kept => CallsInv' /\ WiresInv'
  PROVE  Inv'
<1>1. op' \in [Ops -> Rows]
  BY DEF Inv, TypeOK, Rows, SessionIds
<1>2. /\ cmdMark' \in Nat /\ evMark' \in Nat /\ resumeAt' \in Nat
      /\ cmdMark <= cmdMark' /\ evMark <= evMark' /\ evMark' <= disk.last /\ resumeAt' <= evMark'
  BY Numbers DEF Inv, RowsInv
<1>3. \A o \in Ops : Numbered(op'[o], cmdMark', evMark')
  BY DEF Inv, RowsInv
<1>4. /\ \A o, p \in Ops : op'[o].seq = op'[p].seq /\ op'[o].seq # 0 => o = p
      /\ \A o, p \in Mutations : op'[o].state \in Held /\ op'[p].state \in Held => o = p
      /\ busy # Idle => op'[busy.op].state \in Unresolved
  BY DEF Inv, RowsInv, BusyInv
<1> QED BY <1>1, <1>2, <1>3, <1>4, ServerKeeps

\* One row is written.
LEMMA RowKeeps ==
  ASSUME Inv, NEW o \in Ops, NEW row \in Rows, op' = [op EXCEPT ![o] = row],
         UNCHANGED <<receiver, resumeAt, current, map, session, link>>, dying' \in SessionIds,
         srv' \in {srv, "failed"},
         cmdMark' \in Nat, evMark' \in Nat, cmdMark <= cmdMark', evMark <= evMark',
         evMark' <= disk.last,
         op[o].seq # 0 \/ op[o].state \in Terminal => row.seq = op[o].seq,
         Numbered(row, cmdMark', evMark'),
         \/ row.state \in Terminal => row.state = op[o].state
         \/ Ended(o, op', disk, rt, busy, effect),
         row.seq = op[o].seq \/ ~(row.seq <= cmdMark) \/ row.seq = 0,
         row.state \in Held /\ o \in Mutations => op[o].state \in Held \/ ~Fenced(o),
         busy # Idle /\ busy.op = o => row.state \in Unresolved,
         Kept => CallsInv' /\ WiresInv'
  PROVE  Inv'
<1>1. op \in [Ops -> Rows]
  BY DEF Inv, TypeOK, Rows, SessionIds
<1>2. op' \in [Ops -> Rows] /\ op'[o] = row /\ \A p \in Ops \ {o} : op'[p] = op[p]
  BY <1>1
<1>3. /\ resumeAt' \in Nat /\ resumeAt' <= evMark'
      /\ {current', map', session', dying'} \subseteq SessionIds /\ link' \in {"up", "down"}
      /\ srv' \in {"none", "registering", "querying", "resending", "failed"}
  <2>1. resumeAt \in Nat /\ evMark \in Nat /\ resumeAt <= evMark
    BY Numbers DEF Inv, RowsInv
  <2>2. resumeAt <= evMark'
    BY <2>1, AtMost
  <2> QED BY <2>1, <2>2 DEF Inv, TypeOK, SessionIds
<1>4. \A p \in Ops : op[p].seq # 0 \/ op[p].state \in Terminal => op'[p].seq = op[p].seq
  BY <1>2
<1>5. \A p \in Ops : Numbered(op'[p], cmdMark', evMark')
  <2>1. \A p \in Ops : Numbered(op[p], cmdMark, evMark)
    BY DEF Inv, RowsInv
  <2>2. \A p \in Ops : op[p].seq \in Nat /\ op[p].acc \in Nat /\ op[p].res \in Nat
    BY Numbers
  <2>3. \A p \in Ops : op[p].seq <= cmdMark' /\ op[p].acc <= evMark' /\ op[p].res <= evMark'
    <3>1. cmdMark \in Nat /\ evMark \in Nat
      BY Numbers
    <3>2. \A p \in Ops : op[p].seq <= cmdMark /\ op[p].acc <= evMark /\ op[p].res <= evMark
      BY <2>1 DEF Numbered
    <3> QED BY <2>2, <3>1, <3>2, AtMost
  <2>4. \A p \in Ops : Numbered(op[p], cmdMark', evMark')
    BY <2>1, <2>3 DEF Numbered
  <2> QED BY <1>2, <2>4
<1>6. \A p \in Ops : \/ op'[p].state \in Terminal => op'[p].state = op[p].state
                     \/ Ended(p, op', disk, rt, busy, effect)
  BY <1>2
<1>7. \A p, q \in Ops : op'[p].seq = op'[q].seq /\ op'[p].seq # 0 => p = q
  <2>1. \A p \in Ops : op[p].seq <= cmdMark
    BY DEF Inv, RowsInv, Numbered
  <2>2. \A p, q \in Ops : op[p].seq = op[q].seq /\ op[p].seq # 0 => p = q
    BY DEF Inv, RowsInv
  <2> QED BY <1>2, <2>1, <2>2
<1>8. \A p, q \in Mutations : op'[p].state \in Held /\ op'[q].state \in Held => p = q
  <2>1. \A p, q \in Mutations : op[p].state \in Held /\ op[q].state \in Held => p = q
    BY DEF Inv, RowsInv
  <2>2. ASSUME o \in Mutations, row.state \in Held, NEW p \in Mutations \ {o},
               op[p].state \in Held
        PROVE  FALSE
    BY <2>1, <2>2 DEF Fenced, Held
  <2>3. Mutations \subseteq Ops
    BY OpsAssumption
  <2> QED BY <1>2, <2>1, <2>2, <2>3
<1>9. busy # Idle => op'[busy.op].state \in Unresolved
  BY <1>2 DEF Inv, BusyInv, Work
<1> QED BY <1>2, <1>3, <1>4, <1>5, <1>6, <1>7, <1>8, <1>9, ServerKeeps

\* Requests that end, or go on as they are.
LEMMA CallsKept ==
  ASSUME Inv, Kept, call' \in [Calls -> Requests],
         \A c \in Calls : call'[c].phase \in {"marked", "waiting"} =>
           call'[c].op = call[c].op /\ call[c].phase \in {"marked", "waiting"}
  PROVE  CallsInv'
<1> SUFFICES ASSUME NEW c \in Calls, call'[c].phase \in {"marked", "waiting"}
             PROVE  op'[call'[c].op].seq # 0
  BY DEF CallsInv
<1>1. op[call[c].op].seq # 0 /\ call[c].op \in Ops
  BY DEF Inv, CallsInv, Requests
<1> QED BY <1>1 DEF Kept

\* What the server reads from the wires and writes to them.
LEMMA ServerWires ==
  ASSUME Inv, Kept, disk' = disk, evMark <= evMark', evMark' \in Nat, FramesFrom(toRt'),
         late' \in {late, <<>>} \/ (late # <<>> /\ late' = Tail(late)),
         \/ toSrv' = toSrv /\ (srv' # "none" => srv # "none")
         \/ toSrv' = <<>>
         \/ toSrv # <<>> /\ toSrv' = Tail(toSrv),
         link' = "up" /\ srv' = "none" => link = "up" /\ srv = "none" /\ toSrv' = toSrv
  PROVE  WiresInv'
<1>1. late \in Seq(Messages) /\ toSrv \in Seq(Messages \cup Hellos)
  BY DEF Inv, WiresInv
<1>2. late' \in Seq(Messages) /\ \A i \in 1..Len(late') : Sound(late'[i])
  <2>1. CASE late' = late
    BY <1>1, <2>1, OldSound
  <2>2. CASE late' = <<>>
    BY <2>2
  <2>3. CASE late # <<>> /\ late' = Tail(late)
    BY <1>1, <2>3, OldSound, TailParts
  <2> QED BY <2>1, <2>2, <2>3
<1>3. /\ toSrv' \in Seq(Messages \cup Hellos)
      /\ \A i \in 1..Len(toSrv') : i > 1 \/ srv' # "none" => Sound(toSrv'[i])
  <2>1. CASE toSrv' = toSrv /\ (srv' # "none" => srv # "none")
    BY <1>1, <2>1, OldSound
  <2>2. CASE toSrv' = <<>>
    BY <2>2
  <2>3. CASE toSrv # <<>> /\ toSrv' = Tail(toSrv)
    <3>1. /\ toSrv' \in Seq(Messages \cup Hellos)
          /\ \A i \in 1..Len(toSrv') : i + 1 \in 1..Len(toSrv) /\ toSrv'[i] = toSrv[i + 1]
      BY <1>1, <2>3, TailParts
    <3>2. \A i \in 1..Len(toSrv') : i + 1 > 1
      BY <3>1
    <3> QED BY <3>1, <3>2, OldSound
  <2> QED BY <2>1, <2>2, <2>3
<1>4. link' = "up" /\ srv' = "none" => toSrv' # <<>>
  BY DEF Inv, WiresInv
<1>5. disk'.cmd \in Nat /\ disk'.last \in Nat
  BY Numbers
<1> QED BY <1>2, <1>3, <1>4, <1>5, WiresKept

\* A request that is free, or goes on.
LEMMA Requested ==
  ASSUME Inv, NEW c \in Calls, call[c].phase # "free"
  PROVE  /\ call[c] \in [phase : {"asked", "reserved", "marked", "waiting"}, op : Ops,
                         session : SessionIds]
         /\ call[c].op \in Ops /\ call[c].session \in SessionIds
BY DEF Inv, CallsInv, Requests

LEMMA CallsStay ==
  ASSUME Inv, Kept, call' \in {call, [c \in Calls |-> Free]}
  PROVE  CallsInv'
<1>1. call \in [Calls -> Requests]
  BY DEF Inv, CallsInv
<1>2. Free \in Requests /\ Free.phase = "free"
  BY DEF Free, Requests
<1>3. call' \in [Calls -> Requests]
  BY <1>1, <1>2
<1>4. \A c \in Calls : call'[c] = call[c] \/ call'[c].phase = "free"
  BY <1>2
<1> QED BY <1>3, <1>4, CallsKept

LEMMA CallEnds ==
  ASSUME Inv, Kept, NEW c \in Calls, call' = [call EXCEPT ![c] = Free]
  PROVE  CallsInv'
<1>1. call \in [Calls -> Requests]
  BY DEF Inv, CallsInv
<1>2. Free \in Requests /\ Free.phase = "free"
  BY DEF Free, Requests
<1>3. call' \in [Calls -> Requests]
  BY <1>1, <1>2
<1>4. \A d \in Calls : call'[d] = call[d] \/ call'[d].phase = "free"
  BY <1>1, <1>2
<1> QED BY <1>3, <1>4, CallsKept

LEMMA CallMoves ==
  ASSUME Inv, Kept, NEW c \in Calls, call[c].phase # "free",
         NEW step \in {"reserved", "marked", "waiting"},
         call' = [call EXCEPT ![c].phase = step],
         step # "reserved" => op'[call[c].op].seq # 0
  PROVE  CallsInv'
<1>1. call \in [Calls -> Requests]
  BY DEF Inv, CallsInv
<1>2. call[c] \in [phase : {"asked", "reserved", "marked", "waiting"}, op : Ops,
                   session : SessionIds]
  BY Requested
<1>3. PICK next : next = [call[c] EXCEPT !.phase = step]
  OBVIOUS
<1>4. next \in Requests /\ next.phase = step /\ next.op = call[c].op
  BY <1>2, <1>3 DEF Requests
<1>5. call' = [call EXCEPT ![c] = next]
  BY <1>1, <1>3
<1>6. call' \in [Calls -> Requests] /\ call'[c] = next /\ \A d \in Calls \ {c} : call'[d] = call[d]
  BY <1>1, <1>4, <1>5
<1>7. ASSUME NEW d \in Calls, call'[d].phase \in {"marked", "waiting"}
      PROVE  op'[call'[d].op].seq # 0
  <2>1. CASE d = c
    BY <1>4, <1>6, <1>7, <2>1
  <2>2. CASE d # c
    <3>1. call'[d] = call[d] /\ call[d].phase \in {"marked", "waiting"}
      BY <1>6, <1>7, <2>2
    <3>2. op[call[d].op].seq # 0 /\ call[d].op \in Ops
      BY <3>1, Requested DEF Inv, CallsInv
    <3> QED BY <3>1, <3>2 DEF Kept
  <2> QED BY <2>1, <2>2
<1> QED BY <1>6, <1>7 DEF CallsInv

\* The wires stand, or the server writes to them.
LEMMA WiresStay ==
  ASSUME Inv, Kept, UNCHANGED <<evMark, disk, late, toSrv, link, srv>>, FramesFrom(toRt')
  PROVE  WiresInv'
<1>1. evMark <= evMark' /\ evMark' \in Nat
  BY Numbers
<1> QED BY <1>1, ServerWires

LEMMA RowTyped ==
  ASSUME Inv, NEW o \in Ops
  PROVE  /\ op[o] \in Rows /\ Numbered(op[o], cmdMark, evMark)
         /\ op[o].seq \in Nat /\ op[o].acc \in Nat /\ op[o].res \in Nat
         /\ op[o] = [state |-> op[o].state, session |-> op[o].session, seq |-> op[o].seq,
                     acc |-> op[o].acc, res |-> op[o].res, lease |-> op[o].lease]
<1>1. op[o] \in Rows
  BY DEF Inv, TypeOK, Rows, SessionIds
<1> QED BY <1>1 DEF Inv, RowsInv, Rows

\* The row of one operation changes, and nothing on the wires but the frames to the runtime.
LEMMA RowSteps ==
  ASSUME Inv, NEW o \in Ops, NEW row \in Rows, op' = [op EXCEPT ![o] = row],
         UNCHANGED <<receiver, resumeAt, current, map, session, evMark, dying>>,
         UNCHANGED <<link, late, toSrv, srv>>,
         cmdMark' \in Nat, cmdMark <= cmdMark',
         op[o].seq # 0 \/ op[o].state \in Terminal => row.seq = op[o].seq,
         Numbered(row, cmdMark', evMark),
         \/ row.state \in Terminal => row.state = op[o].state
         \/ Ended(o, op', disk, rt, busy, effect),
         row.seq = op[o].seq \/ ~(row.seq <= cmdMark) \/ row.seq = 0,
         row.state \in Held /\ o \in Mutations => op[o].state \in Held \/ ~Fenced(o),
         busy # Idle /\ busy.op = o => row.state \in Unresolved,
         Kept => CallsInv' /\ FramesFrom(toRt')
  PROVE  Inv'
<1>1. evMark <= evMark' /\ evMark' \in Nat /\ evMark' <= disk.last
  BY Numbers DEF Inv, RowsInv
<1>2. disk' = disk
  BY DEF receiver
<1>3. Kept => CallsInv' /\ WiresInv'
  BY <1>2, WiresStay
<1>4. dying' \in SessionIds /\ srv' \in {srv, "failed"} /\ UNCHANGED link
  BY DEF Inv, TypeOK, SessionIds
<1> QED BY <1>1, <1>3, <1>4, RowKeeps

LEMMA AskKeeps == ASSUME Inv, NEW c \in Calls, NEW o \in Ops, Ask(c, o) PROVE Inv'
<1>1. UNCHANGED <<op, cmdMark, evMark, current, map, session, srv, resumeAt, dying>>
  BY DEF Ask, store, gateway
<1>2. UNCHANGED <<link, toRt, toSrv, late, receiver>>
  BY DEF Ask, wires
<1>3. disk' = disk
  BY <1>2 DEF receiver
<1>4. ASSUME Kept
      PROVE  CallsInv'
  <2>1. PICK new : new = [phase |-> "asked", op |-> o, session |-> current]
    OBVIOUS
  <2>2. call \in [Calls -> Requests] /\ new \in Requests /\ new.phase = "asked"
    BY <2>1 DEF Inv, CallsInv, TypeOK, Requests, SessionIds
  <2>3. call' = [call EXCEPT ![c] = new]
    BY <2>1 DEF Ask
  <2>4. call' \in [Calls -> Requests] /\ \A d \in Calls : call'[d] = call[d] \/ call'[d].phase = "asked"
    BY <2>2, <2>3
  <2> QED BY <1>4, <2>4, CallsKept
<1>5. Kept => WiresInv'
  BY <1>1, <1>2, <1>3, FramesLeft, WiresStay
<1>6. {current', map', session', dying'} \subseteq SessionIds /\ link' \in {"up", "down"}
      /\ srv' \in {"none", "registering", "querying", "resending", "failed"}
  BY <1>1, <1>2 DEF Inv, TypeOK, SessionIds
<1> QED BY <1>1, <1>2, <1>4, <1>5, <1>6, RowsStay

\* A reserved row that is new, or was reserved before.
LEMMA ReserveKeeps == ASSUME Inv, NEW c \in Calls, Reserve(c) PROVE Inv'
<1> DEFINE o == call[c].op
           s == call[c].session
<1>1. call[c].phase = "asked" /\ o \in Ops /\ s \in SessionIds
  BY Requested DEF Reserve
<1>2. /\ UNCHANGED <<receiver, resumeAt, current, map, session, evMark, dying, cmdMark>>
      /\ UNCHANGED <<link, late, toSrv, srv, toRt>>
  BY DEF Reserve, gateway, wires
<1>3. /\ op[o] \in Rows /\ Numbered(op[o], cmdMark, evMark) /\ op[o].seq \in Nat
      /\ cmdMark \in Nat /\ cmdMark <= cmdMark /\ evMark \in Nat
      /\ Kept => FramesFrom(toRt')
  <2>1. cmdMark \in Nat /\ cmdMark <= cmdMark /\ evMark \in Nat
    BY Numbers
  <2>2. Kept => FramesFrom(toRt')
    BY <1>2, FramesLeft
  <2> QED BY <1>1, <2>1, <2>2, RowTyped
<1>4. CASE MayReserve(o, s)
  <2>1. PICK row : row = [NoRow EXCEPT !.state = "reserved", !.session = s, !.lease = TRUE]
    OBVIOUS
  <2>2. op' = [op EXCEPT ![o] = row] /\ call' = [call EXCEPT ![c].phase = "reserved"]
    BY <1>4, <2>1 DEF Reserve
  <2>3. /\ row \in Rows /\ row.state = "reserved" /\ row.seq = 0 /\ row.acc = 0 /\ row.res = 0
    BY <1>1, <2>1 DEF NoRow, Rows, States
  <2>4. op[o].state \in {"none", "reserved"} /\ op[o].seq = 0
    BY <1>3, <1>4 DEF MayReserve, Numbered
  <2>5. row.state \in Held /\ o \in Mutations => op[o].state \in Held \/ ~Fenced(o)
    BY <1>4 DEF MayReserve, Held
  <2>6. busy # Idle => busy.op # o
    BY <2>4 DEF Inv, BusyInv, Unresolved
  <2>7. Numbered(row, cmdMark', evMark)
    BY <1>2, <1>3, <2>3 DEF Numbered, Unresolved
  <2>8. Kept => CallsInv'
    BY <1>1, <2>2, CallMoves
  <2> HIDE DEF o, s
  <2> QED BY <1>1, <1>2, <1>3, <2>2, <2>3, <2>4, <2>5, <2>6, <2>7, <2>8, RowSteps
          DEF Terminal
<1>5. CASE ~MayReserve(o, s)
  <2>1. PICK row : row = IF op[o].state = "dispatching" /\ ~op[o].lease /\ op[o].session = s
                         THEN [op[o] EXCEPT !.state = "uncertain"] ELSE op[o]
    OBVIOUS
  <2>2. op' = [op EXCEPT ![o] = row] /\ call' = [call EXCEPT ![c] = Free]
    BY <1>5, <2>1 DEF Reserve
  <2>3. /\ row \in Rows /\ row.seq = op[o].seq /\ row.acc = op[o].acc /\ row.res = op[o].res
        /\ row.state = op[o].state \/ (op[o].state = "dispatching" /\ row.state = "uncertain")
    BY <1>3, <2>1 DEF Rows, States, Unresolved
  <2>4. Numbered(row, cmdMark', evMark)
    BY <1>2, <1>3, <2>3 DEF Numbered, Unresolved
  <2>5. busy # Idle /\ busy.op = o => row.state \in Unresolved
    BY <2>3 DEF Inv, BusyInv, Unresolved
  <2>6. Kept => CallsInv'
    BY <2>2, CallEnds
  <2> HIDE DEF o, s
  <2> QED BY <1>1, <1>2, <1>3, <2>2, <2>3, <2>4, <2>5, <2>6, RowSteps
          DEF Terminal, Held, Unresolved
<1> QED BY <1>4, <1>5

\* A row without a number was never sent, so that its failure is true.
LEMMA Unsent ==
  ASSUME Inv, NEW o \in Ops, op[o].seq = 0
  PROVE  /\ o \notin effect /\ Unprepared(o, disk) /\ Unprepared(o, rt)
         /\ busy # Idle => busy.op # o
<1>1. o \notin effect /\ (busy # Idle => busy.op # o)
  BY DEF Inv, HistoryInv, BusyInv
<1>2. Unprepared(o, disk) /\ Unprepared(o, rt)
  BY DEF Inv, JournalsInv, Entry, Unprepared
<1> QED BY <1>1, <1>2

LEMMA TargetChangedKeeps == ASSUME Inv, NEW c \in Calls, TargetChanged(c) PROVE Inv'
<1> DEFINE o == call[c].op
           s == call[c].session
<1>1. call[c].phase = "reserved" /\ o \in Ops
  BY Requested DEF TargetChanged
<1>2. /\ UNCHANGED <<receiver, resumeAt, current, map, session, evMark, dying, cmdMark>>
      /\ UNCHANGED <<link, late, toSrv, srv, toRt>>
  BY DEF TargetChanged, gateway, wires
<1>3. /\ op[o] \in Rows /\ Numbered(op[o], cmdMark, evMark) /\ op[o].seq \in Nat
      /\ cmdMark \in Nat /\ cmdMark <= cmdMark /\ evMark \in Nat
      /\ 0 <= disk.cmd
      /\ Kept => FramesFrom(toRt')
  <2>1. cmdMark \in Nat /\ cmdMark <= cmdMark /\ evMark \in Nat /\ 0 <= disk.cmd
    BY Numbers
  <2>2. Kept => FramesFrom(toRt')
    BY <1>2, FramesLeft
  <2> QED BY <1>1, <2>1, <2>2, RowTyped
<1>4. PICK row : row = IF op[o].state = "reserved" /\ op[o].session = s
                       THEN [op[o] EXCEPT !.state = "failed", !.lease = FALSE] ELSE op[o]
  OBVIOUS
<1>5. op' = [op EXCEPT ![o] = row] /\ call' = [call EXCEPT ![c] = Free]
  BY <1>4 DEF TargetChanged
<1>6. /\ row \in Rows /\ row.seq = op[o].seq /\ row.acc = op[o].acc /\ row.res = op[o].res
      /\ row.state = op[o].state \/ (op[o].state = "reserved" /\ row.state = "failed")
  BY <1>3, <1>4 DEF Rows, States, Terminal
<1>7. Numbered(row, cmdMark', evMark)
  BY <1>2, <1>3, <1>6 DEF Numbered, Unresolved
<1>8. busy # Idle /\ busy.op = o => row.state \in Unresolved
  BY <1>6 DEF Inv, BusyInv, Unresolved
<1>9. Kept => CallsInv'
  BY <1>5, CallEnds
<1>10. \/ row.state \in Terminal => row.state = op[o].state
       \/ Ended(o, op', disk, rt, busy, effect)
  <2>1. CASE op[o].state = "reserved" /\ row.state = "failed"
    <3>1. op[o].seq = 0
      BY <1>3, <2>1 DEF Numbered
    <3>2. op'[o] = row
      BY <1>1, <1>5 DEF Inv, TypeOK
    <3>3. op'[o].seq <= disk.cmd /\ op'[o].state = "failed"
      BY <1>3, <1>6, <2>1, <3>1, <3>2
    <3> HIDE DEF o, s
    <3> QED BY <1>1, <3>1, <3>3, Unsent DEF Ended, Says, Spared
  <2> QED BY <1>6, <2>1
<1> HIDE DEF o, s
<1>11. row.state \in Held => op[o].state \in Held
  BY <1>6 DEF Held, Unresolved
<1> QED BY <1>1, <1>2, <1>3, <1>5, <1>6, <1>7, <1>8, <1>9, <1>10, <1>11, RowSteps

\* The row gets the next number of the generation.
LEMMA MarkKeeps == ASSUME Inv, NEW c \in Calls, MarkDispatchAttempted(c) PROVE Inv'
<1> DEFINE o == call[c].op
           s == call[c].session
<1>1. call[c].phase = "reserved" /\ o \in Ops
  BY Requested DEF MarkDispatchAttempted
<1>2. /\ UNCHANGED <<receiver, resumeAt, current, map, session, srv, evMark, dying>>
      /\ UNCHANGED <<link, late, toSrv, toRt>>
  BY DEF MarkDispatchAttempted, gateway, wires
<1>3. /\ op[o] \in Rows /\ Numbered(op[o], cmdMark, evMark) /\ op[o].seq \in Nat
      /\ op[o].acc \in Nat /\ op[o].res \in Nat
      /\ cmdMark \in Nat /\ evMark \in Nat
      /\ Kept => FramesFrom(toRt')
  <2>1. Kept => FramesFrom(toRt')
    BY <1>2, FramesLeft
  <2> QED BY <1>1, <2>1, RowTyped, Numbers
<1>4. CASE MayDispatch(o, s)
  <2>1. PICK row : row = [op[o] EXCEPT !.state = "dispatching", !.seq = cmdMark + 1,
                                       !.lease = TRUE]
    OBVIOUS
  <2>2. /\ cmdMark' = cmdMark + 1 /\ call' = [call EXCEPT ![c].phase = "marked"]
        /\ op' = [op EXCEPT ![o] = row]
    BY <1>1, <1>4, <2>1 DEF MarkDispatchAttempted, Inv, TypeOK
  <2>3. /\ row \in Rows /\ row.state = "dispatching" /\ row.seq = cmdMark + 1
        /\ row.acc = op[o].acc /\ row.res = op[o].res
    <3>1. cmdMark + 1 \in Nat
      BY <1>3
    <3> QED BY <1>3, <2>1, <3>1 DEF Rows, States, Unresolved
  <2>4. op[o].state = "reserved" /\ op[o].seq = 0
    BY <1>3, <1>4 DEF MayDispatch, Numbered
  <2>5. cmdMark' \in Nat /\ cmdMark <= cmdMark' /\ row.seq # 0 /\ ~(row.seq <= cmdMark)
    <3>1. /\ cmdMark + 1 \in Nat /\ cmdMark <= cmdMark + 1 /\ cmdMark + 1 # 0
          /\ ~(cmdMark + 1 <= cmdMark)
      BY <1>3
    <3> QED BY <2>2, <2>3, <3>1
  <2>6. Numbered(row, cmdMark', evMark)
    <3>1. cmdMark + 1 <= cmdMark + 1
      BY <1>3
    <3> QED BY <1>3, <2>2, <2>3, <2>5, <3>1 DEF Numbered
  <2>7. busy # Idle => busy.op # o
    BY <2>4 DEF Inv, BusyInv, Unresolved
  <2>8. op'[o] = row
    BY <1>1, <2>2 DEF Inv, TypeOK
  <2>9. Kept => CallsInv'
    BY <1>1, <2>2, <2>5, <2>8, CallMoves
  <2> HIDE DEF o, s
  <2>10. /\ ~(op[o].seq # 0 \/ op[o].state \in Terminal) /\ row.state \notin Terminal
         /\ op[o].state \in Held
    BY <2>3, <2>4 DEF Terminal, Held
  <2> QED BY <1>1, <1>2, <1>3, <2>2, <2>3, <2>5, <2>6, <2>7, <2>9, <2>10, RowSteps
<1>5. CASE ~MayDispatch(o, s)
  <2>1. UNCHANGED <<op, cmdMark>> /\ call' = [call EXCEPT ![c] = Free]
    BY <1>5 DEF MarkDispatchAttempted
  <2>2. disk' = disk
    BY <1>2 DEF receiver
  <2>3. Kept => CallsInv'
    BY <2>1, CallEnds
  <2>4. Kept => WiresInv'
    BY <1>2, <1>3, <2>2, WiresStay
  <2>5. {current', map', session', dying'} \subseteq SessionIds /\ link' \in {"up", "down"}
        /\ srv' \in {"none", "registering", "querying", "resending", "failed"}
    BY <1>2 DEF Inv, TypeOK, SessionIds
  <2> QED BY <1>2, <2>1, <2>3, <2>4, <2>5, RowsStay
<1> QED BY <1>4, <1>5

\* A row that is dispatching may become uncertain.
LEMMA UncertainKeeps ==
  ASSUME Inv, NEW o \in Ops, NEW s, op' = MarkedUncertain(o, s),
         UNCHANGED <<receiver, resumeAt, current, map, session, evMark, cmdMark, dying>>,
         UNCHANGED <<link, srv>>, Kept => CallsInv' /\ WiresInv'
  PROVE  Inv'
<1>1. PICK row : row = IF op[o].state = "dispatching" /\ op[o].session = s
                       THEN [op[o] EXCEPT !.state = "uncertain", !.lease = FALSE] ELSE op[o]
  OBVIOUS
<1>2. op' = [op EXCEPT ![o] = row]
  BY <1>1 DEF MarkedUncertain
<1>3. op[o] \in Rows /\ Numbered(op[o], cmdMark, evMark)
  BY RowTyped
<1>4. /\ row \in Rows /\ row.seq = op[o].seq /\ row.acc = op[o].acc /\ row.res = op[o].res
      /\ row.state = op[o].state \/ (op[o].state = "dispatching" /\ row.state = "uncertain")
  BY <1>1, <1>3 DEF Rows, States, Unresolved
<1>5. Numbered(row, cmdMark', evMark')
  BY <1>3, <1>4 DEF Numbered, Unresolved
<1>6. busy # Idle /\ busy.op = o => row.state \in Unresolved
  BY <1>4 DEF Inv, BusyInv, Unresolved
<1>7. /\ row.state \in Terminal => row.state = op[o].state
      /\ row.state \in Held => op[o].state \in Held
  BY <1>4 DEF Terminal, Held, Unresolved
<1>8. /\ cmdMark' \in Nat /\ evMark' \in Nat /\ cmdMark <= cmdMark' /\ evMark <= evMark'
      /\ evMark' <= disk.last
  BY Numbers DEF Inv, RowsInv
<1>9. dying' \in SessionIds /\ srv' \in {srv, "failed"}
  BY DEF Inv, TypeOK, SessionIds
<1> QED BY <1>2, <1>4, <1>5, <1>6, <1>7, <1>8, <1>9, RowKeeps

LEMMA DispatchKeeps == ASSUME Inv, NEW c \in Calls, DispatchControl(c) PROVE Inv'
<1> DEFINE o == call[c].op
           s == call[c].session
<1>1. call[c].phase = "marked" /\ o \in Ops /\ op[o].seq # 0
  BY Requested DEF DispatchControl, Inv, CallsInv
<1>2. /\ UNCHANGED <<receiver, resumeAt, current, map, session, evMark, cmdMark, dying>>
      /\ UNCHANGED <<link, srv, toSrv, late>>
  BY DEF DispatchControl, gateway
<1>3. disk' = disk
  BY <1>2 DEF receiver
<1>4. CASE map = s
  <2>1. PICK f : f = [type |-> "command", op |-> o, seq |-> op[o].seq]
    OBVIOUS
  <2>2. /\ toRt' = SentTo(map, f) /\ call' = [call EXCEPT ![c].phase = "waiting"]
        /\ UNCHANGED op
    BY <1>4, <2>1 DEF DispatchControl
  <2>3. op[o].seq \in Nat
    BY <1>1, RowTyped
  <2>4. f \in Frames /\ Frame(f, op', evMark')
    <3>1. f \in Frames
      BY <1>1, <2>1, <2>3 DEF Frames
    <3> QED BY <1>1, <2>1, <2>2, <3>1 DEF Frame
  <2>5. FramesFrom(toRt')
    BY <2>2, <2>4, FramesSent
  <2>6. ASSUME Kept
        PROVE  CallsInv'
    BY <1>1, <2>2, <2>6, CallMoves
  <2>7. Kept => WiresInv'
    BY <1>2, <1>3, <2>5, WiresStay
  <2>8. {current', map', session', dying'} \subseteq SessionIds /\ link' \in {"up", "down"}
        /\ srv' \in {"none", "registering", "querying", "resending", "failed"}
    BY <1>2 DEF Inv, TypeOK, SessionIds
  <2> QED BY <1>2, <2>2, <2>6, <2>7, <2>8, RowsStay
<1>5. CASE map # s
  <2>1. op' = MarkedUncertain(o, s) /\ call' = [call EXCEPT ![c] = Free] /\ UNCHANGED toRt
    BY <1>5 DEF DispatchControl
  <2>2. Kept => CallsInv'
    BY <2>1, CallEnds
  <2>3. Kept => WiresInv'
    BY <1>2, <1>3, <2>1, FramesLeft, WiresStay
  <2> HIDE DEF o, s
  <2> QED BY <1>1, <1>2, <2>1, <2>2, <2>3, UncertainKeeps
<1> QED BY <1>4, <1>5

LEMMA TimeoutKeeps == ASSUME Inv, NEW c \in Calls, DispatchTimeout(c) PROVE Inv'
<1> DEFINE o == call[c].op
           s == call[c].session
<1>1. o \in Ops
  BY Requested DEF DispatchTimeout
<1>2. /\ UNCHANGED <<receiver, resumeAt, current, map, session, evMark, cmdMark, dying>>
      /\ UNCHANGED <<link, srv, late>>
      /\ op' = MarkedUncertain(o, s) /\ call' = [call EXCEPT ![c] = Free]
  BY DEF DispatchTimeout, gateway
<1>3. disk' = disk
  BY <1>2 DEF receiver
<1>4. evMark <= evMark' /\ evMark' \in Nat
  BY <1>2, Numbers
<1>5. ASSUME Kept
      PROVE  WiresInv'
  <2>1. CASE UNCHANGED <<toRt, toSrv>>
    BY <1>2, <1>3, <1>5, <2>1, FramesLeft, WiresStay
  <2>2. CASE Active /\ toSrv # <<>> /\ toSrv' = Tail(toSrv) /\ toRt' = Sent(CloseFrame)
    <3>1. FramesFrom(toRt')
      BY <2>2, CloseIsFrame, FramesSent
    <3>2. srv' # "none"
      BY <1>2, <2>2 DEF Active
    <3> QED BY <1>2, <1>3, <1>4, <1>5, <2>2, <3>1, <3>2, ServerWires
  <2> QED BY <2>1, <2>2 DEF DispatchTimeout
<1>6. Kept => CallsInv'
  BY <1>2, CallEnds
<1> HIDE DEF o, s
<1> QED BY <1>1, <1>2, <1>5, <1>6, UncertainKeeps

LEMMA LeaseKeeps == ASSUME Inv, NEW o \in Ops, LeaseExpires(o) PROVE Inv'
<1>1. /\ UNCHANGED <<receiver, resumeAt, current, map, session, evMark, dying, cmdMark>>
      /\ UNCHANGED <<link, late, toSrv, srv, toRt, call>>
  BY DEF LeaseExpires, gateway, wires
<1>2. PICK row : row = [op[o] EXCEPT !.lease = FALSE]
  OBVIOUS
<1>3. op[o] \in Rows /\ Numbered(op[o], cmdMark, evMark)
  BY RowTyped
<1>4. op' = [op EXCEPT ![o] = row]
  BY <1>2 DEF LeaseExpires
<1>5. /\ row \in Rows /\ row.seq = op[o].seq /\ row.acc = op[o].acc /\ row.res = op[o].res
      /\ row.state = op[o].state
  BY <1>2, <1>3 DEF Rows
<1>6. Numbered(row, cmdMark', evMark)
  BY <1>1, <1>3, <1>5 DEF Numbered
<1>7. busy # Idle /\ busy.op = o => row.state \in Unresolved
  BY <1>5 DEF Inv, BusyInv
<1>8. cmdMark' \in Nat /\ cmdMark <= cmdMark'
  BY <1>1, Numbers
<1>9. FramesFrom(toRt')
  BY <1>1, FramesLeft
<1>10. Kept => CallsInv'
  BY <1>1, CallsStay
<1> QED BY <1>1, <1>4, <1>5, <1>6, <1>7, <1>8, <1>9, <1>10, RowSteps

LEMMA ReadResumeKeeps == ASSUME Inv, ReadResume PROVE Inv'
<1>1. /\ UNCHANGED <<op, cmdMark, evMark, receiver, current, map, session, dying>>
      /\ UNCHANGED <<link, late, call>>
      /\ toSrv # <<>> /\ toSrv' = Tail(toSrv)
      /\ srv' \in {"failed", "registering"} /\ resumeAt' \in {resumeAt, evMark}
      /\ toRt' \in {toRt, Sent(CloseFrame)}
  BY DEF ReadResume, store
<1>2. disk' = disk
  BY <1>1 DEF receiver
<1>3. evMark <= evMark' /\ evMark' \in Nat
  BY <1>1, Numbers
<1>4. FramesFrom(toRt')
  BY <1>1, FramesLeft, FramesSent, CloseIsFrame
<1>5. Kept => WiresInv'
  BY <1>1, <1>2, <1>3, <1>4, ServerWires
<1>6. Kept => CallsInv'
  BY <1>1, CallsStay
<1>7. {current', map', session', dying'} \subseteq SessionIds /\ link' \in {"up", "down"}
  BY <1>1 DEF Inv, TypeOK, SessionIds
<1> QED BY <1>1, <1>5, <1>6, <1>7, RowsStay

LEMMA RegisterKeeps == ASSUME Inv, NEW s \in Sessions, Register(s) PROVE Inv'
<1>1. PICK f : f = [type |-> "registered", ev |-> resumeAt]
  OBVIOUS
<1>2. /\ UNCHANGED <<op, cmdMark, evMark, receiver, resumeAt, dying, link, toSrv, call>>
      /\ current' = s /\ map' = s /\ session' = s /\ srv = "registering" /\ srv' = "querying"
      /\ toRt' = Sent(f) /\ late' = <<>>
  BY <1>1 DEF Register
<1>3. disk' = disk
  BY <1>2 DEF receiver
<1>4. evMark <= evMark' /\ evMark' \in Nat /\ resumeAt \in Nat /\ resumeAt <= evMark'
  BY <1>2, Numbers DEF Inv, RowsInv
<1>5. f \in Frames /\ Frame(f, op', evMark')
  <2>1. f \in Frames
    BY <1>1, <1>4 DEF Frames
  <2> QED BY <1>1, <1>4, <2>1 DEF Frame
<1>6. FramesFrom(toRt')
  BY <1>2, <1>5, FramesSent
<1>7. Kept => WiresInv'
  BY <1>2, <1>3, <1>4, <1>6, ServerWires
<1>8. Kept => CallsInv'
  BY <1>2, CallsStay
<1>9. {current', map', session', dying'} \subseteq SessionIds /\ link' \in {"up", "down"}
  BY <1>2 DEF Inv, TypeOK, SessionIds
<1> QED BY <1>2, <1>7, <1>8, <1>9, RowsStay

LEMMA ReadUnresolvedKeeps == ASSUME Inv, ReadUnresolved PROVE Inv'
<1>1. /\ UNCHANGED <<op, cmdMark, evMark, receiver, resumeAt, current, map, session, dying>>
      /\ UNCHANGED <<link, late, toSrv, toRt, call>>
      /\ srv = "querying" /\ srv' = "resending"
  BY DEF ReadUnresolved, store, wires
<1>2. disk' = disk
  BY <1>1 DEF receiver
<1>3. evMark <= evMark' /\ evMark' \in Nat
  BY <1>1, Numbers
<1>4. Kept => WiresInv'
  BY <1>1, <1>2, <1>3, FramesLeft, ServerWires
<1>5. Kept => CallsInv'
  BY <1>1, CallsStay
<1>6. {current', map', session', dying'} \subseteq SessionIds /\ link' \in {"up", "down"}
  BY <1>1 DEF Inv, TypeOK, SessionIds
<1> QED BY <1>1, <1>4, <1>5, <1>6, RowsStay

LEMMA CloseEventKeeps == ASSUME Inv, CloseEvent PROVE Inv'
<1>1. /\ UNCHANGED <<op, cmdMark, evMark, receiver, resumeAt, current, session, srv>>
      /\ UNCHANGED <<link, late, toSrv, toRt, call>>
      /\ map' \in {map, NoSession} /\ dying' = NoSession
  BY DEF CloseEvent, store, wires
<1>2. disk' = disk
  BY <1>1 DEF receiver
<1>3. Kept => WiresInv'
  BY <1>1, <1>2, FramesLeft, WiresStay
<1>4. Kept => CallsInv'
  BY <1>1, CallsStay
<1>5. {current', map', session', dying'} \subseteq SessionIds /\ link' \in {"up", "down"}
      /\ srv' \in {"none", "registering", "querying", "resending", "failed"}
  BY <1>1 DEF Inv, TypeOK, SessionIds
<1> QED BY <1>1, <1>3, <1>4, <1>5, RowsStay

LEMMA ServerRestartKeeps == ASSUME Inv, ServerRestart PROVE Inv'
<1>1. /\ UNCHANGED <<op, cmdMark, evMark, receiver, resumeAt, current>>
      /\ map' = NoSession /\ session' = NoSession /\ dying' = NoSession /\ srv' = "failed"
      /\ link' = "down" /\ toRt' = <<>> /\ toSrv' = <<>> /\ late' = <<>>
      /\ call' = [c \in Calls |-> Free]
  BY DEF ServerRestart, store
<1>2. disk' = disk
  BY <1>1 DEF receiver
<1>3. evMark <= evMark' /\ evMark' \in Nat
  BY <1>1, Numbers
<1>4. FramesFrom(toRt')
  BY <1>1, FramesLeft
<1>5. Kept => WiresInv'
  BY <1>1, <1>2, <1>3, <1>4, ServerWires
<1>6. Kept => CallsInv'
  BY <1>1, CallsStay
<1>7. {current', map', session', dying'} \subseteq SessionIds /\ link' \in {"up", "down"}
  BY <1>1 DEF Inv, TypeOK, SessionIds
<1> QED BY <1>1, <1>5, <1>6, <1>7, RowsStay

\* A row that is bound to the new session and sent again stays what it is.
LEMMA ResendKeeps == ASSUME Inv, Resend PROVE Inv'
<1>1. /\ UNCHANGED <<cmdMark, evMark, receiver, resumeAt, current, map, session, dying>>
      /\ UNCHANGED <<link, late, toSrv, call>>
      /\ srv = "resending" /\ srv' \in {srv, "failed"}
  BY DEF Resend
<1>2. disk' = disk
  BY <1>1 DEF receiver
<1>3. evMark <= evMark' /\ evMark' \in Nat
  BY <1>1, Numbers
<1>4. Kept => CallsInv'
  BY <1>1, CallsStay
<1>5. ASSUME FramesFrom(toRt'), Kept
      PROVE  WiresInv'
  BY <1>1, <1>2, <1>3, <1>5, ServerWires
<1>6. {current', map', session', dying'} \subseteq SessionIds /\ link' \in {"up", "down"}
      /\ srv' \in {"none", "registering", "querying", "resending", "failed"}
  BY <1>1 DEF Inv, TypeOK, SessionIds
<1>7. ASSUME UNCHANGED op, toRt' = Sent(CloseFrame)
      PROVE  Inv'
  <2>1. FramesFrom(toRt')
    BY <1>7, CloseIsFrame, FramesSent
  <2> QED BY <1>1, <1>4, <1>5, <1>6, <1>7, <2>1, RowsStay
<1>8. ASSUME NEW o \in Ops, op[o].state \in Unresolved, op' = Rebound(o),
             \/ toRt' = Sent(CloseFrame)
             \/ toRt' = Sent([type |-> "command", op |-> o, seq |-> op[o].seq])
      PROVE  Inv'
  <2>1. PICK row : row = [op[o] EXCEPT !.session = session]
    OBVIOUS
  <2>2. op[o] \in Rows /\ Numbered(op[o], cmdMark, evMark) /\ op[o].seq \in Nat
    BY RowTyped
  <2>3. op' = [op EXCEPT ![o] = row]
    BY <1>8, <2>1 DEF Rebound
  <2>4. session \in SessionIds
    BY DEF Inv, TypeOK, SessionIds
  <2>5. /\ row \in Rows /\ row.seq = op[o].seq /\ row.acc = op[o].acc /\ row.res = op[o].res
        /\ row.state = op[o].state
    BY <2>1, <2>2, <2>4 DEF Rows
  <2>6. Numbered(row, cmdMark', evMark')
    BY <1>1, <2>2, <2>5 DEF Numbered
  <2>7. busy # Idle /\ busy.op = o => row.state \in Unresolved
    BY <1>8, <2>5
  <2>8. cmdMark' \in Nat /\ cmdMark <= cmdMark' /\ evMark' <= disk.last
    BY <1>1, Numbers DEF Inv, RowsInv
  <2>9. op'[o] = row
    BY <2>3 DEF Inv, TypeOK
  <2>10. FramesFrom(toRt')
    <3>1. CASE toRt' = Sent(CloseFrame)
      BY <3>1, CloseIsFrame, FramesSent
    <3>2. CASE toRt' = Sent([type |-> "command", op |-> o, seq |-> op[o].seq])
      <4>1. PICK f : f = [type |-> "command", op |-> o, seq |-> op[o].seq]
        OBVIOUS
      <4>2. f \in Frames
        BY <2>2, <4>1 DEF Frames
      <4>3. Frame(f, op', evMark')
        BY <1>8, <2>2, <2>5, <2>9, <4>1, <4>2 DEF Frame, Numbered
      <4> QED BY <3>2, <4>1, <4>2, <4>3, FramesSent
    <3> QED BY <1>8, <3>1, <3>2
  <2>11. Kept => WiresInv'
    BY <1>5, <2>10
  <2>12. dying' \in SessionIds
    BY <1>6
  <2> QED BY <1>1, <1>3, <1>4, <2>3, <2>5, <2>6, <2>7, <2>8, <2>11, <2>12, RowKeeps
<1>9. PICK o \in Ops :
        IF op[o].state \in Unresolved /\ current = session
        THEN /\ op' = Rebound(o)
             /\ IF map = session
                THEN toRt' = Sent([type |-> "command", op |-> o, seq |-> op[o].seq])
                ELSE toRt' = Sent(CloseFrame)
        ELSE toRt' = Sent(CloseFrame) /\ UNCHANGED op
  BY DEF Resend
<1> QED BY <1>7, <1>8, <1>9

\* A response is recorded only where it is true: what it says of its operation was true when
\* it was sent, and is still true.
LEMMA AnsweredKeeps ==
  ASSUME Inv, NEW m \in Messages, Message(m, op, disk, rt, busy, effect), Records(op[m.op], m),
         op' = [op EXCEPT ![m.op] = Answered(op[m.op], m)], evMark' = evMark + 1,
         UNCHANGED <<receiver, resumeAt, current, map, session, cmdMark, dying, link, srv>>,
         Kept => CallsInv' /\ WiresInv'
  PROVE  Inv'
<1> DEFINE o == m.op
           row == Answered(op[o], m)
<1>1. /\ o \in Ops /\ m.ev \in Nat /\ m.type \in Kinds /\ m.ev <= disk.last
      /\ op[o].seq # 0 /\ op[o].seq <= disk.cmd
      /\ Says(o, m.type, op, disk, rt, busy, effect)
  BY DEF Message, Messages
<1>2. op[o].state \in Unresolved /\ m.ev = evMark + 1
  BY DEF Records, Advances
<1>3. op[o] \in Rows /\ Numbered(op[o], cmdMark, evMark)
  BY <1>1, RowTyped
<1>4. /\ row \in Rows /\ row.seq = op[o].seq
      /\ row.acc \in {op[o].acc, m.ev} /\ row.res \in {op[o].res, m.ev}
      /\ row.state = CASE m.type = "accepted" -> op[o].state
                       [] m.type = "result" -> "completed"
                       [] m.type = "unavailable" -> "failed"
                       [] m.type = "uncertain" -> "uncertain"
  <2>1. CASE m.type = "accepted"
    BY <1>1, <1>3, <2>1 DEF Answered, Rows
  <2>2. CASE m.type = "result"
    BY <1>1, <1>3, <2>2 DEF Answered, Rows, States, Terminal
  <2>3. CASE m.type = "unavailable"
    BY <1>1, <1>3, <2>3 DEF Answered, Rows, States, Terminal
  <2>4. CASE m.type = "uncertain"
    BY <1>1, <1>3, <2>4 DEF Answered, Rows, States, Unresolved
  <2> QED BY <1>1, <2>1, <2>2, <2>3, <2>4 DEF Kinds, Outcomes
<1>5. op'[o] = row
  BY <1>1 DEF Inv, TypeOK
<1> HIDE DEF row
<1>6. /\ cmdMark' \in Nat /\ evMark' \in Nat /\ cmdMark <= cmdMark' /\ evMark <= evMark'
      /\ evMark' <= disk.last
  BY <1>1, <1>2, Numbers
<1>7. row.state \notin {"none", "reserved"} /\ (row.state \in Held => op[o].state \in Held)
  <2>1. CASE m.type = "accepted"
    BY <1>2, <1>4, <2>1 DEF Unresolved
  <2>2. CASE m.type \in Outcomes
    BY <1>2, <1>4, <2>2 DEF Outcomes, Held
  <2> QED BY <1>1, <2>1, <2>2 DEF Kinds
<1>8. Numbered(row, cmdMark', evMark')
  <2>1. op[o].acc \in Nat /\ op[o].res \in Nat /\ evMark' = m.ev
    BY <1>1, <1>2, RowTyped
  <2>2. op[o].acc <= evMark' /\ op[o].res <= evMark' /\ m.ev <= evMark'
    <3>1. evMark \in Nat /\ m.ev <= m.ev
      BY <1>1, Numbers
    <3>2. op[o].acc <= evMark /\ op[o].res <= evMark
      BY <1>3 DEF Numbered
    <3> QED BY <1>6, <2>1, <3>1, <3>2, AtMost
  <2> QED BY <1>1, <1>3, <1>4, <1>7, <2>2 DEF Numbered
<1>9. busy # Idle /\ busy.op = o => row.state \in Unresolved
  <2>1. busy # Idle /\ busy.op = o => m.type = "accepted"
    BY <1>1 DEF Says, Kinds
  <2> QED BY <1>2, <1>4, <2>1
<1>10. \/ row.state \in Terminal => row.state = op[o].state
       \/ Ended(o, op', disk, rt, busy, effect)
  <2>1. Says(o, m.type, op', disk, rt, busy, effect)
    BY <1>1, <1>4, <1>5 DEF Says
  <2>2. row.state = "completed" => m.type = "result"
    BY <1>1, <1>2, <1>4 DEF Kinds, Outcomes, Unresolved
  <2>3. row.state = "failed" => m.type = "unavailable"
    BY <1>1, <1>2, <1>4 DEF Kinds, Outcomes, Unresolved
  <2> QED BY <1>1, <1>4, <1>5, <2>1, <2>2, <2>3 DEF Ended
<1>11. dying' \in SessionIds /\ srv' \in {srv, "failed"}
  BY DEF Inv, TypeOK, SessionIds
<1>12. op' = [op EXCEPT ![o] = row]
  BY DEF row
<1> HIDE DEF o
<1> QED BY <1>1, <1>4, <1>6, <1>7, <1>8, <1>9, <1>10, <1>11, <1>12, RowKeeps

LEMMA HandleKeeps ==
  ASSUME Inv, NEW m \in Messages, Message(m, op, disk, rt, busy, effect), HandleMessage(m),
         UNCHANGED <<receiver, resumeAt, current, map, session, cmdMark, dying, link, srv>>,
         \/ UNCHANGED toSrv /\ late # <<>> /\ late' = Tail(late)
         \/ UNCHANGED late /\ toSrv # <<>> /\ toSrv' = Tail(toSrv) /\ srv # "none"
  PROVE  Inv'
<1> DEFINE row == op[m.op]
           taken == row.session = m.session /\ (Repeats(row, m) \/ Records(row, m))
           records == /\ op' = [op EXCEPT ![m.op] = Answered(row, m)] /\ evMark' = evMark + 1
                      /\ Records(row, m)
<1>1. m.op \in Ops /\ m.ev \in Nat /\ m.type \in Kinds
  BY DEF Messages
<1>2. records \/ UNCHANGED <<op, evMark>>
  BY DEF HandleMessage
<1>3. evMark <= evMark' /\ evMark' \in Nat /\ disk' = disk
  BY <1>2, Numbers DEF receiver
<1>4. taken => m.ev <= evMark'
  <2>1. CASE Repeats(row, m)
    <3>1. row.acc \in Nat /\ row.res \in Nat /\ row.acc <= evMark /\ row.res <= evMark
      BY <1>1, RowTyped DEF Numbered
    <3>2. m.ev <= evMark
      BY <2>1, <3>1 DEF Repeats
    <3> QED BY <1>1, <1>3, <3>2, Numbers
  <2>2. CASE ~Repeats(row, m) /\ taken
    <3>1. evMark' = evMark + 1 /\ m.ev = evMark + 1
      BY <2>2 DEF HandleMessage, Records, Advances
    <3> QED BY <1>1, <3>1
  <2> QED BY <2>1, <2>2
<1>5. FramesFrom(toRt')
  <2>1. CASE taken /\ map = m.session
    <3>1. PICK f : f = [type |-> "ack", ev |-> m.ev]
      OBVIOUS
    <3>2. toRt' = SentTo(map, f)
      BY <2>1, <3>1 DEF HandleMessage
    <3>3. f \in Frames
      BY <1>1, <3>1 DEF Frames
    <3>4. Frame(f, op', evMark')
      BY <1>4, <2>1, <3>1, <3>3 DEF Frame
    <3> QED BY <3>2, <3>3, <3>4, FramesSent
  <2>2. CASE ~(taken /\ map = m.session)
    <3>1. toRt' = SentTo(m.session, CloseFrame)
      BY <2>2 DEF HandleMessage
    <3> QED BY <3>1, CloseIsFrame, FramesSent
  <2> QED BY <2>1, <2>2
<1>6. ASSUME Kept
      PROVE  CallsInv'
  <2>1. call \in [Calls -> Requests]
    BY DEF Inv, CallsInv
  <2>2. Free \in Requests /\ Free.phase = "free"
    BY DEF Free, Requests
  <2>3. /\ call' \in [Calls -> Requests]
        /\ \A c \in Calls : call'[c] = call[c] \/ call'[c].phase = "free"
    <3>1. CASE UNCHANGED call
      BY <2>1, <3>1
    <3>2. CASE call' = [c \in Calls |->
                  IF /\ m.type \in Outcomes /\ call[c] # Free
                     /\ call[c].op = m.op /\ call[c].phase = "waiting"
                  THEN Free ELSE call[c]]
      BY <2>1, <2>2, <3>2
    <3> QED BY <3>1, <3>2 DEF HandleMessage
  <2> QED BY <1>6, <2>3, CallsKept
<1>7. ASSUME Kept
      PROVE  WiresInv'
  BY <1>3, <1>5, <1>7, ServerWires
<1>8. CASE records
  BY <1>6, <1>7, <1>8, AnsweredKeeps
<1>9. CASE UNCHANGED <<op, evMark>>
  <2>1. {current', map', session', dying'} \subseteq SessionIds /\ link' \in {"up", "down"}
        /\ srv' \in {"none", "registering", "querying", "resending", "failed"}
    BY DEF Inv, TypeOK, SessionIds
  <2> QED BY <1>6, <1>7, <1>9, <2>1, RowsStay
<1> QED BY <1>2, <1>8, <1>9

LEMMA HandleLiveKeeps == ASSUME Inv, HandleLive PROVE Inv'
<1>1. /\ toSrv # <<>> /\ toSrv' = Tail(toSrv) /\ srv = "resending" /\ HandleMessage(Head(toSrv))
      /\ UNCHANGED <<receiver, resumeAt, current, map, session, cmdMark, dying, link, srv>>
      /\ UNCHANGED late
  BY DEF HandleLive, Active, gateway
<1>2. Head(toSrv) \in Messages /\ Message(Head(toSrv), op, disk, rt, busy, effect)
  <2>1. Head(toSrv) = toSrv[1] /\ 1 \in 1..Len(toSrv)
    BY <1>1, TailParts DEF Inv, WiresInv
  <2> QED BY <1>1, <2>1 DEF Inv, WiresInv, Message
<1> QED BY <1>1, <1>2, HandleKeeps

LEMMA HandleLateKeeps == ASSUME Inv, HandleLate PROVE Inv'
<1>1. /\ late # <<>> /\ late' = Tail(late) /\ HandleMessage(Head(late))
      /\ UNCHANGED <<receiver, resumeAt, current, map, session, cmdMark, dying, link, srv>>
      /\ UNCHANGED toSrv
  BY DEF HandleLate, gateway
<1>2. Head(late) \in Messages /\ Message(Head(late), op, disk, rt, busy, effect)
  <2>1. Head(late) = late[1] /\ 1 \in 1..Len(late)
    BY <1>1, TailParts DEF Inv, WiresInv
  <2> QED BY <1>1, <2>1 DEF Inv, WiresInv, Message
<1> QED BY <1>1, <1>2, HandleKeeps

-------------------------------------------------------------------------------
\* The invariant holds at first and after every step.

LEMMA InitInv == ASSUME Init PROVE Inv
<1>1. /\ op = [o \in Ops |-> NoRow] /\ ran = [o \in Ops |-> 0] /\ effect = {}
      /\ cmdMark = 0 /\ evMark = 0 /\ resumeAt = 0
      /\ current = NoSession /\ map = NoSession /\ session = NoSession /\ dying = NoSession
      /\ link = "down" /\ srv = "none" /\ busy = Idle /\ call = [c \in Calls |-> Free]
      /\ toRt = <<>> /\ toSrv = <<>> /\ late = <<>> /\ rt = EmptyJournal /\ disk = EmptyJournal
  BY DEF Init
<1>2. /\ EmptyJournal \in Journals /\ EmptyJournal.cmd = 0 /\ EmptyJournal.acc = 0
      /\ EmptyJournal.last = 0 /\ DOMAIN EmptyJournal.log = {}
  BY DEF EmptyJournal, Journals
<1>3. /\ NoRow \in Rows /\ NoRow.state = "none" /\ NoRow.seq = 0 /\ NoRow.acc = 0
      /\ NoRow.res = 0
  BY DEF NoRow, Rows, States, SessionIds
<1>4. \A o \in Ops : op[o] = NoRow /\ ran[o] = 0
  BY <1>1
<1>5. TypeOK
  BY <1>1, <1>2, <1>3 DEF TypeOK, Rows, SessionIds
<1>6. RowsInv
  <2>1. \A o \in Ops : Numbered(op[o], cmdMark, evMark)
    BY <1>1, <1>3, <1>4 DEF Numbered, Unresolved
  <2>2. \A o \in Ops : Ended(o, op, disk, rt, busy, effect)
    BY <1>3, <1>4 DEF Ended, Terminal
  <2>3. Mutations \subseteq Ops /\ "none" \notin Held
    BY OpsAssumption DEF Held, Unresolved
  <2> QED BY <1>1, <1>2, <1>3, <1>4, <2>1, <2>2, <2>3 DEF RowsInv
<1>7. CallsInv
  BY <1>1 DEF CallsInv, Free, Requests
<1>8. WiresInv
  BY <1>1 DEF WiresInv
<1>9. JournalsInv
  BY <1>1, <1>2 DEF JournalsInv
<1>10. BusyInv /\ HistoryInv
  BY <1>1, <1>4 DEF BusyInv, HistoryInv
<1> QED BY <1>5, <1>6, <1>7, <1>8, <1>9, <1>10 DEF Inv

LEMMA CallStepKeeps ==
  ASSUME Inv, NEW c \in Calls, CallStep(c) \/ DispatchTimeout(c) \/ \E o \in Ops : Ask(c, o)
  PROVE  Inv'
BY AskKeeps, ReserveKeeps, TargetChangedKeeps, MarkKeeps, DispatchKeeps, TimeoutKeeps
   DEF CallStep

LEMMA ServerStepKeeps == ASSUME Inv, ServerStep PROVE Inv'
BY ReadResumeKeeps, ReadUnresolvedKeeps, ResendKeeps, HandleLiveKeeps, CloseEventKeeps,
   RegisterKeeps DEF ServerStep

LEMMA StutterKeeps == ASSUME Inv, UNCHANGED vars PROVE Inv'
<1>1. /\ UNCHANGED <<op, cmdMark, evMark, receiver, resumeAt, current, map, session, srv, dying>>
      /\ UNCHANGED <<link, late, toSrv, toRt, call>>
  BY DEF vars, store, gateway, wires
<1>2. disk' = disk
  BY <1>1 DEF receiver
<1>3. Kept => WiresInv'
  BY <1>1, <1>2, FramesLeft, WiresStay
<1>4. Kept => CallsInv'
  BY <1>1, CallsStay
<1>5. {current', map', session', dying'} \subseteq SessionIds /\ link' \in {"up", "down"}
      /\ srv' \in {"none", "registering", "querying", "resending", "failed"}
  BY <1>1 DEF Inv, TypeOK, SessionIds
<1> QED BY <1>1, <1>3, <1>4, <1>5, RowsStay

LEMMA NextKeeps == ASSUME Inv, [Next]_vars PROVE Inv'
BY CallStepKeeps, LeaseKeeps, ServerStepKeeps, HandleLateKeeps, RuntimeStepKeeps, LoseKeeps,
   RuntimeCrashKeeps, ServerRestartKeeps, StutterKeeps DEF Next

LEMMA Invariance == Spec => []Inv
BY InitInv, NextKeeps, PTL DEF Spec

-------------------------------------------------------------------------------
\* The properties.

\* The rows, the marks, the sessions and both journals keep their types through every
\* dispatch, registration, replay and crash.
THEOREM ControlTyped == Spec => []TypeOK
<1>1. Inv => TypeOK
  BY DEF Inv
<1> QED BY <1>1, Invariance, PTL

\* Whatever is lost, repeated or replayed from the file, the evidence the runtime resumes
\* with is never behind the server's events nor ahead of its commands, so that register
\* never refuses it (service.ts:126).
THEOREM ResumeEvidence == Spec => []ResumeEvidenceHolds
<1>1. Inv => ResumeEvidenceHolds
  <2> SUFFICES ASSUME Inv
               PROVE  ResumeEvidenceHolds
    OBVIOUS
  <2>1. /\ rt.cmd <= cmdMark /\ rt.acc <= evMark /\ disk.acc <= evMark
        /\ disk.cmd <= rt.cmd /\ disk.last <= rt.last /\ evMark <= disk.last
    BY DEF Inv, JournalsInv, RowsInv
  <2>2. disk.cmd <= cmdMark /\ evMark <= rt.last
    BY <2>1, Numbers
  <2> QED BY <2>1, <2>2 DEF ResumeEvidenceHolds
<1> QED BY <1>1, Invariance, PTL

\* A command that reaches the runtime again is not executed again, for any number of
\* registrations, crashes and lost answers (control_receiver.go:212).
THEOREM NeverTwiceExecuted == Spec => []ExecutedOnce
<1>1. Inv => ExecutedOnce
  BY DEF Inv, HistoryInv, TypeOK, ExecutedOnce
<1> QED BY <1>1, Invariance, PTL

\* What the server records of a mutation is what happened on the machine: a completed one
\* had its effect, a failed one had none and will have none.
THEOREM OutcomesAreTrue == Spec => []OutcomesTrue
<1>1. Inv => OutcomesTrue
  BY OpsAssumption DEF Inv, RowsInv, Ended, Says, Spared, OutcomesTrue
<1> QED BY <1>1, Invariance, PTL

\* An outcome is final: no timeout of a request whose answer came on an old socket, and no
\* recovery, answer or crash changes what was recorded, or afterwards makes or undoes the
\* effect of a mutation (workspace-runtime-dispatcher.ts:224).
OutcomesFinal ==
  [][\A o \in Ops : op[o].state \in Terminal =>
       /\ op'[o].state = op[o].state /\ op'[o].res = op[o].res
       /\ o \in Mutations => (o \in effect' <=> o \in effect)]_vars

\* What a step makes of a terminal row.
Settled(o) == op'[o].state = op[o].state /\ op'[o].res = op[o].res

\* Nothing that may become of one row changes its outcome: the rest of the table is as it was.
LEMMA OneRowSettled ==
  ASSUME Inv, NEW x, NEW row, op' = [op EXCEPT ![x] = row],
         x \in Ops /\ op[x].state \in Terminal => row.state = op[x].state /\ row.res = op[x].res,
         NEW o \in Ops, op[o].state \in Terminal
  PROVE  Settled(o)
<1>1. op'[o] = IF o = x THEN row ELSE op[o]
  BY DEF Inv, TypeOK
<1> QED BY <1>1 DEF Settled

LEMMA StatesSettled ==
  ASSUME Inv, [Next]_vars, NEW o \in Ops, op[o].state \in Terminal
  PROVE  Settled(o)
<1>1. UNCHANGED op => Settled(o)
  BY DEF Settled
<1>2. \A x \in Ops : op[x].state \in Terminal
        => op[x].state \notin {"none", "reserved", "dispatching", "uncertain"}
  BY DEF Terminal
<1>3. ASSUME NEW c \in Calls, CallStep(c) \/ DispatchTimeout(c)
      PROVE  Settled(o)
  <2>1. PICK x : x = call[c].op
    OBVIOUS
  <2>2. ASSUME NEW s, op' = MarkedUncertain(x, s)
        PROVE  Settled(o)
    <3>1. PICK row : row = IF op[x].state = "dispatching" /\ op[x].session = s
                           THEN [op[x] EXCEPT !.state = "uncertain", !.lease = FALSE]
                           ELSE op[x]
      OBVIOUS
    <3>2. op' = [op EXCEPT ![x] = row]
      BY <2>2, <3>1 DEF MarkedUncertain
    <3>3. x \in Ops /\ op[x].state \in Terminal => row.state = op[x].state /\ row.res = op[x].res
      BY <1>2, <3>1
    <3> QED BY <3>2, <3>3, OneRowSettled
  <2>3. CASE Reserve(c)
    <3>1. PICK s : s = call[c].session
      OBVIOUS
    <3>2. CASE MayReserve(x, s)
      <4>1. PICK row : row = [NoRow EXCEPT !.state = "reserved", !.session = s, !.lease = TRUE]
        OBVIOUS
      <4>2. op' = [op EXCEPT ![x] = row]
        BY <2>1, <2>3, <3>1, <3>2, <4>1 DEF Reserve
      <4>3. ~(x \in Ops /\ op[x].state \in Terminal)
        BY <1>2, <3>2 DEF MayReserve
      <4> QED BY <4>2, <4>3, OneRowSettled
    <3>3. CASE ~MayReserve(x, s)
      <4>1. PICK row : row = IF op[x].state = "dispatching" /\ ~op[x].lease /\ op[x].session = s
                             THEN [op[x] EXCEPT !.state = "uncertain"] ELSE op[x]
        OBVIOUS
      <4>2. op' = [op EXCEPT ![x] = row]
        BY <2>1, <2>3, <3>1, <3>3, <4>1 DEF Reserve
      <4>3. x \in Ops /\ op[x].state \in Terminal => row.state = op[x].state /\ row.res = op[x].res
        BY <1>2, <4>1
      <4> QED BY <4>2, <4>3, OneRowSettled
    <3> QED BY <3>2, <3>3
  <2>4. CASE TargetChanged(c)
    <3>1. PICK row : row = IF op[x].state = "reserved" /\ op[x].session = call[c].session
                           THEN [op[x] EXCEPT !.state = "failed", !.lease = FALSE] ELSE op[x]
      OBVIOUS
    <3>2. op' = [op EXCEPT ![x] = row]
      BY <2>1, <2>4, <3>1 DEF TargetChanged
    <3>3. x \in Ops /\ op[x].state \in Terminal => row.state = op[x].state /\ row.res = op[x].res
      BY <1>2, <3>1
    <3> QED BY <3>2, <3>3, OneRowSettled
  <2>5. CASE MarkDispatchAttempted(c)
    <3>1. CASE MayDispatch(x, call[c].session)
      <4>1. PICK row : row = [op[x] EXCEPT !.state = "dispatching", !.seq = cmdMark + 1,
                                           !.lease = TRUE]
        OBVIOUS
      <4>2. op' = [op EXCEPT ![x] = row]
        <5>1. op' = [op EXCEPT ![x].state = "dispatching", ![x].seq = cmdMark + 1,
                               ![x].lease = TRUE]
          BY <2>1, <2>5, <3>1 DEF MarkDispatchAttempted
        <5>2. op \in [Ops -> Rows]
          BY DEF Inv, TypeOK, Rows, SessionIds
        <5> QED BY <4>1, <5>1, <5>2
      <4>3. ~(x \in Ops /\ op[x].state \in Terminal)
        BY <1>2, <3>1 DEF MayDispatch
      <4> QED BY <4>2, <4>3, OneRowSettled
    <3>2. CASE ~MayDispatch(x, call[c].session)
      BY <1>1, <2>1, <2>5, <3>2 DEF MarkDispatchAttempted
    <3> QED BY <3>1, <3>2
  <2>6. CASE DispatchControl(c)
    <3>1. UNCHANGED op \/ op' = MarkedUncertain(x, call[c].session)
      BY <2>1, <2>6 DEF DispatchControl
    <3> QED BY <1>1, <2>2, <3>1
  <2>7. CASE DispatchTimeout(c)
    <3>1. op' = MarkedUncertain(x, call[c].session)
      BY <2>1, <2>7 DEF DispatchTimeout
    <3> QED BY <2>2, <3>1
  <2> QED BY <1>3, <2>3, <2>4, <2>5, <2>6, <2>7 DEF CallStep
<1>4. ASSUME NEW m, HandleMessage(m)
      PROVE  Settled(o)
  <2>1. CASE UNCHANGED op
    BY <1>1, <2>1
  <2>2. CASE Records(op[m.op], m) /\ op' = [op EXCEPT ![m.op] = Answered(op[m.op], m)]
    <3>1. PICK x, row : x = m.op /\ row = Answered(op[x], m)
      OBVIOUS
    <3>2. ~(x \in Ops /\ op[x].state \in Terminal)
      BY <1>2, <2>2, <3>1 DEF Records, Unresolved
    <3>3. op' = [op EXCEPT ![x] = row]
      BY <2>2, <3>1
    <3> QED BY <3>2, <3>3, OneRowSettled
  <2> QED BY <1>4, <2>1, <2>2 DEF HandleMessage
<1>5. ASSUME NEW x \in Ops, LeaseExpires(x)
      PROVE  Settled(o)
  <2>1. PICK row : row = [op[x] EXCEPT !.lease = FALSE]
    OBVIOUS
  <2>2. op' = [op EXCEPT ![x] = row]
    BY <1>5, <2>1 DEF LeaseExpires, Inv, TypeOK
  <2>3. row.state = op[x].state /\ row.res = op[x].res
    BY <2>1
  <2> QED BY <2>2, <2>3, OneRowSettled
<1>6. CASE ServerStep
  <2>1. CASE Resend
    <3>1. PICK x \in Ops : UNCHANGED op \/ (op[x].state \in Unresolved /\ op' = Rebound(x))
      BY <2>1 DEF Resend
    <3>2. CASE op[x].state \in Unresolved /\ op' = Rebound(x)
      <4>1. PICK row : row = [op[x] EXCEPT !.session = session]
        OBVIOUS
      <4>2. op' = [op EXCEPT ![x] = row]
        BY <3>2, <4>1 DEF Rebound, Inv, TypeOK
      <4>3. op[x].state \notin Terminal
        BY <1>2, <3>2 DEF Unresolved
      <4> QED BY <4>2, <4>3, OneRowSettled
    <3> QED BY <1>1, <3>1, <3>2
  <2>2. CASE HandleLive
    BY <1>4, <2>2 DEF HandleLive
  <2>3. CASE ReadResume \/ ReadUnresolved \/ CloseEvent \/ \E s \in Sessions : Register(s)
    BY <1>1, <2>3 DEF ReadResume, ReadUnresolved, CloseEvent, Register, store
  <2> QED BY <1>6, <2>1, <2>2, <2>3 DEF ServerStep
<1>7. CASE HandleLate
  BY <1>4, <1>7 DEF HandleLate
<1>8. CASE RuntimeStep
  <2>1. CASE Dial
    BY <1>1, <2>1 DEF Dial, store
  <2>2. CASE Accept
    BY <1>1, <2>2 DEF Accept, store
  <2>3. UNCHANGED quietServer => Settled(o)
    BY <1>1 DEF quietServer, store
  <2>4. CASE Bind
    BY <2>3, <2>4 DEF Bind
  <2>5. CASE Acknowledge
    BY <2>3, <2>5 DEF Acknowledge
  <2>6. CASE Replay
    BY <2>3, <2>6 DEF Replay
  <2>7. CASE Prepare
    BY <2>3, <2>7 DEF Prepare
  <2>8. CASE Execute
    BY <2>3, <2>8 DEF Execute
  <2>9. CASE Conclude
    BY <2>3, <2>9 DEF Conclude
  <2>10. CASE Closed
    BY <2>3, <2>10 DEF Closed
  <2> QED BY <1>8, <2>1, <2>2, <2>4, <2>5, <2>6, <2>7, <2>8, <2>9, <2>10 DEF RuntimeStep
<1>9. CASE (\E c \in Calls, x \in Ops : Ask(c, x)) \/ Lose \/ RuntimeCrash \/ ServerRestart
           \/ UNCHANGED vars
  BY <1>1, <1>9 DEF Ask, Lose, RuntimeCrash, ServerRestart, vars, store
<1> QED BY <1>3, <1>5, <1>6, <1>7, <1>8, <1>9 DEF Next

\* An outcome is final: neither the row nor, for a mutation, the machine changes once it is
\* recorded, whatever times out, is sent again or was under way on a replaced socket
\* (workspace-runtime-dispatcher.ts:224).
THEOREM OutcomesStayFinal == Spec => OutcomesFinal
<1>1. Inv => OutcomesTrue
  BY OpsAssumption DEF Inv, RowsInv, Ended, Says, Spared, OutcomesTrue
<1>2. Inv' => OutcomesTrue'
  BY OpsAssumption DEF Inv, RowsInv, Ended, Says, Spared, OutcomesTrue
<1>3. ASSUME Inv, Inv', [Next]_vars, NEW o \in Ops, op[o].state \in Terminal
      PROVE  /\ op'[o].state = op[o].state /\ op'[o].res = op[o].res
             /\ o \in Mutations => (o \in effect' <=> o \in effect)
  <2>1. op'[o].state = op[o].state /\ op'[o].res = op[o].res
    BY <1>3, StatesSettled DEF Settled
  <2>2. CASE op[o].state = "completed"
    BY <1>1, <1>2, <1>3, <2>1, <2>2 DEF OutcomesTrue
  <2>3. CASE op[o].state = "failed"
    BY <1>1, <1>2, <1>3, <2>1, <2>3 DEF OutcomesTrue
  <2> QED BY <1>3, <2>1, <2>2, <2>3 DEF Terminal
<1>4. Inv /\ Inv' /\ [Next]_vars
        => [\A o \in Ops : op[o].state \in Terminal =>
              /\ op'[o].state = op[o].state /\ op'[o].res = op[o].res
              /\ o \in Mutations => (o \in effect' <=> o \in effect)]_vars
  BY <1>3
<1> QED BY <1>4, Invariance, PTL DEF Spec, OutcomesFinal

\* While the runtime works on a mutation, no other one is reserved or unresolved
\* (postgres-operation-store.ts:118).
THEOREM FenceKeepsApart == Spec => []MutationsFenced
<1>1. Inv => MutationsFenced
  <2> SUFFICES ASSUME Inv, busy # Idle, busy.op \in Mutations, Fenced(busy.op)
               PROVE  FALSE
    BY DEF MutationsFenced
  <2>1. op[busy.op].state \in Held
    BY DEF Inv, BusyInv, Held
  <2>2. PICK p \in Mutations \ {busy.op} : op[p].state \in Held
    BY DEF Fenced, Held
  <2> QED BY <2>1, <2>2 DEF Inv, RowsInv
<1> QED BY <1>1, Invariance, PTL

=================================================================================
