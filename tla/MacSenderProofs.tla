--------------------------- MODULE MacSenderProofs ---------------------------
(***************************************************************************)
(* Theorems about MacSender, for any number of connections, any subset of  *)
(* the capture threads, any modulus and any bounds.                        *)
(***************************************************************************)
EXTENDS MacSender, ModuloLemmas, FiniteSetTheorems

USE NumChannelsAssumption, SeqModAssumption, ReadersAssumption, MacBoundsAssumption

\* The four kinds of thread are different threads.
LEMMA ThreadsDiffer ==
    /\ Readers \subseteq Types
    /\ Readers \subseteq Threads /\ Readers \subseteq Senders
    /\ RunLoop \in Threads /\ RunLoop \in Senders /\ RunLoop \notin Readers
    /\ Main \in Threads /\ Main \notin Senders /\ Main # RunLoop
    /\ Senders \subseteq Threads
BY DEF Types, TYPE_KEYBOARD, TYPE_POINTER, Threads, Senders, RunLoop, Main

\* Zero is not a channel, nor a session; the placeholder is not an item.
LEMMA Placeholders ==
    /\ NoChannel \notin Channels /\ NoSession \notin Sessions
    /\ Sessions = Channels
    /\ NoItem \notin Item /\ ~IsPacket(NoItem)
BY DEF NoChannel, NoSession, Channels, Sessions, NoItem, Item, IsPacket, Types,
       TYPE_KEYBOARD, TYPE_POINTER, HEADER

\* The next sequence number is again below the modulus.
LEMMA NextSeqnoType ==
    ASSUME NEW n \in Nat
    PROVE  next_seqno(n) \in 0 .. SeqMod - 1
BY RemainderRange, n + 1 \in Nat, SeqMod \in Nat \ {0} DEF next_seqno

-----------------------------------------------------------------------------
(* The link.                                                               *)

LEMMA DropType ==
    ASSUME LinkTypeOK, NEW c \in Channels, Drop(c)
    PROVE  LinkTypeOK'
BY DEF LinkTypeOK, Drop

LEMMA PutType ==
    ASSUME LinkTypeOK, NEW c \in Channels, NEW item \in Item, Put(c, item)
    PROVE  LinkTypeOK'
BY DEF LinkTypeOK, Put

LEMMA TailType ==
    ASSUME LinkTypeOK, toMac # <<>>
    PROVE  Tail(toMac) \in Seq([event : {"opened", "closed"}, ch : Channels])
BY DEF LinkTypeOK

-----------------------------------------------------------------------------

USE DEF ReaderSteps, RunLoopSteps, MainSteps

LEMMA InitType == Init => MacTypeOK
<1> SUFFICES ASSUME Init PROVE MacTypeOK
  OBVIOUS
<1> USE ThreadsDiffer, Placeholders DEF Init, LinkInit, MacInit
<1>1. LinkTypeOK
  <2>1. /\ <<>> \in Seq(Item)
        /\ <<>> \in Seq([event : {"opened", "closed"}, ch : Channels])
    OBVIOUS
  <2> QED
    BY <2>1 DEF LinkTypeOK
<1>2. /\ pc \in [Threads -> ReaderSteps \cup RunLoopSteps \cup MainSteps]
      /\ \A r \in Readers : pc[r] = "idle"
      /\ pc[RunLoop] = "publish" /\ pc[Main] = "up"
  BY DEF FreshThreads
<1>3. \A t \in Senders : pc[t] \notin {"fetch", "write"}
  BY <1>2 DEF Senders
<1>4. /\ seqno \in 0 .. SeqMod - 1
      /\ encryptor \in Sessions \cup {NoSession}
      /\ channel \in Channels \cup {NoChannel}
      /\ accepting \in Channels \cup {NoChannel}
      /\ sealed \in [Sessions -> Nat]
      /\ out \in [Senders -> Item \cup {NoItem}]
      /\ target \in [Threads -> Channels \cup {NoChannel}]
      /\ failures \in Nat /\ leaked \in Nat
  OBVIOUS
<1> QED
  BY <1>1, <1>2, <1>3, <1>4 DEF MacTypeOK

LEMMA ReaderType ==
    ASSUME MacTypeOK, NEW r \in Readers,
           Capture(r) \/ CheckConnected(r) \/ Seal(r) \/ SealDropped(r)
    PROVE  MacTypeOK'
<1> USE ThreadsDiffer, Placeholders DEF MacTypeOK, Goto, linkVars, LinkTypeOK, serverVars, daemonVars
<1>1. CASE Capture(r)
  BY <1>1 DEF Capture
<1>2. CASE CheckConnected(r)
  BY <1>2 DEF CheckConnected
<1>3. CASE Seal(r)
  <2>1. build_packet(r, seqno, encryptor, sealed[encryptor]) \in Item
    BY <1>3 DEF Seal, build_packet, Item
  <2>2. next_seqno(seqno) \in 0 .. SeqMod - 1
    <3>1. seqno \in Nat
      OBVIOUS
    <3> QED
      BY <3>1, NextSeqnoType
  <2> QED
    BY <1>3, <2>1, <2>2 DEF Seal
<1>4. CASE SealDropped(r)
  BY <1>4 DEF SealDropped
<1> QED
  BY <1>1, <1>2, <1>3, <1>4

LEMMA SendType ==
    ASSUME MacTypeOK, NEW t \in Senders, Send(t)
    PROVE  MacTypeOK'
<1> USE ThreadsDiffer, Placeholders
    DEF MacTypeOK, Goto, linkVars, serverVars, daemonVars
<1>1. CASE SendFetch(t)
  BY <1>1 DEF SendFetch, LinkTypeOK
<1>2. ASSUME NEW from, SendDone(t, from), LinkTypeOK', failures' \in Nat
      PROVE  MacTypeOK'
  BY <1>2 DEF SendDone
<1>3. CASE SendNoChannel(t)
  BY <1>2, <1>3 DEF SendNoChannel, LinkTypeOK
<1>4. CASE SendWrite(t)
  <2>1. LinkTypeOK'
    BY <1>4, PutType DEF SendWrite
  <2> QED
    BY <1>2, <1>4, <2>1 DEF SendWrite
<1>5. CASE SendFails(t)
  <2>1. LinkTypeOK' /\ failures' \in Nat
    BY <1>5 DEF SendFails, LinkTypeOK
  <2> QED
    BY <1>2, <1>5, <2>1 DEF SendFails
<1> QED
  BY <1>1, <1>3, <1>4, <1>5 DEF Send

LEMMA RunLoopType ==
    ASSUME MacTypeOK, RunLoopStep
    PROVE  MacTypeOK'
<1> USE ThreadsDiffer, Placeholders
    DEF MacTypeOK, Goto, linkVars, serverVars, daemonVars
<1>1. CASE PublishService
  BY <1>1 DEF PublishService, LinkTypeOK
<1>2. CASE Announce
  BY <1>2 DEF Announce, LinkTypeOK
<1>3. CASE NewSession
  <2>1. header(accepting) \in Item
    BY <1>3 DEF NewSession, header, Item
  <2>2. 0 \in 0 .. SeqMod - 1
    OBVIOUS
  <2> QED
    BY <1>3, <2>1, <2>2 DEF NewSession, LinkTypeOK
<1>4. CASE DropChannel
  BY <1>4 DEF DropChannel, LinkTypeOK
<1>5. CASE EndSession
  <2>1. 0 \in 0 .. SeqMod - 1
    OBVIOUS
  <2> QED
    BY <1>5, <2>1 DEF EndSession, LinkTypeOK
<1>6. ASSUME NEW c \in Channels,
             ClientConnected(c) \/ ClientRejected(c) \/ ChannelClosed(c)
      PROVE  MacTypeOK'
  <2>1. Tail(toMac) \in Seq([event : {"opened", "closed"}, ch : Channels])
    BY <1>6, TailType DEF ClientConnected, ClientRejected, ChannelClosed, Callback
  <2>2. CASE ClientConnected(c)
    BY <2>1, <2>2 DEF ClientConnected, LinkTypeOK
  <2>3. CASE ClientRejected(c)
    <3>1. LinkTypeOK'
      BY <2>1, <2>3 DEF ClientRejected, LinkTypeOK
    <3> QED
      BY <3>1, <2>3 DEF ClientRejected, macVars, threadVars
  <2>4. CASE ChannelClosed(c)
    BY <2>1, <2>4 DEF ChannelClosed, LinkTypeOK
  <2> QED
    BY <1>6, <2>2, <2>3, <2>4
<1>7. CASE Send(RunLoop)
  BY <1>7, SendType
<1> QED
  BY <1>1, <1>2, <1>3, <1>4, <1>5, <1>6, <1>7 DEF RunLoopStep

LEMMA MainType ==
    ASSUME MacTypeOK, Toggle \/ MainStep
    PROVE  MacTypeOK'
<1> USE ThreadsDiffer, Placeholders
    DEF MacTypeOK, Goto, linkVars, serverVars, daemonVars
<1>1. CASE Toggle
  BY <1>1 DEF Toggle, LinkTypeOK, threadVars
<1>2. CASE StopCapture
  <2>1. LinkTypeOK'
    BY <1>2 DEF StopCapture, LinkTypeOK
  <2>2. ASSUME NEW to \in MainSteps, pc' = [pc EXCEPT ![Main] = to]
        PROVE  MacTypeOK'
    BY <1>2, <2>1, <2>2 DEF StopCapture
  <2> QED
    BY <1>2, <2>2 DEF StopCapture
<1>3. CASE CloseChannel
  <2>1. LinkTypeOK'
    BY <1>3, DropType DEF CloseChannel, LinkTypeOK, OpenChannels
  <2> QED
    BY <1>3, <2>1 DEF CloseChannel
<1>7. CASE TakeChannel
  BY <1>7 DEF TakeChannel, LinkTypeOK
<1>4. CASE ClearConnected
  BY <1>4 DEF ClearConnected, LinkTypeOK
<1>5. CASE ProcessEnds
  <2>1. LinkTypeOK'
    <3>1. <<>> \in Seq([event : {"opened", "closed"}, ch : Channels])
      OBVIOUS
    <3> QED
      BY <1>5, <3>1 DEF ProcessEnds, HostGone, LinkTypeOK
  <2>2. 0 \in 0 .. SeqMod - 1
    OBVIOUS
  <2> QED
    BY <1>5, <2>1, <2>2 DEF ProcessEnds
<1>6. CASE Launch
  <2>1. /\ FreshThreads \in [Threads -> ReaderSteps \cup RunLoopSteps \cup MainSteps]
        /\ \A r \in Readers : FreshThreads[r] = "idle"
        /\ FreshThreads[RunLoop] = "publish" /\ FreshThreads[Main] = "up"
    BY DEF FreshThreads
  <2>2. \A t \in Senders : FreshThreads[t] \notin {"fetch", "write"}
    BY <2>1 DEF Senders
  <2>3. LinkTypeOK'
    BY <1>6 DEF Launch, LinkTypeOK
  <2>4. pc' = FreshThreads
    BY <1>6 DEF Launch
  <2> QED
    BY <1>6, <2>1, <2>2, <2>3, <2>4 DEF Launch
<1> QED
  BY <1>1, <1>2, <1>3, <1>4, <1>5, <1>6, <1>7 DEF MainStep

LEMMA ClientsType ==
    ASSUME MacTypeOK, Clients
    PROVE  MacTypeOK'
<1>1. PICK c \in Channels : Open(c) \/ Drop(c)
  BY DEF Clients
<1>2. CASE Open(c)
  <2>1. [event |-> "opened", ch |-> c] \in [event : {"opened", "closed"}, ch : Channels]
    OBVIOUS
  <2> QED
    BY <1>2, <2>1 DEF MacTypeOK, LinkTypeOK, Open, Clients, macVars, daemonVars,
                      serverVars, threadVars
<1>3. CASE Drop(c)
  <2>1. LinkTypeOK'
    BY <1>3, DropType DEF MacTypeOK
  <2> QED
    BY <2>1 DEF MacTypeOK, Clients, macVars, daemonVars, serverVars, threadVars
<1> QED
  BY <1>1, <1>2, <1>3

LEMMA MacTypeStep == MacTypeOK /\ [Next]_vars => MacTypeOK'
<1> SUFFICES ASSUME MacTypeOK, [Next]_vars PROVE MacTypeOK'
  OBVIOUS
<1>1. CASE \E r \in Readers : ReaderStep(r)
  BY <1>1, ReaderType, SendType, ThreadsDiffer DEF ReaderStep
<1>2. CASE MacNext
  BY <1>1, <1>2, RunLoopType, MainType DEF MacNext
<1>3. CASE Clients
  BY <1>3, ClientsType
<1>4. CASE UNCHANGED vars
  BY <1>4 DEF vars, macVars, daemonVars, serverVars, threadVars, linkVars,
              MacTypeOK, LinkTypeOK
<1> QED
  BY <1>2, <1>3, <1>4 DEF Next

(***************************************************************************)
(* Type correctness of the Mac side, with the facts about a thread's       *)
(* locals that its next statement relies on: a sender about to write holds *)
(* an item and a channel, a callback in progress holds its channel.        *)
(***************************************************************************)
THEOREM TypeCorrect == Spec => []MacTypeOK
BY InitType, MacTypeStep, PTL DEF Spec

-----------------------------------------------------------------------------
(* Sequence numbers and the cipher stream.                                 *)

\* A write adds at most its item to the packets of a channel.
LEMMA PacketsAfterPut ==
    ASSUME LinkTypeOK, NEW c \in Channels, NEW item, Put(c, item),
           NEW d \in Channels, NEW p \in Packets(d)'
    PROVE  p \in Packets(d) \/ (p = item /\ IsPacket(item))
<1>1. PICK k \in DOMAIN wire'[d] : p = wire'[d][k] /\ IsPacket(p)
  BY DEF Packets, Stream, IsPacket
<1>2. CASE d # c
  BY <1>1, <1>2 DEF Put, LinkTypeOK, Packets, Stream, IsPacket
<1>3. CASE d = c
  <2>1. wire'[c] = Append(wire[c], item) /\ wire[c] \in Seq(Item)
    BY DEF Put, LinkTypeOK
  <2>2. CASE k \in DOMAIN wire[c]
    BY <1>1, <1>3, <2>1, <2>2 DEF Packets, Stream
  <2>3. CASE k = Len(wire[c]) + 1
    BY <1>1, <1>3, <2>1, <2>3
  <2> QED
    BY <1>1, <1>3, <2>1, <2>2, <2>3
<1> QED
  BY <1>2, <1>3

\* What keeps the property without looking further.
LEMMA SeqnoFrame ==
    ASSUME SeqnoMatchesStream, UNCHANGED <<encryptor, seqno, sealed, out, wire>>
    PROVE  SeqnoMatchesStream'
BY DEF SeqnoMatchesStream, Packets, Stream, Aligned, IsPacket

\* A header is not a packet, and the modulus leaves 0 alone.
LEMMA HeaderIsNoPacket == \A s : ~IsPacket(header(s))
BY DEF header, IsPacket, HEADER, Types, TYPE_KEYBOARD, TYPE_POINTER

LEMMA SealKeepsSeqno ==
    ASSUME MacTypeOK, SeqnoMatchesStream, NEW r \in Readers, Seal(r)
    PROVE  SeqnoMatchesStream'
<1>1. encryptor \in Sessions /\ sealed[encryptor] \in Nat
  BY Placeholders DEF Seal, MacTypeOK
<1>2. seqno = sealed[encryptor] % SeqMod
  BY DEF Seal, SeqnoMatchesStream
<1>3. seqno' = sealed'[encryptor'] % SeqMod
  <2>1. sealed'[encryptor'] = sealed[encryptor] + 1 /\ encryptor' = encryptor
    BY <1>1 DEF Seal, MacTypeOK
  <2>2. seqno' = (seqno + 1) % SeqMod
    BY DEF Seal, next_seqno
  <2> QED
    BY <1>1, <1>2, <2>1, <2>2, ModuloIncrement, SeqMod \in Nat \ {0}
<1>4. \A t \in Senders : IsPacket(out'[t]) => Aligned(out'[t])
  <2>1. Aligned(build_packet(r, seqno, encryptor, sealed[encryptor]))
    BY <1>2 DEF Aligned, build_packet
  <2> QED
    BY <2>1, ThreadsDiffer DEF Seal, SeqnoMatchesStream, MacTypeOK
<1>5. wire' = wire
  BY DEF Seal, linkVars
<1> QED
  BY <1>3, <1>4, <1>5 DEF SeqnoMatchesStream, Packets, Stream, Aligned, IsPacket

LEMMA SendKeepsSeqno ==
    ASSUME MacTypeOK, SeqnoMatchesStream, NEW t \in Senders, Send(t)
    PROVE  SeqnoMatchesStream'
<1> USE ThreadsDiffer, Placeholders
<1>1. CASE SendFetch(t)
  BY <1>1, SeqnoFrame DEF SendFetch, daemonVars, linkVars
<1>2. ASSUME NEW from, SendDone(t, from)
      PROVE  /\ encryptor # NoSession => seqno' = sealed'[encryptor'] % SeqMod
             /\ encryptor' = encryptor
             /\ \A u \in Senders : IsPacket(out'[u]) => Aligned(out'[u])
  BY <1>2 DEF SendDone, daemonVars, SeqnoMatchesStream, MacTypeOK
<1>3. CASE SendNoChannel(t) \/ SendFails(t)
  <2>1. wire' = wire
    BY <1>3 DEF SendNoChannel, SendFails, linkVars
  <2>2. \E from : SendDone(t, from)
    BY <1>3 DEF SendNoChannel, SendFails
  <2> QED
    BY <1>2, <2>1, <2>2 DEF SeqnoMatchesStream, Packets, Stream, Aligned, IsPacket
<1>4. CASE SendWrite(t)
  <2>1. target[t] \in Channels /\ Put(target[t], out[t]) /\ LinkTypeOK
    BY <1>4 DEF SendWrite, MacTypeOK
  <2>2. ASSUME NEW c \in Channels, NEW p \in Packets(c)'
        PROVE  Aligned(p)
    BY <2>1, <2>2, PacketsAfterPut DEF SeqnoMatchesStream
  <2> QED
    BY <1>2, <1>4, <2>2 DEF SendWrite, SeqnoMatchesStream, Aligned
<1> QED
  BY <1>1, <1>3, <1>4 DEF Send

LEMMA SessionKeepsSeqno ==
    ASSUME MacTypeOK, SeqnoMatchesStream, NewSession \/ EndSession \/ ProcessEnds
    PROVE  SeqnoMatchesStream'
<1> USE ThreadsDiffer, Placeholders
<1>1. wire' = wire
  BY DEF NewSession, EndSession, ProcessEnds, HostGone, linkVars
<1>2. encryptor' # NoSession => seqno' = sealed'[encryptor'] % SeqMod
  <2>1. CASE NewSession
    <3>1. encryptor' = accepting /\ sealed'[accepting] = 0 /\ seqno' = 0
      BY <2>1 DEF NewSession, Goto, MacTypeOK
    <3> QED
      BY <3>1, ZeroRemainder
  <2>2. CASE EndSession \/ ProcessEnds
    BY <2>2 DEF EndSession, ProcessEnds
  <2> QED
    BY <2>1, <2>2
<1>3. \A t \in Senders : IsPacket(out'[t]) => Aligned(out'[t])
  <2>1. CASE NewSession
    BY <2>1, HeaderIsNoPacket DEF NewSession, SeqnoMatchesStream, MacTypeOK
  <2>2. CASE EndSession
    BY <2>2 DEF EndSession, SeqnoMatchesStream
  <2>3. CASE ProcessEnds
    BY <2>3 DEF ProcessEnds
  <2> QED
    BY <2>1, <2>2, <2>3
<1> QED
  BY <1>1, <1>2, <1>3 DEF SeqnoMatchesStream, Packets, Stream, Aligned, IsPacket

(***************************************************************************)
(* The clear sequence number of every packet written, or about to be, is   *)
(* its position in the cipher stream modulo 2^32, in every interleaving.   *)
(***************************************************************************)
THEOREM SeqnoCorrect == Spec => []SeqnoMatchesStream
<1>1. Init => SeqnoMatchesStream
  BY ThreadsDiffer, Placeholders
     DEF Init, LinkInit, MacInit, SeqnoMatchesStream, Packets, Stream
<1>2. MacTypeOK /\ SeqnoMatchesStream /\ [Next]_vars => SeqnoMatchesStream'
  <2> SUFFICES ASSUME MacTypeOK, SeqnoMatchesStream, [Next]_vars
               PROVE  SeqnoMatchesStream'
    OBVIOUS
  <2> USE DEF daemonVars, serverVars, threadVars, macVars, linkVars
  <2>1. ASSUME NEW r \in Readers, ReaderStep(r)
        PROVE  SeqnoMatchesStream'
    <3>1. CASE Capture(r) \/ CheckConnected(r) \/ SealDropped(r)
      BY <3>1, SeqnoFrame DEF Capture, CheckConnected, SealDropped
    <3> QED
      BY <2>1, <3>1, SealKeepsSeqno, SendKeepsSeqno, ThreadsDiffer DEF ReaderStep
  <2>2. CASE RunLoopStep
    <3>1. CASE PublishService \/ Announce \/ DropChannel
      BY <3>1, SeqnoFrame DEF PublishService, Announce, DropChannel
    <3>2. ASSUME NEW c \in Channels,
                 ClientConnected(c) \/ ClientRejected(c) \/ ChannelClosed(c)
          PROVE  SeqnoMatchesStream'
      BY <3>2, SeqnoFrame DEF ClientConnected, ClientRejected, ChannelClosed
    <3> QED
      BY <2>2, <3>1, <3>2, SessionKeepsSeqno, SendKeepsSeqno, ThreadsDiffer
         DEF RunLoopStep
  <2>3. CASE Toggle \/ StopCapture \/ TakeChannel \/ ClearConnected \/ Launch
    BY <2>3, SeqnoFrame DEF Toggle, StopCapture, TakeChannel, ClearConnected, Launch
  <2>4. CASE CloseChannel
    <3>1. wire' = wire
      BY <2>4 DEF CloseChannel, Drop
    <3> QED
      BY <2>4, <3>1, SeqnoFrame DEF CloseChannel
  <2>5. CASE Clients
    BY <2>5, SeqnoFrame DEF Clients, Open, Drop
  <2>6. CASE UNCHANGED vars
    BY <2>6, SeqnoFrame DEF vars
  <2> QED
    BY <2>1, <2>2, <2>3, <2>4, <2>5, <2>6, SessionKeepsSeqno DEF Next, MacNext, MainStep
<1> QED
  BY <1>1, <1>2, TypeCorrect, PTL DEF Spec

-----------------------------------------------------------------------------
(* Pausing.  What a pause still lets through was checked before it: each   *)
(* packet sealed during the pause uses up one such check.                  *)

Checked == {r \in Readers : pc[r] \in {"check", "seal"}}

PauseInv ==
    /\ forwarding => leaked = 0
    /\ leaked <= Cardinality(Readers \ Checked)

LEMMA ReadersFinite ==
    ASSUME NEW S \in SUBSET Readers
    PROVE  /\ IsFiniteSet(S) /\ Cardinality(S) \in Nat
           /\ Cardinality(S) <= Cardinality(Readers)
<1>1. IsFiniteSet({TYPE_KEYBOARD, TYPE_POINTER})
  <2>1. IsFiniteSet({} \cup {TYPE_KEYBOARD})
    BY FS_EmptySet, FS_AddElement
  <2>2. IsFiniteSet(({} \cup {TYPE_KEYBOARD}) \cup {TYPE_POINTER})
    BY <2>1, FS_AddElement
  <2> QED
    BY <2>2, ({} \cup {TYPE_KEYBOARD}) \cup {TYPE_POINTER} = {TYPE_KEYBOARD, TYPE_POINTER}
<1>2. IsFiniteSet(Readers)
  BY <1>1, FS_Subset DEF Types
<1> QED
  BY <1>2, FS_Subset, FS_CardinalityType

\* Nothing was let through since, and no thread passed the check meanwhile.
LEMMA PauseFrame ==
    ASSUME MacTypeOK, PauseInv, UNCHANGED <<forwarding, leaked>>, Checked' \subseteq Checked
    PROVE  PauseInv'
<1>1. Readers \ Checked \subseteq Readers \ Checked'
  OBVIOUS
<1>2. Cardinality(Readers \ Checked) <= Cardinality(Readers \ Checked')
  BY <1>1, ReadersFinite, FS_Subset, Readers \ Checked' \in SUBSET Readers
<1>3. /\ Cardinality(Readers \ Checked) \in Nat
      /\ Cardinality(Readers \ Checked') \in Nat
  BY ReadersFinite, Readers \ Checked' \in SUBSET Readers,
     Readers \ Checked \in SUBSET Readers
<1> QED
  BY <1>2, <1>3 DEF PauseInv, MacTypeOK

\* Nothing is let through at all.
LEMMA PauseReset ==
    ASSUME leaked' = 0
    PROVE  PauseInv'
BY ReadersFinite, Readers \ Checked' \in SUBSET Readers DEF PauseInv

LEMMA SealKeepsPause ==
    ASSUME MacTypeOK, PauseInv, NEW r \in Readers, Seal(r)
    PROVE  PauseInv'
<1>1. r \in Checked /\ Checked' = Checked \ {r}
  BY ThreadsDiffer DEF Seal, Goto, Checked, MacTypeOK
<1> DEFINE Used == Readers \ Checked
<1>2. Used \in SUBSET Readers /\ r \notin Used /\ Readers \ Checked' = Used \cup {r}
  BY <1>1
<1>3. Cardinality(Used \cup {r}) = Cardinality(Used) + 1 /\ Cardinality(Used) \in Nat
  BY <1>2, ReadersFinite, FS_AddElement
<1>4. leaked <= Cardinality(Used) /\ leaked \in Nat
  BY DEF PauseInv, MacTypeOK
<1>5. leaked' <= Cardinality(Used) + 1 /\ (forwarding' => leaked' = 0)
  BY <1>3, <1>4 DEF Seal, PauseInv
<1> QED
  BY <1>2, <1>3, <1>5 DEF PauseInv

(***************************************************************************)
(* After a pause at most one packet per capture thread is still sealed,    *)
(* although _forwarding is read without the lock.                          *)
(***************************************************************************)
THEOREM PauseBounded == Spec => []PauseIsBounded
<1>1. Init => PauseInv
  BY ReadersFinite, Readers \ Checked \in SUBSET Readers DEF Init, MacInit, PauseInv
<1>2. MacTypeOK /\ PauseInv /\ [Next]_vars => PauseInv'
  <2> SUFFICES ASSUME MacTypeOK, PauseInv, [Next]_vars PROVE PauseInv'
    OBVIOUS
  <2> USE ThreadsDiffer DEF daemonVars, serverVars, threadVars, macVars, Goto, Checked
  <2>1. ASSUME NEW t \in Senders, Send(t)
        PROVE  PauseInv'
    BY <2>1, PauseFrame
       DEF Send, SendFetch, SendNoChannel, SendWrite, SendFails, SendDone, MacTypeOK
  <2>2. ASSUME NEW r \in Readers, ReaderStep(r)
        PROVE  PauseInv'
    <3>1. CASE Capture(r)
      <4>1. leaked' = 0
        BY <3>1 DEF Capture, PauseInv
      <4> QED
        BY <4>1, PauseReset
    <3>2. CASE CheckConnected(r)
      BY <3>2, PauseFrame DEF CheckConnected, MacTypeOK
    <3>3. CASE SealDropped(r)
      BY <3>3, PauseFrame DEF SealDropped, MacTypeOK
    <3> QED
      BY <2>1, <2>2, <3>1, <3>2, <3>3, SealKeepsPause DEF ReaderStep
  <2>3. CASE RunLoopStep
    <3>1. UNCHANGED <<forwarding, leaked>> \/ Send(RunLoop)
      BY <2>3 DEF RunLoopStep, PublishService, Announce, NewSession, DropChannel,
                  EndSession, ClientConnected, ClientRejected, ChannelClosed
    <3>2. Checked' \subseteq Checked \/ Send(RunLoop)
      BY <2>3 DEF RunLoopStep, PublishService, Announce, NewSession, DropChannel,
                  EndSession, ClientConnected, ClientRejected, ChannelClosed, MacTypeOK
    <3> QED
      BY <2>1, <3>1, <3>2, PauseFrame
  <2>4. CASE Toggle \/ ProcessEnds
    BY <2>4, PauseReset DEF Toggle, ProcessEnds
  <2>5. CASE StopCapture \/ TakeChannel \/ CloseChannel \/ ClearConnected
    BY <2>5, PauseFrame
       DEF StopCapture, TakeChannel, CloseChannel, ClearConnected, MacTypeOK
  <2>6. CASE Launch
    BY <2>6, PauseFrame DEF Launch, FreshThreads
  <2>7. CASE Clients \/ UNCHANGED vars
    BY <2>7, PauseFrame DEF Clients, vars
  <2> QED
    BY <2>2, <2>3, <2>4, <2>5, <2>6, <2>7 DEF Next, MacNext, MainStep
<1>3. MacTypeOK /\ PauseInv => PauseIsBounded
  BY ReadersFinite, Readers \ Checked \in SUBSET Readers,
     Readers \in SUBSET Readers DEF PauseInv, PauseIsBounded, MacTypeOK
<1> QED
  BY <1>1, <1>2, <1>3, TypeCorrect, PTL DEF Spec

-----------------------------------------------------------------------------
(* What a step may do to the items, and to the callbacks.                  *)

\* No item is made, and none is written.
NoNewItem ==
    /\ UNCHANGED <<wire, sealed>>
    /\ encryptor' \in {encryptor, NoSession}
    /\ \A t \in Senders : out'[t] \in {out[t], NoItem}

LEMMA EveryItemStep ==
    ASSUME MacTypeOK, [Next]_vars
    PROVE  \/ NoNewItem
           \/ \E r \in Readers : Seal(r)
           \/ \E t \in Senders : SendWrite(t)
           \/ NewSession
<1> USE ThreadsDiffer
    DEF NoNewItem, daemonVars, serverVars, threadVars, macVars, linkVars, MacTypeOK
<1>1. ASSUME NEW t \in Senders, SendFetch(t) \/ SendNoChannel(t) \/ SendFails(t)
      PROVE  NoNewItem
  BY <1>1 DEF SendFetch, SendNoChannel, SendFails, SendDone
<1>2. ASSUME NEW r \in Readers, Capture(r) \/ CheckConnected(r) \/ SealDropped(r)
      PROVE  NoNewItem
  BY <1>2 DEF Capture, CheckConnected, SealDropped
<1>3. CASE PublishService \/ Announce \/ DropChannel \/ EndSession
  BY <1>3 DEF PublishService, Announce, DropChannel, EndSession
<1>4. ASSUME NEW c \in Channels,
             ClientConnected(c) \/ ClientRejected(c) \/ ChannelClosed(c)
      PROVE  NoNewItem
  BY <1>4 DEF ClientConnected, ClientRejected, ChannelClosed
<1>5. CASE Toggle \/ StopCapture \/ TakeChannel \/ CloseChannel \/ ClearConnected \/ Launch
  BY <1>5 DEF Toggle, StopCapture, TakeChannel, CloseChannel, Drop, ClearConnected, Launch
<1>6. CASE ProcessEnds
  BY <1>6 DEF ProcessEnds, HostGone
<1>7. CASE Clients \/ UNCHANGED vars
  BY <1>7 DEF Clients, Open, Drop, vars
<1> QED
  BY <1>1, <1>2, <1>3, <1>4, <1>5, <1>6, <1>7
     DEF Next, MacNext, RunLoopStep, ReaderStep, MainStep, Send

\* A channel goes away, by either end or by the radio.
LEMMA EveryQueueStep ==
    ASSUME MacTypeOK, [Next]_vars
    PROVE  \/ UNCHANGED <<toMac, chan, accepting>>
           \/ NewSession /\ UNCHANGED <<toMac, chan>>
           \/ \E c \in Channels : \/ ClientConnected(c) \/ ClientRejected(c) \/ ChannelClosed(c)
                                  \/ Open(c) /\ UNCHANGED macVars
                                     /\ Cardinality(OpenChannels) < MaxOpen
                                  \/ Drop(c) /\ UNCHANGED accepting
           \/ ProcessEnds
<1> USE ThreadsDiffer DEF daemonVars, serverVars, threadVars, macVars, linkVars
<1>1. ASSUME NEW t \in Senders, Send(t)
      PROVE  UNCHANGED <<toMac, chan, accepting>>
  BY <1>1 DEF Send, SendFetch, SendNoChannel, SendFails, SendWrite, SendDone, Put
<1>2. ASSUME NEW r \in Readers, Capture(r) \/ CheckConnected(r) \/ Seal(r) \/ SealDropped(r)
      PROVE  UNCHANGED <<toMac, chan, accepting>>
  BY <1>2 DEF Capture, CheckConnected, Seal, SealDropped
<1>3. CASE PublishService \/ Announce \/ DropChannel \/ EndSession
  BY <1>3 DEF PublishService, Announce, DropChannel, EndSession
<1>4. CASE NewSession
  BY <1>4 DEF NewSession
<1>5. CASE Toggle \/ StopCapture \/ TakeChannel \/ ClearConnected \/ Launch
  BY <1>5 DEF Toggle, StopCapture, TakeChannel, ClearConnected, Launch
<1>6. CASE CloseChannel
  BY <1>6 DEF CloseChannel, OpenChannels
<1>7. CASE Clients \/ UNCHANGED vars
  BY <1>7 DEF Clients, vars
<1> QED
  BY <1>1, <1>2, <1>3, <1>4, <1>5, <1>6, <1>7
     DEF Next, MacNext, RunLoopStep, ReaderStep, MainStep

-----------------------------------------------------------------------------
(* Every item is written at most once, and in the order it was made.       *)

Same(a, b) ==
    a.sess = b.sess /\ a.idx = b.idx /\ (IsPacket(a) <=> IsPacket(b))

\* Session s has not begun: its channel's callback is still to come.
Fresh(s) ==
    /\ sealed[s] = 0
    /\ encryptor # s
    /\ \A c \in Channels : \A i \in DOMAIN wire[c] : wire[c][i].sess # s
    /\ \A t \in Senders : out[t].sess # s

OpenedEvent(c) == [event |-> "opened", ch |-> c]
Announced(c) == \E i \in DOMAIN toMac : toMac[i] = OpenedEvent(c)

\* The run loop is told once of each channel that opens.
OpenedOnce ==
    /\ \A c \in Channels :
          /\ chan[c] = "unused" => ~Announced(c) /\ accepting # c
          /\ Announced(c) => accepting # c
          /\ chan[c] = "unused" \/ Announced(c) \/ accepting = c => Fresh(c)
    /\ \A i, j \in DOMAIN toMac :
          toMac[i] = toMac[j] /\ toMac[i].event = "opened" => i = j

\* Nothing runs between a process and its successor.
Down ==
    pc[Main] = "down" =>
        /\ ~service
        /\ toMac = <<>>
        /\ OpenChannels = {}
        /\ \A t \in Senders : pc[t] = "idle"

\* A sender holds an item of its own kind, and only while it sends.
Locals ==
    /\ \A r \in Readers : out[r] # NoItem => out[r].ptype = r
    /\ ~IsPacket(out[RunLoop])
    /\ \A t \in Senders : pc[t] \notin {"fetch", "write"} => out[t] = NoItem

\* What was sealed was counted.
Counted ==
    /\ \A c \in Channels : \A i \in DOMAIN wire[c] :
          IsPacket(wire[c][i]) => wire[c][i].idx < sealed[wire[c][i].sess]
    /\ \A t \in Senders : IsPacket(out[t]) => out[t].idx < sealed[out[t].sess]

\* What a sender holds is written nowhere, and no other sender holds it, ...
Unsent ==
    \A t \in Senders : out[t] # NoItem =>
        /\ \A c \in Channels : \A i \in DOMAIN wire[c] : ~Same(out[t], wire[c][i])
        /\ \A u \in Senders \ {t} : out[u] # NoItem => ~Same(out[t], out[u])

\* ... and comes after all its device has written.
Latest ==
    \A r \in Readers : out[r] # NoItem =>
        \A c \in Channels : \A i \in DOMAIN wire[c] :
            wire[c][i].ptype = r /\ wire[c][i].sess = out[r].sess
            => wire[c][i].idx < out[r].idx

ItemInv == Locals /\ Counted /\ Unsent /\ AtMostOnce /\ Latest /\ DeviceOrder

StreamInv == Down /\ OpenedOnce /\ ItemInv

\* A write appends one item to one channel.
LEMMA PutFacts ==
    ASSUME LinkTypeOK, NEW c \in Channels, NEW item \in Item, Put(c, item)
    PROVE  /\ \A d \in Channels : \A i \in DOMAIN wire[d] :
                 i \in DOMAIN wire'[d] /\ wire'[d][i] = wire[d][i]
           /\ \A d \in Channels : \A i \in DOMAIN wire'[d] :
                 \/ i \in DOMAIN wire[d] /\ wire'[d][i] = wire[d][i]
                 \/ /\ d = c /\ i = Len(wire[c]) + 1 /\ wire'[d][i] = item
                    /\ \A j \in DOMAIN wire[c] : j < i
<1>1. /\ wire[c] \in Seq(Item) /\ wire'[c] = Append(wire[c], item)
      /\ \A d \in Channels \ {c} : wire'[d] = wire[d]
  BY DEF Put, LinkTypeOK
<1>2. /\ DOMAIN wire[c] = 1 .. Len(wire[c]) /\ DOMAIN wire'[c] = 1 .. Len(wire[c]) + 1
      /\ \A i \in 1 .. Len(wire[c]) : wire'[c][i] = wire[c][i]
      /\ wire'[c][Len(wire[c]) + 1] = item /\ Len(wire[c]) \in Nat
  BY <1>1
<1>3. ASSUME NEW d \in Channels, NEW i \in DOMAIN wire[d]
      PROVE  i \in DOMAIN wire'[d] /\ wire'[d][i] = wire[d][i]
  BY <1>1, <1>2, <1>3
<1>4. ASSUME NEW d \in Channels, NEW i \in DOMAIN wire'[d]
      PROVE  \/ i \in DOMAIN wire[d] /\ wire'[d][i] = wire[d][i]
             \/ /\ d = c /\ i = Len(wire[c]) + 1 /\ wire'[d][i] = item
                /\ \A j \in DOMAIN wire[c] : j < i
  <2>1. CASE d # c
    BY <1>1, <1>4, <2>1
  <2>2. CASE d = c /\ i \in 1 .. Len(wire[c])
    BY <1>2, <2>2
  <2>3. CASE d = c /\ i = Len(wire[c]) + 1
    BY <1>2, <2>3
  <2> QED
    BY <1>2, <1>4, <2>1, <2>2, <2>3
<1> QED
  BY <1>3, <1>4

\* Items on the wire have their types.
LEMMA WireItem ==
    ASSUME LinkTypeOK, NEW c \in Channels, NEW i \in DOMAIN wire[c]
    PROVE  wire[c][i] \in Item
BY DEF LinkTypeOK

LEMMA FreshStays ==
    ASSUME MacTypeOK, [Next]_vars, NEW s \in Sessions, Fresh(s),
           NewSession => accepting # s
    PROVE  Fresh(s)'
<1> USE ThreadsDiffer, Placeholders
<1>n. NoItem.sess # s
  BY DEF NoItem, NoSession
<1>1. CASE NoNewItem
  BY <1>1, <1>n DEF NoNewItem, Fresh
<1>2. ASSUME NEW r \in Readers, Seal(r)
      PROVE  Fresh(s)'
  <2>1. encryptor \in Sessions /\ encryptor # s
    BY <1>2 DEF Seal, Fresh, MacTypeOK
  <2>2. out'[r].sess = encryptor /\ \A t \in Senders \ {r} : out'[t] = out[t]
    BY <1>2 DEF Seal, build_packet, MacTypeOK
  <2>3. sealed'[s] = sealed[s] /\ encryptor' = encryptor /\ wire' = wire
    BY <1>2, <2>1 DEF Seal, MacTypeOK, linkVars
  <2> QED
    BY <2>1, <2>2, <2>3 DEF Fresh
<1>3. ASSUME NEW t \in Senders, SendWrite(t)
      PROVE  Fresh(s)'
  <2>1. target[t] \in Channels /\ out[t] \in Item /\ Put(target[t], out[t]) /\ LinkTypeOK
    BY <1>3 DEF SendWrite, MacTypeOK
  <2>2. /\ \A u \in Senders : out'[u] \in {out[u], NoItem}
        /\ UNCHANGED <<sealed, encryptor>>
    BY <1>3 DEF SendWrite, SendDone, daemonVars, MacTypeOK
  <2>3. ASSUME NEW c \in Channels, NEW i \in DOMAIN wire'[c]
        PROVE  wire'[c][i].sess # s
    <3>1. out[t].sess # s
      BY DEF Fresh
    <3>2. \/ i \in DOMAIN wire[c] /\ wire'[c][i] = wire[c][i]
          \/ wire'[c][i] = out[t]
      BY <2>1, <2>3, PutFacts
    <3> QED
      BY <3>1, <3>2 DEF Fresh
  <2> QED
    BY <1>n, <2>2, <2>3 DEF Fresh
<1>4. CASE NewSession
  <2>1. /\ encryptor' = accepting /\ sealed'[s] = sealed[s] /\ wire' = wire
        /\ out'[RunLoop].sess # s /\ \A t \in Senders \ {RunLoop} : out'[t] = out[t]
    BY <1>4 DEF NewSession, Goto, MacTypeOK, header, linkVars
  <2> QED
    BY <1>4, <2>1 DEF Fresh
<1> QED
  BY <1>1, <1>2, <1>3, <1>4, EveryItemStep

\* A step that makes no item keeps what is said of them.
LEMMA NoNewItemKeeps ==
    ASSUME MacTypeOK, ItemInv, NoNewItem
    PROVE  Counted' /\ Unsent' /\ AtMostOnce' /\ Latest' /\ DeviceOrder'
<1> USE ThreadsDiffer, Placeholders DEF NoNewItem, ItemInv
<1>1. Counted'
  BY DEF Counted
<1>2. Unsent'
  BY DEF Unsent
<1>3. AtMostOnce'
  BY DEF AtMostOnce
<1>4. Latest'
  BY DEF Latest
<1>5. DeviceOrder'
  BY DEF DeviceOrder
<1> QED
  BY <1>1, <1>2, <1>3, <1>4, <1>5

\* The new packet comes after all that were sealed.
LEMMA SealKeepsItems ==
    ASSUME MacTypeOK, ItemInv, NEW r \in Readers, Seal(r)
    PROVE  Counted' /\ Unsent' /\ AtMostOnce' /\ Latest' /\ DeviceOrder'
<1> USE ThreadsDiffer, Placeholders DEF ItemInv
<1> DEFINE new == build_packet(r, seqno, encryptor, sealed[encryptor])
<1>1. /\ encryptor \in Sessions /\ sealed[encryptor] \in Nat
      /\ out'[r] = new /\ \A t \in Senders \ {r} : out'[t] = out[t]
      /\ wire' = wire
      /\ sealed'[encryptor] = sealed[encryptor] + 1
      /\ \A s \in Sessions \ {encryptor} : sealed'[s] = sealed[s]
  BY DEF Seal, MacTypeOK, linkVars
<1>2. /\ new.ptype = r /\ new.sess = encryptor /\ new.idx = sealed[encryptor]
      /\ IsPacket(new)
  BY DEF build_packet, IsPacket
<1> HIDE DEF new
<1>w. /\ \A c \in Channels : \A i \in DOMAIN wire[c] : wire[c][i] \in Item
      /\ \A t \in Senders : out[t] \in Item \cup {NoItem}
      /\ \A item \in Item : item.sess \in Sessions /\ item.idx \in Nat
      /\ \A t \in Senders : IsPacket(out[t]) => out[t] \in Item
  BY WireItem DEF MacTypeOK, Item
<1>3. /\ \A c \in Channels : \A i \in DOMAIN wire[c] :
            IsPacket(wire[c][i]) /\ wire[c][i].sess = encryptor =>
                wire[c][i].idx < sealed[encryptor]
      /\ \A t \in Senders : IsPacket(out[t]) /\ out[t].sess = encryptor =>
                out[t].idx < sealed[encryptor]
  BY DEF Counted
<1>4. Counted'
  BY <1>1, <1>2, <1>w DEF Counted
<1>5. Unsent'
  <2>1. ASSUME NEW c \in Channels, NEW i \in DOMAIN wire[c]
        PROVE  ~Same(new, wire[c][i])
    BY <1>1, <1>2, <1>3, <1>w DEF Same
  <2>2. ASSUME NEW t \in Senders
        PROVE  ~Same(new, out[t]) /\ ~Same(out[t], new)
    BY <1>1, <1>2, <1>3, <1>w DEF Same
  <2> QED
    BY <1>1, <2>1, <2>2 DEF Unsent
<1>6. AtMostOnce' /\ DeviceOrder'
  BY <1>1 DEF AtMostOnce, DeviceOrder
<1>7. Latest'
  <2>1. ASSUME NEW c \in Channels, NEW i \in DOMAIN wire[c],
               wire[c][i].ptype = r, wire[c][i].sess = encryptor
        PROVE  wire[c][i].idx < sealed[encryptor]
    BY <1>3, <2>1 DEF IsPacket
  <2> QED
    BY <1>1, <1>2, <2>1 DEF Latest
<1> QED
  BY <1>4, <1>5, <1>6, <1>7

\* The item moves from its sender to the end of a channel.
LEMMA WriteKeepsItems ==
    ASSUME MacTypeOK, ItemInv, NEW t \in Senders, SendWrite(t)
    PROVE  Counted' /\ Unsent' /\ AtMostOnce' /\ Latest' /\ DeviceOrder'
<1> USE ThreadsDiffer, Placeholders DEF ItemInv
<1> DEFINE item == out[t]
           ch == target[t]
<1>1. /\ ch \in Channels /\ item \in Item /\ item # NoItem
      /\ Put(ch, item) /\ LinkTypeOK
      /\ out'[t] = NoItem /\ \A u \in Senders \ {t} : out'[u] = out[u]
      /\ sealed' = sealed
  BY DEF SendWrite, SendDone, MacTypeOK, daemonVars
<1> HIDE DEF item, ch
<1>2. \A d \in Channels : \A i \in DOMAIN wire'[d] :
          \/ i \in DOMAIN wire[d] /\ wire'[d][i] = wire[d][i]
          \/ /\ d = ch /\ i = Len(wire[ch]) + 1 /\ wire'[d][i] = item
             /\ \A j \in DOMAIN wire[ch] : j < i
  BY <1>1, PutFacts
<1>3. /\ \A d \in Channels : \A i \in DOMAIN wire[d] : ~Same(item, wire[d][i])
      /\ \A u \in Senders \ {t} : out[u] # NoItem =>
            ~Same(item, out[u]) /\ ~Same(out[u], item)
  BY <1>1 DEF Unsent, item
<1>4. Counted'
  <2>1. IsPacket(item) => item.idx < sealed[item.sess]
    BY DEF Counted, item
  <2> QED
    BY <1>1, <1>2, <2>1 DEF Counted
<1>5. Unsent'
  BY <1>1, <1>2, <1>3 DEF Unsent
<1>6. AtMostOnce'
  <2> SUFFICES ASSUME NEW c \in Channels, NEW d \in Channels,
                      NEW i \in DOMAIN wire'[c], NEW j \in DOMAIN wire'[d],
                      Same(wire'[c][i], wire'[d][j])
               PROVE  c = d /\ i = j
    BY DEF AtMostOnce, Same
  <2>1. CASE i \in DOMAIN wire[c] /\ wire'[c][i] = wire[c][i]
             /\ j \in DOMAIN wire[d] /\ wire'[d][j] = wire[d][j]
    BY <2>1 DEF AtMostOnce, Same
  <2>2. CASE c = ch /\ wire'[c][i] = item /\ d = ch /\ wire'[d][j] = item
             /\ i = Len(wire[ch]) + 1 /\ j = Len(wire[ch]) + 1
    BY <2>2
  <2>3. CASE wire'[c][i] = item /\ j \in DOMAIN wire[d] /\ wire'[d][j] = wire[d][j]
    BY <1>3, <2>3
  <2>4. CASE wire'[d][j] = item /\ i \in DOMAIN wire[c] /\ wire'[c][i] = wire[c][i]
    <3>1. Same(item, wire[c][i])
      BY <2>4 DEF Same
    <3> QED
      BY <1>3, <2>4, <3>1
  <2> QED
    BY <1>2, <2>1, <2>2, <2>3, <2>4
<1>k. /\ t \in Readers => item.ptype = t
      /\ t = RunLoop => ~IsPacket(item)
      /\ t \in Readers \/ t = RunLoop
  BY <1>1 DEF Locals, item, Senders
<1>7. Latest'
  <2> SUFFICES ASSUME NEW r \in Readers, out'[r] # NoItem,
                      NEW c \in Channels, NEW i \in DOMAIN wire'[c],
                      wire'[c][i].ptype = r, wire'[c][i].sess = out'[r].sess
               PROVE  wire'[c][i].idx < out'[r].idx
    BY DEF Latest
  <2>1. r # t /\ out'[r] = out[r]
    BY <1>1
  <2>2. wire'[c][i] # item
    BY <1>k, <2>1 DEF IsPacket
  <2>3. i \in DOMAIN wire[c] /\ wire'[c][i] = wire[c][i]
    BY <1>2, <2>2
  <2> QED
    BY <2>1, <2>3 DEF Latest
<1>8. DeviceOrder'
  <2> SUFFICES ASSUME NEW c \in Channels, NEW i \in DOMAIN wire'[c], NEW j \in DOMAIN wire'[c],
                      i < j, IsPacket(wire'[c][i]),
                      wire'[c][i].ptype = wire'[c][j].ptype,
                      wire'[c][i].sess = wire'[c][j].sess
               PROVE  wire'[c][i].idx < wire'[c][j].idx
    BY DEF DeviceOrder
  <2>0. DOMAIN wire[c] = 1 .. Len(wire[c]) /\ Len(wire[c]) \in Nat
    BY <1>1 DEF LinkTypeOK
  <2>1. i \in DOMAIN wire[c] /\ wire'[c][i] = wire[c][i]
    <3>1. CASE j \in DOMAIN wire[c]
      BY <1>2, <2>0, <3>1
    <3>2. CASE c = ch /\ j = Len(wire[ch]) + 1
      BY <1>2, <2>0, <3>2
    <3> QED
      BY <1>2, <3>1, <3>2
  <2>2. CASE j \in DOMAIN wire[c] /\ wire'[c][j] = wire[c][j]
    BY <2>1, <2>2 DEF DeviceOrder
  <2>3. CASE wire'[c][j] = item
    <3>1. t \in Readers /\ wire[c][i].ptype = t
      BY <1>k, <2>1, <2>3 DEF IsPacket
    <3> QED
      BY <1>1, <2>1, <2>3, <3>1 DEF Latest, item
  <2> QED
    BY <1>2, <2>2, <2>3
<1> QED
  BY <1>4, <1>5, <1>6, <1>7, <1>8

\* The first item of a session that was fresh.
LEMMA SessionKeepsItems ==
    ASSUME MacTypeOK, ItemInv, NewSession, Fresh(accepting)
    PROVE  Counted' /\ Unsent' /\ AtMostOnce' /\ Latest' /\ DeviceOrder'
<1> USE ThreadsDiffer, Placeholders DEF ItemInv
<1>1. /\ accepting \in Sessions
      /\ out'[RunLoop] = header(accepting) /\ \A t \in Senders \ {RunLoop} : out'[t] = out[t]
      /\ wire' = wire
      /\ sealed' = sealed
  BY DEF NewSession, Goto, MacTypeOK, linkVars, Fresh
<1>2. ~IsPacket(header(accepting)) /\ header(accepting).sess = accepting
  BY HeaderIsNoPacket DEF header
<1>3. Counted'
  BY <1>1, <1>2 DEF Counted
<1>4. Unsent'
  <2>1. ASSUME NEW c \in Channels, NEW i \in DOMAIN wire[c]
        PROVE  ~Same(header(accepting), wire[c][i])
    BY <1>2 DEF Same, Fresh
  <2>2. ASSUME NEW t \in Senders
        PROVE  ~Same(header(accepting), out[t]) /\ ~Same(out[t], header(accepting))
    BY <1>2 DEF Same, Fresh
  <2> QED
    BY <1>1, <2>1, <2>2 DEF Unsent
<1>5. AtMostOnce' /\ DeviceOrder'
  BY <1>1 DEF AtMostOnce, DeviceOrder
<1>6. Latest'
  BY <1>1 DEF Latest
<1> QED
  BY <1>3, <1>4, <1>5, <1>6

LEMMA LocalsStep ==
    ASSUME MacTypeOK, Down, Locals, [Next]_vars
    PROVE  Locals'
<1> USE ThreadsDiffer, Placeholders
    DEF Goto, daemonVars, serverVars, threadVars, macVars, linkVars, MacTypeOK, Locals
<1>1. ASSUME NEW t \in Senders, Send(t)
      PROVE  Locals'
  BY <1>1 DEF Send, SendFetch, SendNoChannel, SendWrite, SendFails, SendDone
<1>2. ASSUME NEW r \in Readers, Capture(r) \/ CheckConnected(r) \/ SealDropped(r)
      PROVE  Locals'
  BY <1>2 DEF Capture, CheckConnected, SealDropped
<1>3. ASSUME NEW r \in Readers, Seal(r)
      PROVE  Locals'
  <2>1. out'[r].ptype = r /\ \A t \in Senders \ {r} : out'[t] = out[t]
    BY <1>3 DEF Seal, build_packet
  <2>2. pc'[r] = "fetch" /\ \A t \in Senders \ {r} : pc'[t] = pc[t]
    BY <1>3 DEF Seal
  <2> QED
    BY <2>1, <2>2
<1>4. CASE PublishService \/ Announce \/ DropChannel \/ EndSession
  BY <1>4 DEF PublishService, Announce, DropChannel, EndSession
<1>5. CASE NewSession
  <2>1. out'[RunLoop] = header(accepting) /\ \A t \in Senders \ {RunLoop} : out'[t] = out[t]
    BY <1>5 DEF NewSession
  <2>2. pc'[RunLoop] = "fetch" /\ \A t \in Senders \ {RunLoop} : pc'[t] = pc[t]
    BY <1>5 DEF NewSession
  <2> QED
    BY <2>1, <2>2, HeaderIsNoPacket
<1>6. ASSUME NEW c \in Channels,
             ClientConnected(c) \/ ClientRejected(c) \/ ChannelClosed(c)
      PROVE  Locals'
  BY <1>6 DEF ClientConnected, ClientRejected, ChannelClosed
<1>7. CASE Toggle \/ StopCapture \/ TakeChannel \/ CloseChannel \/ ClearConnected
  BY <1>7 DEF Toggle, StopCapture, TakeChannel, CloseChannel, ClearConnected
<1>8. CASE ProcessEnds
  BY <1>8 DEF ProcessEnds
<1>9. CASE Launch
  BY <1>9 DEF Launch, Down
<1>10. CASE Clients \/ UNCHANGED vars
  BY <1>10 DEF Clients, vars
<1> QED
  BY <1>1, <1>2, <1>3, <1>4, <1>5, <1>6, <1>7, <1>8, <1>9, <1>10
     DEF Next, MacNext, RunLoopStep, ReaderStep, MainStep

LEMMA DownStep ==
    ASSUME MacTypeOK, Down, [Next]_vars
    PROVE  Down'
<1> SUFFICES ASSUME pc'[Main] = "down"
             PROVE  /\ ~service' /\ toMac' = <<>> /\ OpenChannels' = {}
                    /\ \A t \in Senders : pc'[t] = "idle"
  BY DEF Down
<1> USE ThreadsDiffer DEF Goto, daemonVars, serverVars, threadVars, macVars, linkVars, MacTypeOK
<1>1. CASE pc[Main] = "down"
  <2>1. /\ ~service /\ toMac = <<>> /\ OpenChannels = {}
        /\ \A t \in Senders : pc[t] = "idle"
    BY <1>1 DEF Down
  <2>2. ASSUME NEW t \in Senders
        PROVE  ~Send(t)
    BY <2>1 DEF Send, SendFetch, SendNoChannel, SendWrite, SendFails, SendDone
  <2>3. ASSUME NEW r \in Readers
        PROVE  ~ReaderStep(r)
    BY <1>1, <2>1, <2>2
       DEF ReaderStep, Capture, StillReading, CheckConnected, Seal, SealDropped
  <2>4. ~RunLoopStep
    BY <2>1, <2>2
       DEF RunLoopStep, PublishService, Announce, NewSession, DropChannel, EndSession,
           ClientConnected, ClientRejected, ChannelClosed, Callback
  <2>5. ~Toggle /\ ~MainStep
    BY <1>1
       DEF Toggle, MainStep, StopCapture, TakeChannel, CloseChannel, ClearConnected, ProcessEnds,
           Launch, FreshThreads, Running
  <2>6. ~Clients
    BY <2>1 DEF Clients, Open, Drop, OpenChannels
  <2>7. UNCHANGED vars
    BY <2>3, <2>4, <2>5, <2>6 DEF Next, MacNext
  <2> QED
    BY <2>1, <2>7 DEF vars, OpenChannels
<1>2. CASE pc[Main] # "down"
  <2>1. ASSUME NEW t \in Senders, Send(t)
        PROVE  FALSE
    BY <1>2, <2>1 DEF Send, SendFetch, SendNoChannel, SendWrite, SendFails, SendDone
  <2>2. ASSUME NEW r \in Readers, ReaderStep(r)
        PROVE  FALSE
    BY <1>2, <2>1, <2>2 DEF ReaderStep, Capture, CheckConnected, Seal, SealDropped
  <2>3. ASSUME RunLoopStep
        PROVE  FALSE
    BY <1>2, <2>1, <2>3
       DEF RunLoopStep, PublishService, Announce, NewSession, DropChannel, EndSession,
           ClientConnected, ClientRejected, ChannelClosed
  <2>4. ProcessEnds
    BY <1>2, <2>2, <2>3
       DEF Next, MacNext, Toggle, MainStep, StopCapture, TakeChannel, CloseChannel, ClearConnected,
           Launch, FreshThreads, Clients, vars
  <2> QED
    BY <2>4 DEF ProcessEnds, HostGone, OpenChannels, Threads
<1> QED
  BY <1>1, <1>2

-----------------------------------------------------------------------------
(* The callbacks.                                                          *)

CallbackEvent == [event : {"opened", "closed"}, ch : Channels]

LEMMA TailFacts ==
    ASSUME LinkTypeOK, toMac # <<>>
    PROVE  /\ Len(toMac) \in Nat \ {0} /\ DOMAIN toMac = 1 .. Len(toMac)
           /\ Len(Tail(toMac)) = Len(toMac) - 1
           /\ DOMAIN Tail(toMac) = 1 .. Len(toMac) - 1
           /\ \A i \in 1 .. Len(toMac) - 1 : Tail(toMac)[i] = toMac[i + 1]
           /\ Head(toMac) = toMac[1]
           /\ Tail(toMac) \in Seq(CallbackEvent)
BY DEF LinkTypeOK, CallbackEvent

LEMMA AppendFacts ==
    ASSUME NEW q \in Seq(CallbackEvent), NEW e \in CallbackEvent
    PROVE  /\ Len(q) \in Nat /\ DOMAIN q = 1 .. Len(q)
           /\ Len(Append(q, e)) = Len(q) + 1
           /\ DOMAIN Append(q, e) = 1 .. Len(q) + 1
           /\ \A i \in 1 .. Len(q) : Append(q, e)[i] = q[i]
           /\ Append(q, e)[Len(q) + 1] = e
OBVIOUS

\* Told once, of a sequence of callbacks and who it is being told of.
ToldOnce(q) ==
    \A i, j \in DOMAIN q : q[i] = q[j] /\ q[i].event = "opened" => i = j
ToldOf(q, c) == \E i \in DOMAIN q : q[i] = OpenedEvent(c)

\* Reading the first callback.
LEMMA TailTold ==
    ASSUME LinkTypeOK, toMac # <<>>, ToldOnce(toMac)
    PROVE  /\ ToldOnce(Tail(toMac))
           /\ \A c \in Channels :
                 ToldOf(Tail(toMac), c) => ToldOf(toMac, c) /\ Head(toMac) # OpenedEvent(c)
<1>1. ToldOnce(Tail(toMac))
  <2> SUFFICES ASSUME NEW i \in DOMAIN Tail(toMac), NEW j \in DOMAIN Tail(toMac),
                      Tail(toMac)[i] = Tail(toMac)[j], Tail(toMac)[i].event = "opened"
               PROVE  i = j
    BY DEF ToldOnce
  <2>1. i + 1 \in DOMAIN toMac /\ j + 1 \in DOMAIN toMac
        /\ toMac[i + 1] = toMac[j + 1] /\ toMac[i + 1].event = "opened"
    BY TailFacts
  <2>2. i + 1 = j + 1
    BY <2>1 DEF ToldOnce
  <2> QED
    BY <2>2, TailFacts
<1>2. ASSUME NEW c \in Channels, ToldOf(Tail(toMac), c)
      PROVE  ToldOf(toMac, c) /\ Head(toMac) # OpenedEvent(c)
  <2>1. PICK i \in DOMAIN Tail(toMac) : Tail(toMac)[i] = OpenedEvent(c)
    BY <1>2 DEF ToldOf
  <2>2. i + 1 \in DOMAIN toMac /\ toMac[i + 1] = OpenedEvent(c) /\ i + 1 # 1
        /\ 1 \in DOMAIN toMac
    BY <2>1, TailFacts
  <2>3. Head(toMac) # OpenedEvent(c)
    BY <2>2, TailFacts DEF ToldOnce, OpenedEvent
  <2> QED
    BY <2>2, <2>3 DEF ToldOf
<1> QED
  BY <1>1, <1>2

\* Queueing a callback: one that a channel closed, or the first of a channel.
LEMMA AppendTold ==
    ASSUME NEW q \in Seq(CallbackEvent), NEW e \in CallbackEvent, ToldOnce(q),
           e.event = "closed" \/ \A i \in DOMAIN q : q[i] # e
    PROVE  /\ ToldOnce(Append(q, e))
           /\ \A c \in Channels :
                 ToldOf(Append(q, e), c) => ToldOf(q, c) \/ e = OpenedEvent(c)
<1>1. ToldOnce(Append(q, e))
  <2> SUFFICES ASSUME NEW i \in 1 .. Len(q) + 1, NEW j \in 1 .. Len(q) + 1,
                      Append(q, e)[i] = Append(q, e)[j], Append(q, e)[i].event = "opened"
               PROVE  i = j
    BY AppendFacts DEF ToldOnce
  <2>1. CASE i \in 1 .. Len(q) /\ j \in 1 .. Len(q)
    BY <2>1, AppendFacts DEF ToldOnce
  <2>2. CASE i = Len(q) + 1 /\ j = Len(q) + 1
    BY <2>2
  <2>3. CASE (i = Len(q) + 1) # (j = Len(q) + 1)
    BY <2>3, AppendFacts
  <2> QED
    BY <2>1, <2>2, <2>3, AppendFacts
<1>2. ASSUME NEW c \in Channels, ToldOf(Append(q, e), c)
      PROVE  ToldOf(q, c) \/ e = OpenedEvent(c)
  BY <1>2, AppendFacts DEF ToldOf
<1> QED
  BY <1>1, <1>2

LEMMA OpenedOnceStep ==
    ASSUME MacTypeOK, OpenedOnce, [Next]_vars
    PROVE  OpenedOnce'
<1> USE ThreadsDiffer, Placeholders DEF MacTypeOK
<1>t. /\ LinkTypeOK /\ toMac \in Seq(CallbackEvent)
      /\ chan \in [Channels -> {"unused", "open", "closed"}]
      /\ ToldOnce(toMac)
      /\ \A c \in Channels : Announced(c) <=> ToldOf(toMac, c)
  BY DEF LinkTypeOK, CallbackEvent, OpenedOnce, ToldOnce, ToldOf, Announced
<1>f. ASSUME NEW c \in Channels, Fresh(c), accepting # c
      PROVE  Fresh(c)'
  BY <1>f, FreshStays
<1>s. ASSUME \A c \in Channels :
                /\ chan'[c] = "unused" => chan[c] = "unused" /\ ~ToldOf(toMac', c) /\ accepting' # c
                /\ ToldOf(toMac', c) => accepting' # c
                /\ chan'[c] = "unused" \/ ToldOf(toMac', c) => accepting # c /\ Fresh(c)
                /\ accepting' = c => Fresh(c)',
             ToldOnce(toMac')
      PROVE  OpenedOnce'
  BY <1>s, <1>f DEF OpenedOnce, Announced, ToldOf, ToldOnce, OpenedEvent
<1>1. CASE UNCHANGED <<toMac, chan, accepting>>
  <2>1. ASSUME NEW c \in Channels, accepting = c
        PROVE  Fresh(c)' \/ NewSession
    BY <2>1, FreshStays DEF OpenedOnce
  <2>2. ~NewSession \/ accepting' = NoChannel
    BY DEF NewSession
  <2> QED
    BY <1>1, <1>t, <1>s, <2>1, <2>2 DEF OpenedOnce
<1>2. CASE NewSession /\ UNCHANGED <<toMac, chan>>
  <2>1. accepting' = NoChannel
    BY <1>2 DEF NewSession
  <2> QED
    BY <1>2, <1>t, <1>s, <2>1 DEF OpenedOnce
<1>3. ASSUME NEW c \in Channels, ClientConnected(c)
      PROVE  OpenedOnce'
  <2>1. /\ toMac # <<>> /\ Head(toMac) = OpenedEvent(c) /\ toMac' = Tail(toMac)
        /\ accepting' = c /\ chan' = chan
    BY <1>3 DEF ClientConnected, Callback, OpenedEvent
  <2>2. ToldOf(toMac, c)
    <3>1. 1 \in DOMAIN toMac /\ toMac[1] = OpenedEvent(c)
      BY <1>t, <2>1, TailFacts
    <3> QED
      BY <3>1 DEF ToldOf
  <2>3. chan[c] # "unused" /\ accepting # c /\ Fresh(c)
    BY <1>t, <2>2 DEF OpenedOnce
  <2>4. /\ ToldOnce(toMac')
        /\ \A d \in Channels : ToldOf(toMac', d) => ToldOf(toMac, d) /\ d # c
    BY <1>t, <2>1, TailTold
  <2>5. Fresh(c)'
    BY <1>f, <2>3
  <2> QED
    BY <1>t, <1>s, <2>1, <2>3, <2>4, <2>5 DEF OpenedOnce
<1>4. ASSUME NEW c \in Channels, ClientRejected(c) \/ ChannelClosed(c)
      PROVE  OpenedOnce'
  <2>1. /\ toMac # <<>> /\ accepting' = accepting
        /\ toMac' \in {Tail(toMac), Append(Tail(toMac), [event |-> "closed", ch |-> c])}
    BY <1>4
       DEF ClientRejected, ChannelClosed, Callback, macVars, serverVars
  <2>2. [event |-> "closed", ch |-> c] \in CallbackEvent
    BY DEF CallbackEvent
  <2>3. Tail(toMac) \in Seq(CallbackEvent)
    BY <1>t, <2>1, TailFacts
  <2>4. /\ ToldOnce(toMac')
        /\ \A d \in Channels : ToldOf(toMac', d) => ToldOf(toMac, d)
    <3>1. /\ ToldOnce(Tail(toMac))
          /\ \A d \in Channels : ToldOf(Tail(toMac), d) => ToldOf(toMac, d)
      BY <1>t, <2>1, TailTold
    <3>2. \A d \in Channels : [event |-> "closed", ch |-> c] # OpenedEvent(d)
      BY DEF OpenedEvent
    <3>3. CASE toMac' = Append(Tail(toMac), [event |-> "closed", ch |-> c])
      BY <2>2, <2>3, <3>1, <3>2, <3>3, AppendTold
    <3> QED
      BY <2>1, <3>1, <3>3
  <2>5. \A d \in Channels : chan'[d] = "unused" => chan[d] = "unused"
    BY <1>4, <1>t DEF ClientRejected, ChannelClosed
  <2>6. ASSUME NEW d \in Channels, accepting = d
        PROVE  Fresh(d)'
    <3>1. ~NewSession
      BY <1>4 DEF ClientRejected, ChannelClosed, Callback, NewSession, Goto
    <3> QED
      BY <2>6, <3>1, FreshStays DEF OpenedOnce
  <2> QED
    BY <1>t, <1>s, <2>1, <2>4, <2>5, <2>6 DEF OpenedOnce
<1>5. ASSUME NEW c \in Channels, Open(c), UNCHANGED macVars
      PROVE  OpenedOnce'
  <2>1. /\ chan[c] = "unused" /\ chan' = [chan EXCEPT ![c] = "open"]
        /\ toMac' = Append(toMac, OpenedEvent(c)) /\ accepting' = accepting
    BY <1>5 DEF Open, OpenedEvent, macVars, serverVars
  <2>2. OpenedEvent(c) \in CallbackEvent /\ \A i \in DOMAIN toMac : toMac[i] # OpenedEvent(c)
    BY <1>t, <2>1 DEF OpenedOnce, Announced, OpenedEvent, CallbackEvent
  <2>3. /\ ToldOnce(toMac')
        /\ \A d \in Channels : ToldOf(toMac', d) => ToldOf(toMac, d) \/ d = c
    BY <1>t, <2>1, <2>2, AppendTold DEF OpenedEvent
  <2>4. accepting # c /\ Fresh(c)
    BY <2>1 DEF OpenedOnce
  <2>5. ASSUME NEW d \in Channels, accepting = d
        PROVE  Fresh(d)'
    <3>1. ~NewSession
      BY <1>5, <2>5, Placeholders DEF NewSession, macVars, serverVars
    <3> QED
      BY <2>5, <3>1, FreshStays DEF OpenedOnce
  <2> QED
    BY <1>t, <1>s, <2>1, <2>3, <2>4, <2>5 DEF OpenedOnce
<1>6. ASSUME NEW c \in Channels, Drop(c), UNCHANGED accepting
      PROVE  OpenedOnce'
  <2>1. /\ chan' = [chan EXCEPT ![c] = "closed"]
        /\ toMac' = Append(toMac, [event |-> "closed", ch |-> c])
    BY <1>6 DEF Drop
  <2>2. [event |-> "closed", ch |-> c] \in CallbackEvent
    BY DEF CallbackEvent
  <2>3. /\ ToldOnce(toMac')
        /\ \A d \in Channels : ToldOf(toMac', d) => ToldOf(toMac, d)
    BY <1>t, <2>1, <2>2, AppendTold DEF OpenedEvent
  <2>4. ASSUME NEW d \in Channels, accepting = d
        PROVE  Fresh(d)'
    <3>1. ~NewSession
      BY <1>6, <2>4, Placeholders DEF NewSession
    <3> QED
      BY <2>4, <3>1, FreshStays DEF OpenedOnce
  <2> QED
    BY <1>6, <1>t, <1>s, <2>1, <2>3, <2>4 DEF OpenedOnce
<1>7. CASE ProcessEnds
  <2>1. /\ toMac' = <<>> /\ accepting' = NoChannel
        /\ \A c \in Channels : chan'[c] = "unused" => chan[c] = "unused"
    BY <1>7, <1>t DEF ProcessEnds, HostGone
  <2>2. ToldOnce(toMac') /\ \A c \in Channels : ~ToldOf(toMac', c)
    BY <2>1 DEF ToldOnce, ToldOf
  <2> QED
    BY <1>s, <2>1, <2>2 DEF OpenedOnce
<1> QED
  BY <1>1, <1>2, <1>3, <1>4, <1>5, <1>6, <1>7, EveryQueueStep

LEMMA StreamInit == Init => StreamInv
<1> SUFFICES ASSUME Init PROVE StreamInv
  OBVIOUS
<1> USE ThreadsDiffer, Placeholders DEF Init, LinkInit, MacInit
<1>1. /\ \A c \in Channels : DOMAIN wire[c] = {}
      /\ DOMAIN toMac = {} /\ pc[Main] = "up"
      /\ \A t \in Senders : out[t] = NoItem
      /\ \A c \in Channels : NoItem.sess # c
  BY DEF FreshThreads, NoItem, NoChannel
<1>2. Down /\ ItemInv
  BY <1>1 DEF Down, ItemInv, Locals, Counted, Unsent, AtMostOnce, Latest, DeviceOrder
<1>3. OpenedOnce
  <2>1. \A c \in Channels : Fresh(c)
    BY <1>1 DEF Fresh
  <2> QED
    BY <1>1, <2>1 DEF OpenedOnce, Announced
<1> QED
  BY <1>2, <1>3 DEF StreamInv

LEMMA StreamStep == MacTypeOK /\ StreamInv /\ [Next]_vars => StreamInv'
<1> SUFFICES ASSUME MacTypeOK, StreamInv, [Next]_vars
             PROVE  StreamInv'
  OBVIOUS
<1>1. Down /\ OpenedOnce /\ ItemInv /\ Locals
  BY DEF StreamInv, ItemInv
<1>2. NewSession => Fresh(accepting)
  BY <1>1 DEF NewSession, Goto, MacTypeOK, OpenedOnce
<1>3. Counted' /\ Unsent' /\ AtMostOnce' /\ Latest' /\ DeviceOrder'
  BY <1>1, <1>2, EveryItemStep, NoNewItemKeeps, SealKeepsItems, WriteKeepsItems,
     SessionKeepsItems
<1> QED
  BY <1>1, <1>3, DownStep, OpenedOnceStep, LocalsStep DEF StreamInv, ItemInv

LEMMA StreamInvariant == Spec => [](MacTypeOK /\ StreamInv)
<1>1. MacTypeOK /\ StreamInv /\ [Next]_vars => (MacTypeOK /\ StreamInv)'
  BY MacTypeStep, StreamStep
<1> QED
  BY <1>1, InitType, StreamInit, PTL DEF Spec

(***************************************************************************)
(* A message and a header are written at most once, over all channels,     *)
(* however the threads meet at the write: what a sender holds was made     *)
(* once, and leaves it when it is written.                                 *)
(***************************************************************************)
THEOREM WrittenOnce == Spec => []AtMostOnce
<1>1. StreamInv => AtMostOnce
  BY DEF StreamInv, ItemInv
<1> QED
  BY <1>1, StreamInvariant, PTL

(***************************************************************************)
(* Reports of one device keep their order on the channel: a device has one *)
(* report on its way at a time.                                            *)
(***************************************************************************)
THEOREM DeviceOrderCorrect == Spec => []DeviceOrder
<1>1. StreamInv => DeviceOrder
  BY DEF StreamInv, ItemInv
<1> QED
  BY <1>1, StreamInvariant, PTL

-----------------------------------------------------------------------------
(* A stream header is written on the channel of its own session only.      *)

OwnHeaders ==
    \A c \in Channels : \A i \in DOMAIN wire[c] :
        IsPacket(wire[c][i]) \/ wire[c][i] = header(c)

\* The run loop reads its channel after it published it: no other channel can
\* have been published meanwhile.
HeaderHeld ==
    /\ out[RunLoop] # NoItem =>
          /\ out[RunLoop] = header(out[RunLoop].sess)
          /\ pc[RunLoop] = "fetch" => channel \in {out[RunLoop].sess, NoChannel}
          /\ pc[RunLoop] = "write" => target[RunLoop] = out[RunLoop].sess
    /\ pc[RunLoop] \in {"announce", "session"} => channel \in {accepting, NoChannel}

HeaderInv == OwnHeaders /\ HeaderHeld

LEMMA OwnHeadersStep ==
    ASSUME MacTypeOK, Locals, HeaderInv, [Next]_vars
    PROVE  OwnHeaders'
<1> USE ThreadsDiffer DEF HeaderInv
<1>1. CASE wire' = wire
  BY <1>1 DEF OwnHeaders, IsPacket
<1>2. ASSUME NEW t \in Senders, SendWrite(t)
      PROVE  OwnHeaders'
  <2>1. target[t] \in Channels /\ out[t] \in Item /\ Put(target[t], out[t]) /\ LinkTypeOK
    BY <1>2 DEF SendWrite, MacTypeOK
  <2>2. IsPacket(out[t]) \/ out[t] = header(target[t])
    <3>1. CASE t \in Readers
      BY <2>1, <3>1, Placeholders DEF Locals, IsPacket
    <3>2. CASE t = RunLoop
      BY <1>2, <2>1, <3>2, Placeholders DEF HeaderHeld, SendWrite
    <3> QED
      BY <3>1, <3>2 DEF Senders
  <2>3. ASSUME NEW c \in Channels, NEW i \in DOMAIN wire'[c]
        PROVE  IsPacket(wire'[c][i]) \/ wire'[c][i] = header(c)
    <3>1. \/ i \in DOMAIN wire[c] /\ wire'[c][i] = wire[c][i]
          \/ c = target[t] /\ wire'[c][i] = out[t]
      BY <2>1, <2>3, PutFacts
    <3> QED
      BY <2>2, <3>1 DEF OwnHeaders
  <2> QED
    BY <2>3 DEF OwnHeaders, IsPacket
<1> QED
  BY <1>1, <1>2, EveryItemStep DEF NoNewItem, Seal, NewSession, linkVars

LEMMA HeaderHeldStep ==
    ASSUME MacTypeOK, Locals, HeaderInv, [Next]_vars
    PROVE  HeaderHeld'
<1> USE ThreadsDiffer
    DEF Goto, daemonVars, serverVars, threadVars, macVars, MacTypeOK, HeaderInv, HeaderHeld
<1>1. ASSUME NEW r \in Readers, ReaderStep(r)
      PROVE  HeaderHeld'
  <2>1. /\ out'[RunLoop] = out[RunLoop] /\ pc'[RunLoop] = pc[RunLoop]
        /\ target'[RunLoop] = target[RunLoop]
        /\ channel' = channel /\ accepting' = accepting
    BY <1>1
       DEF ReaderStep, Capture, CheckConnected, Seal, SealDropped, Send, SendFetch,
           SendNoChannel, SendWrite, SendFails, SendDone
  <2> QED
    BY <2>1
<1>2. CASE PublishService \/ Announce \/ DropChannel \/ EndSession
  BY <1>2 DEF PublishService, Announce, DropChannel, EndSession, Locals
<1>3. CASE NewSession
  <2>1. /\ out'[RunLoop] = header(accepting) /\ header(accepting).sess = accepting
        /\ pc'[RunLoop] = "fetch" /\ channel' = channel
    BY <1>3 DEF NewSession, header
  <2> QED
    BY <1>3, <2>1 DEF NewSession
<1>4. ASSUME NEW c \in Channels, ClientConnected(c) \/ ClientRejected(c) \/ ChannelClosed(c)
      PROVE  HeaderHeld'
  BY <1>4 DEF ClientConnected, ClientRejected, ChannelClosed, Callback, Locals
<1>5. CASE SendFetch(RunLoop)
  <2>1. /\ out' = out /\ target'[RunLoop] = channel /\ channel # NoChannel
        /\ pc[RunLoop] = "fetch" /\ pc'[RunLoop] = "write"
    BY <1>5 DEF SendFetch
  <2> QED
    BY <2>1
<1>6. CASE SendNoChannel(RunLoop) \/ SendWrite(RunLoop) \/ SendFails(RunLoop)
  <2>1. out'[RunLoop] = NoItem /\ pc'[RunLoop] = "idle"
    BY <1>6 DEF SendNoChannel, SendWrite, SendFails, SendDone
  <2> QED
    BY <2>1
<1>7. CASE Toggle \/ StopCapture \/ TakeChannel \/ CloseChannel \/ ClearConnected
  <2>1. /\ out' = out /\ pc'[RunLoop] = pc[RunLoop] /\ target'[RunLoop] = target[RunLoop]
        /\ channel' \in {channel, NoChannel} /\ accepting' = accepting
    BY <1>7 DEF Toggle, StopCapture, TakeChannel, CloseChannel, ClearConnected
  <2> QED
    BY <2>1
<1>8. CASE ProcessEnds
  <2>1. out'[RunLoop] = NoItem /\ pc'[RunLoop] = "idle"
    BY <1>8 DEF ProcessEnds
  <2> QED
    BY <2>1
<1>9. CASE Launch
  <2>1. out' = out /\ pc'[RunLoop] = "publish"
    BY <1>9 DEF Launch, FreshThreads
  <2> QED
    BY <1>9, <2>1 DEF Launch
<1>10. CASE Clients \/ UNCHANGED vars
  BY <1>10 DEF Clients, vars
<1> QED
  BY <1>1, <1>2, <1>3, <1>4, <1>5, <1>6, <1>7, <1>8, <1>9, <1>10
     DEF Next, MacNext, RunLoopStep, Send, MainStep

LEMMA HeaderInit == Init => HeaderInv
BY ThreadsDiffer
   DEF Init, LinkInit, MacInit, FreshThreads, HeaderInv, OwnHeaders, HeaderHeld

-----------------------------------------------------------------------------
(* How many reports a session carries: the bound of Capture is one.        *)

ReportsInv ==
    /\ \A s \in Sessions : sealed[s] <= MaxReports
    /\ Cardinality(Checked) <= MaxReports
    /\ encryptor # NoSession => sealed[encryptor] + Cardinality(Checked) <= MaxReports

LEMMA ReportsFrame ==
    ASSUME MacTypeOK, MacTypeOK', ReportsInv, Checked' \subseteq Checked,
           sealed' = sealed, encryptor' \in {encryptor, NoSession}
    PROVE  ReportsInv'
<1>1. /\ Cardinality(Checked') <= Cardinality(Checked)
      /\ Cardinality(Checked) \in Nat /\ Cardinality(Checked') \in Nat
  <2>1. Checked \in SUBSET Readers /\ Checked' \in SUBSET Readers
    BY DEF Checked
  <2> QED
    BY <2>1, ReadersFinite, FS_Subset
<1>2. /\ sealed \in [Sessions -> Nat] /\ MaxReports \in Nat
      /\ encryptor # NoSession => sealed[encryptor] \in Nat
  BY MacBoundsAssumption DEF MacTypeOK
<1> QED
  BY <1>1, <1>2 DEF ReportsInv

LEMMA CaptureKeepsReports ==
    ASSUME MacTypeOK, ReportsInv, NEW r \in Readers, Capture(r)
    PROVE  ReportsInv'
<1>1. Checked' = Checked \cup {r} /\ sealed' = sealed /\ encryptor' = encryptor
  BY ThreadsDiffer DEF Capture, Goto, Checked, MacTypeOK, daemonVars
<1>2. Checked \subseteq InFlight /\ InFlight \in SUBSET Readers
  BY DEF Checked, InFlight
<1>3. /\ IsFiniteSet(Checked) /\ Cardinality(Checked) <= Cardinality(InFlight)
      /\ Cardinality(Checked) \in Nat /\ Cardinality(InFlight) \in Nat
  BY <1>2, ReadersFinite, FS_Subset
<1>4. Cardinality(Checked') <= Cardinality(Checked) + 1 /\ Cardinality(Checked') \in Nat
  <2>1. Cardinality(Checked \cup {r}) \in {Cardinality(Checked), Cardinality(Checked) + 1}
    BY <1>3, FS_AddElement
  <2> QED
    BY <1>1, <1>3, <2>1
<1>5. /\ MaxReports \in Nat
      /\ Cardinality(InFlight) < MaxReports
      /\ encryptor # NoSession => /\ sealed[encryptor] \in Nat
                                  /\ sealed[encryptor] + Cardinality(InFlight) < MaxReports
  BY MacBoundsAssumption DEF MacTypeOK, Capture, WithinBounds
<1> QED
  BY <1>1, <1>3, <1>4, <1>5 DEF ReportsInv

LEMMA SessionKeepsReports ==
    ASSUME MacTypeOK, ReportsInv, NewSession
    PROVE  ReportsInv'
<1>1. /\ accepting \in Sessions /\ encryptor' = accepting
      /\ sealed' = [sealed EXCEPT ![accepting] = 0]
      /\ sealed \in [Sessions -> Nat] /\ MaxReports \in Nat
  BY Placeholders, MacBoundsAssumption DEF NewSession, Goto, MacTypeOK
<1>2. Checked' = Checked
  BY ThreadsDiffer DEF NewSession, Goto, Checked, MacTypeOK
<1>3. Cardinality(Checked) \in Nat
  <2>1. Checked \in SUBSET Readers
    BY DEF Checked
  <2> QED
    BY <2>1, ReadersFinite
<1> QED
  BY <1>1, <1>2, <1>3 DEF ReportsInv

LEMMA SealKeepsReports ==
    ASSUME MacTypeOK, ReportsInv, NEW r \in Readers, Seal(r)
    PROVE  ReportsInv'
<1>1. /\ r \in Checked /\ Checked' = Checked \ {r}
      /\ encryptor \in Sessions /\ encryptor # NoSession /\ encryptor' = encryptor
      /\ sealed' = [sealed EXCEPT ![encryptor] = @ + 1]
      /\ sealed \in [Sessions -> Nat] /\ MaxReports \in Nat
  BY ThreadsDiffer, MacBoundsAssumption DEF Seal, Goto, Checked, MacTypeOK
<1>2. Checked \in SUBSET Readers
  BY DEF Checked
<1>3. IsFiniteSet(Checked) /\ Cardinality(Checked) \in Nat
  BY <1>2, ReadersFinite
<1>4. Cardinality(Checked') = Cardinality(Checked) - 1
  BY <1>1, <1>3, FS_RemoveElement
<1>5. sealed'[encryptor] = sealed[encryptor] + 1 /\ sealed[encryptor] \in Nat
  BY <1>1
<1>6. sealed[encryptor] + Cardinality(Checked) <= MaxReports
  BY <1>1 DEF ReportsInv
<1>7. \A s \in Sessions : sealed'[s] <= MaxReports
  <2>1. 1 <= Cardinality(Checked)
    BY <1>1, <1>2, <1>3, FS_EmptySet
  <2> QED
    BY <1>1, <1>3, <1>5, <1>6, <2>1 DEF ReportsInv
<1> QED
  BY <1>1, <1>3, <1>4, <1>5, <1>6, <1>7 DEF ReportsInv

LEMMA ReportsStep ==
    ASSUME MacTypeOK, MacTypeOK', ReportsInv, [Next]_vars
    PROVE  ReportsInv'
<1> USE ThreadsDiffer
    DEF Goto, Checked, daemonVars, serverVars, threadVars, macVars, linkVars
<1>s. sealed \in [Sessions -> Nat] /\ pc \in [Threads -> ReaderSteps \cup RunLoopSteps \cup MainSteps]
  BY DEF MacTypeOK
<1>1. ASSUME NEW t \in Senders, Send(t)
      PROVE  ReportsInv'
  <2>1. Checked' \subseteq Checked /\ sealed' = sealed /\ encryptor' \in {encryptor, NoSession}
    BY <1>1, <1>s DEF Send, SendFetch, SendNoChannel, SendWrite, SendFails, SendDone
  <2> QED
    BY <1>s, <2>1, ReportsFrame
<1>2. ASSUME NEW r \in Readers, CheckConnected(r) \/ SealDropped(r)
      PROVE  ReportsInv'
  <2>1. Checked' \subseteq Checked /\ sealed' = sealed /\ encryptor' \in {encryptor, NoSession}
    BY <1>2, <1>s DEF CheckConnected, SealDropped
  <2> QED
    BY <1>s, <2>1, ReportsFrame
<1>3. CASE \/ PublishService \/ Announce \/ DropChannel \/ EndSession
           \/ \E c \in Channels : ClientConnected(c) \/ ClientRejected(c) \/ ChannelClosed(c)
  <2>1. Checked' \subseteq Checked
    BY <1>3, <1>s DEF PublishService, Announce, DropChannel, EndSession,
                ClientConnected, ClientRejected, ChannelClosed, Callback
  <2>2. sealed' = sealed /\ encryptor' \in {encryptor, NoSession}
    BY <1>3 DEF PublishService, Announce, DropChannel, EndSession,
                ClientConnected, ClientRejected, ChannelClosed
  <2> QED
    BY <2>1, <2>2, ReportsFrame
<1>4. CASE Toggle \/ MainStep \/ Clients \/ UNCHANGED vars
  <2>1. Checked' \subseteq Checked /\ sealed' = sealed /\ encryptor' \in {encryptor, NoSession}
    BY <1>4, <1>s DEF Toggle, MainStep, StopCapture, TakeChannel, CloseChannel, ClearConnected,
                ProcessEnds, Launch, FreshThreads, Clients, vars
  <2> QED
    BY <1>s, <2>1, ReportsFrame
<1> QED
  BY <1>1, <1>2, <1>3, <1>4, CaptureKeepsReports, SealKeepsReports,
     SessionKeepsReports
     DEF Next, MacNext, RunLoopStep, ReaderStep

\* No session carries more reports than the bound says.
LEMMA ReportsBounded == Spec => [](\A s \in Sessions : sealed[s] <= MaxReports)
<1>1. Init => ReportsInv
  <2> SUFFICES ASSUME Init PROVE ReportsInv
    OBVIOUS
  <2>1. Checked = {} /\ encryptor = NoSession /\ \A s \in Sessions : sealed[s] = 0
    BY ThreadsDiffer DEF Init, MacInit, FreshThreads, Checked
  <2> QED
    BY <2>1, FS_EmptySet, MacBoundsAssumption DEF ReportsInv
<1>2. MacTypeOK /\ MacTypeOK' /\ ReportsInv /\ [Next]_vars => ReportsInv'
  BY ReportsStep
<1>3. MacTypeOK /\ ReportsInv => \A s \in Sessions : sealed[s] <= MaxReports
  <2> SUFFICES ASSUME MacTypeOK, ReportsInv, NEW s \in Sessions
               PROVE  sealed[s] <= MaxReports
    OBVIOUS
  <2>1. Checked \in SUBSET Readers
    BY DEF Checked
  <2>2. Cardinality(Checked) \in Nat /\ sealed[s] \in Nat /\ MaxReports \in Nat
    BY <2>1, ReadersFinite, MacBoundsAssumption DEF MacTypeOK
  <2> QED
    BY <2>2 DEF ReportsInv
<1> QED
  BY <1>1, <1>2, <1>3, TypeCorrect, PTL DEF Spec

-----------------------------------------------------------------------------
(* The flags and the link, with one client at a time.                      *)

OneOpen == \A c, d \in OpenChannels : c = d

\* The last callback still to run.
LastIs(e) == toMac # <<>> /\ toMac[Len(toMac)] = e

\* The run loop has heard of c, and is setting it up or has done so.
Serving(c) ==
    /\ channel \in {c, NoChannel} /\ (BeforeClose => channel = c)
    /\ pc[RunLoop] \in {"announce", "session", "fetch", "write", "idle"}
    /\ pc[RunLoop] \in {"announce", "session"} => accepting = c
    /\ pc[RunLoop] \in {"fetch", "write", "idle"} => encryptor = c
    /\ pc[RunLoop] # "announce" /\ BeforeClose => connected

\* The run loop has heard that the last channel closed.
Clearing ==
    /\ pc[RunLoop] \in {"publish", "idle", "drop", "end"}
    /\ ~connected
    /\ pc[RunLoop] # "drop" => channel = NoChannel
    /\ pc[RunLoop] \in {"publish", "idle"} => encryptor = NoSession

\* The callback of an open channel is the last to come, or the channel is
\* served; without one the last to come, if any, says so.
OpenServed ==
    \A c \in OpenChannels : LastIs(OpenedEvent(c)) \/ (toMac = <<>> /\ Serving(c))
NoneServed ==
    OpenChannels = {} =>
        IF toMac = <<>> THEN Clearing ELSE toMac[Len(toMac)].event = "closed"

Unpublished ==
    pc[RunLoop] = "publish" => ~service /\ toMac = <<>> /\ OpenChannels = {}

QueueInv == OneOpen /\ OpenServed /\ NoneServed /\ Unpublished

LEMMA OpenedEvents ==
    \A c, d : /\ OpenedEvent(c).event = "opened"
              /\ OpenedEvent(c) = OpenedEvent(d) => c = d
              /\ OpenedEvent(c) # [event |-> "closed", ch |-> d]
BY DEF OpenedEvent

LEMMA LastTail ==
    ASSUME LinkTypeOK, toMac # <<>>
    PROVE  /\ Tail(toMac) # <<>> =>
                 Tail(toMac)[Len(Tail(toMac))] = toMac[Len(toMac)]
           /\ Tail(toMac) = <<>> => toMac[Len(toMac)] = Head(toMac)
<1>1. CASE Len(toMac) = 1
  BY <1>1, TailFacts
<1>2. CASE Len(toMac) > 1
  <2>1. /\ Len(toMac) - 1 \in 1 .. Len(toMac) - 1
        /\ (Len(toMac) - 1) + 1 = Len(toMac)
    BY <1>2, TailFacts
  <2>2. Tail(toMac)[Len(toMac) - 1] = toMac[(Len(toMac) - 1) + 1]
    BY <2>1, TailFacts
  <2>3. Len(Tail(toMac)) = Len(toMac) - 1 /\ Tail(toMac) # <<>>
    <3>1. Len(Tail(toMac)) = Len(toMac) - 1 /\ Len(toMac) \in Nat
      BY TailFacts
    <3>2. Len(Tail(toMac)) # Len(<<>>)
      BY <1>2, <3>1
    <3> QED
      BY <3>1, <3>2
  <2> QED
    BY <2>1, <2>2, <2>3
<1> QED
  BY <1>1, <1>2, TailFacts

LEMMA LastAppend ==
    ASSUME NEW q \in Seq(CallbackEvent), NEW e \in CallbackEvent
    PROVE  Append(q, e) # <<>> /\ Append(q, e)[Len(Append(q, e))] = e
BY AppendFacts

\* A step that leaves the run loop, its flags and the link alone.
LEMMA QueueFrame ==
    ASSUME QueueInv, chan' = chan, toMac' = toMac, service' = service,
           channel' = channel, connected' = connected, encryptor' = encryptor,
           accepting' = accepting, pc'[RunLoop] = pc[RunLoop],
           BeforeClose' => BeforeClose
    PROVE  QueueInv'
<1>1. OpenChannels' = OpenChannels
  BY DEF OpenChannels
<1> QED
  BY <1>1 DEF QueueInv, OneOpen, OpenServed, NoneServed, Unpublished, LastIs, Serving,
              Clearing, OpenedEvent

\* The steps of the run loop that read no callback.
LEMMA RunLoopKeepsQueue ==
    ASSUME MacTypeOK, QueueInv,
           PublishService \/ Announce \/ NewSession \/ DropChannel \/ EndSession \/ Send(RunLoop)
    PROVE  QueueInv'
<1> USE ThreadsDiffer, Placeholders
    DEF MacTypeOK, Goto, daemonVars, serverVars, linkVars, BeforeClose
<1>1. chan' = chan /\ toMac' = toMac /\ pc'[Main] = pc[Main]
  BY DEF PublishService, Announce, NewSession, DropChannel, EndSession, Send, SendFetch,
         SendNoChannel, SendWrite, SendFails, SendDone, Put
<1>2. OpenChannels' = OpenChannels
  BY <1>1 DEF OpenChannels
<1>3. SUFFICES /\ \A c \in OpenChannels : Serving(c) => Serving(c)'
               /\ OpenChannels = {} /\ toMac = <<>> /\ Clearing => Clearing'
               /\ Unpublished'
  BY <1>1, <1>2 DEF QueueInv, OneOpen, OpenServed, NoneServed, LastIs, OpenedEvent
<1>4. CASE PublishService
  BY <1>1, <1>2, <1>4 DEF PublishService, QueueInv, Unpublished, Serving, Clearing
<1>5. CASE Announce
  BY <1>1, <1>5 DEF Announce, Unpublished, Serving, Clearing
<1>6. CASE NewSession
  BY <1>1, <1>6 DEF NewSession, Unpublished, Serving, Clearing
<1>7. CASE DropChannel
  BY <1>1, <1>7 DEF DropChannel, Unpublished, Serving, Clearing
<1>8. CASE EndSession
  BY <1>1, <1>8 DEF EndSession, Unpublished, Serving, Clearing
<1>9. CASE Send(RunLoop)
  <2>1. /\ pc[RunLoop] \in {"fetch", "write"} /\ pc'[RunLoop] \in {"write", "idle"}
        /\ channel' = channel /\ connected' = connected /\ encryptor' = encryptor
    BY <1>9 DEF Send, SendFetch, SendNoChannel, SendWrite, SendFails, SendDone
  <2> QED
    BY <1>1, <2>1 DEF Unpublished, Serving, Clearing
<1> QED
  BY <1>4, <1>5, <1>6, <1>7, <1>8, <1>9

\* The steps of the run loop that read one.
LEMMA CallbackKeepsQueue ==
    ASSUME MacTypeOK, OpenedOnce, QueueInv, NEW c \in Channels,
           ClientConnected(c) \/ ClientRejected(c) \/ ChannelClosed(c)
    PROVE  QueueInv'
<1> USE ThreadsDiffer, Placeholders DEF Goto
<1>t. LinkTypeOK /\ pc[RunLoop] = "idle" /\ toMac # <<>> /\ Unpublished'
  BY DEF MacTypeOK, ClientConnected, ClientRejected, ChannelClosed, Callback, Unpublished,
         macVars, threadVars
<1>o. ASSUME NEW d \in OpenChannels
      PROVE  /\ toMac[Len(toMac)] = OpenedEvent(d)
             /\ Tail(toMac) # <<>> => Tail(toMac)[Len(Tail(toMac))] = OpenedEvent(d)
             /\ Tail(toMac) = <<>> => Head(toMac) = OpenedEvent(d)
  BY <1>o, <1>t, LastTail DEF QueueInv, OpenServed, LastIs
<1>n. ASSUME OpenChannels = {}
      PROVE  /\ Tail(toMac) # <<>> => Tail(toMac)[Len(Tail(toMac))].event = "closed"
             /\ Tail(toMac) = <<>> => Head(toMac).event = "closed"
  BY <1>n, <1>t, LastTail DEF QueueInv, NoneServed
<1>1. CASE ClientConnected(c)
  <2>1. /\ chan' = chan /\ toMac' = Tail(toMac) /\ Head(toMac) = OpenedEvent(c)
        /\ channel' = c /\ accepting' = c /\ pc'[RunLoop] = "announce"
    BY <1>1 DEF ClientConnected, Callback, OpenedEvent, MacTypeOK
  <2>2. OpenChannels' = OpenChannels
    BY <2>1 DEF OpenChannels
  <2>3. OneOpen'
    BY <2>2 DEF QueueInv, OneOpen
  <2>4. OpenServed'
    <3> SUFFICES ASSUME NEW d \in OpenChannels, Tail(toMac) = <<>>
                 PROVE  d = c
      BY <1>o, <2>1, <2>2 DEF OpenServed, LastIs, Serving, OpenedEvent
    <3>1. Head(toMac) = OpenedEvent(d)
      BY <1>o
    <3> QED
      BY <2>1, <3>1, OpenedEvents
  <2>5. NoneServed'
    BY <1>n, <2>1, <2>2, OpenedEvents DEF NoneServed
  <2> QED
    BY <1>t, <2>3, <2>4, <2>5 DEF QueueInv
<1>2. CASE ClientRejected(c)
  <2>1. /\ chan' = [chan EXCEPT ![c] = "closed"] /\ Head(toMac) = OpenedEvent(c)
        /\ UNCHANGED macVars
        /\ toMac' = IF c \in OpenChannels
                    THEN Append(Tail(toMac), [event |-> "closed", ch |-> c])
                    ELSE Tail(toMac)
    BY <1>2 DEF ClientRejected, Callback, OpenedEvent, OpenChannels
  <2>2. OpenChannels' = OpenChannels \ {c}
    BY <1>t, <2>1 DEF OpenChannels, LinkTypeOK
  <2>3. CASE c \in OpenChannels
    <3>1. OpenChannels' = {}
      BY <2>2, <2>3 DEF QueueInv, OneOpen
    <3>2. /\ Tail(toMac) \in Seq(CallbackEvent)
          /\ [event |-> "closed", ch |-> c] \in CallbackEvent
      BY <1>t, TailFacts DEF CallbackEvent
    <3>3. toMac' # <<>> /\ toMac'[Len(toMac')].event = "closed"
      BY <2>1, <2>3, <3>2, LastAppend
    <3> QED
      BY <1>t, <3>1, <3>3 DEF QueueInv, OneOpen, OpenServed, NoneServed
  <2>4. CASE c \notin OpenChannels
    <3>1. OpenChannels' = OpenChannels /\ toMac' = Tail(toMac)
      BY <2>1, <2>2, <2>4
    <3>2. Tail(toMac) # <<>>
      <4>1. ASSUME Tail(toMac) = <<>>, NEW d \in OpenChannels
            PROVE  FALSE
        <5>1. Head(toMac) = OpenedEvent(d)
          BY <1>o, <4>1
        <5> QED
          BY <2>1, <2>4, <5>1, OpenedEvents
      <4>2. ASSUME Tail(toMac) = <<>>, OpenChannels = {}
            PROVE  FALSE
        BY <1>n, <2>1, <4>2, OpenedEvents
      <4> QED
        BY <4>1, <4>2
    <3> QED
      BY <1>o, <1>n, <1>t, <3>1, <3>2
         DEF QueueInv, OneOpen, OpenServed, NoneServed, LastIs, OpenedEvent
  <2> QED
    BY <2>3, <2>4
<1>3. CASE ChannelClosed(c)
  <2>1. /\ chan' = chan /\ toMac' = Tail(toMac)
        /\ Head(toMac) = [event |-> "closed", ch |-> c]
        /\ ~connected' /\ pc'[RunLoop] = "drop"
    BY <1>3 DEF ChannelClosed, Callback, MacTypeOK
  <2>2. OpenChannels' = OpenChannels
    BY <2>1 DEF OpenChannels
  <2>3. OpenServed'
    <3> SUFFICES ASSUME NEW d \in OpenChannels
                 PROVE  Tail(toMac) # <<>> /\ Tail(toMac)[Len(Tail(toMac))] = OpenedEvent(d)
      BY <2>1, <2>2 DEF OpenServed, LastIs, OpenedEvent
    <3>1. Tail(toMac) # <<>>
      BY <1>o, <2>1, OpenedEvents
    <3> QED
      BY <1>o, <3>1
  <2>4. NoneServed'
    BY <1>n, <2>1, <2>2 DEF NoneServed, Clearing
  <2> QED
    BY <1>t, <2>2, <2>3, <2>4 DEF QueueInv, OneOpen
<1> QED
  BY <1>1, <1>2, <1>3

\* An open channel goes away, and its callback is queued.
LEMMA DropKeepsQueue ==
    ASSUME MacTypeOK, QueueInv, NEW c \in Channels, Drop(c), pc'[RunLoop] = pc[RunLoop]
    PROVE  QueueInv'
<1>1. /\ c \in OpenChannels /\ OpenChannels' = OpenChannels \ {c}
      /\ toMac' = Append(toMac, [event |-> "closed", ch |-> c])
  BY DEF Drop, OpenChannels, MacTypeOK, LinkTypeOK
<1>2. OpenChannels' = {}
  BY <1>1 DEF QueueInv, OneOpen
<1>3. toMac \in Seq(CallbackEvent) /\ [event |-> "closed", ch |-> c] \in CallbackEvent
  BY DEF MacTypeOK, LinkTypeOK, CallbackEvent
<1>4. toMac' # <<>> /\ toMac'[Len(toMac')].event = "closed"
  BY <1>1, <1>3, LastAppend
<1>5. Unpublished'
  BY <1>1 DEF QueueInv, Unpublished
<1> QED
  BY <1>2, <1>4, <1>5 DEF QueueInv, OneOpen, OpenServed, NoneServed

LEMMA MainKeepsQueue ==
    ASSUME MacTypeOK, Down, QueueInv, MainStep
    PROVE  QueueInv'
<1> USE ThreadsDiffer, Placeholders
    DEF MacTypeOK, Goto, daemonVars, serverVars, linkVars, BeforeClose
<1>1. CASE StopCapture
  BY <1>1, QueueFrame DEF StopCapture
<1>2. CASE CloseChannel
  <2>1. CASE target[Main] \in OpenChannels /\ Drop(target[Main])
    BY <1>2, <2>1, DropKeepsQueue DEF CloseChannel, OpenChannels
  <2>2. CASE UNCHANGED linkVars
    BY <1>2, <2>2, QueueFrame DEF CloseChannel
  <2> QED
    BY <1>2, <2>1, <2>2 DEF CloseChannel
<1>6. CASE TakeChannel
  <2>1. /\ chan' = chan /\ toMac' = toMac /\ service' = service /\ channel' = NoChannel
        /\ connected' = connected /\ encryptor' = encryptor /\ accepting' = accepting
        /\ pc'[RunLoop] = pc[RunLoop] /\ pc'[Main] = "close"
    BY <1>6 DEF TakeChannel
  <2>2. OpenChannels' = OpenChannels
    BY <2>1 DEF OpenChannels
  <2> QED
    BY <2>1, <2>2
       DEF QueueInv, OneOpen, OpenServed, NoneServed, Unpublished, LastIs, Serving, Clearing,
           OpenedEvent
<1>3. CASE ClearConnected
  <2>1. /\ chan' = chan /\ toMac' = toMac /\ service' = service /\ channel' = channel
        /\ ~connected' /\ encryptor' = encryptor /\ accepting' = accepting
        /\ pc'[RunLoop] = pc[RunLoop] /\ pc'[Main] = "exit"
    BY <1>3 DEF ClearConnected
  <2>2. OpenChannels' = OpenChannels
    BY <2>1 DEF OpenChannels
  <2> QED
    BY <2>1, <2>2
       DEF QueueInv, OneOpen, OpenServed, NoneServed, Unpublished, LastIs, Serving, Clearing,
           OpenedEvent
<1>4. CASE ProcessEnds
  <2>1. /\ toMac' = <<>> /\ OpenChannels' = {} /\ pc'[RunLoop] = "idle"
        /\ ~connected' /\ channel' = NoChannel /\ encryptor' = NoSession
    BY <1>4 DEF ProcessEnds, HostGone, OpenChannels
  <2> QED
    BY <2>1 DEF QueueInv, OneOpen, OpenServed, NoneServed, Unpublished, Clearing
<1>5. CASE Launch
  <2>1. /\ ~service /\ toMac = <<>> /\ OpenChannels = {} /\ pc[RunLoop] = "idle"
    BY <1>5 DEF Launch, Down
  <2>2. Clearing
    BY <2>1 DEF QueueInv, NoneServed
  <2>3. /\ UNCHANGED <<chan, toMac, service, channel, connected, encryptor>>
        /\ pc'[RunLoop] = "publish"
    BY <1>5 DEF Launch, FreshThreads
  <2>4. OpenChannels' = {}
    BY <2>1, <2>3 DEF OpenChannels
  <2> QED
    BY <2>1, <2>2, <2>3, <2>4
       DEF QueueInv, OneOpen, OpenServed, NoneServed, Unpublished, Clearing
<1> QED
  BY <1>1, <1>2, <1>3, <1>4, <1>5, <1>6 DEF MainStep

\* A client opens a channel when the one before it is gone.
LEMMA OpenKeepsQueue ==
    ASSUME MacTypeOK, QueueInv, MaxOpen = 1, NEW c \in Channels, Open(c),
           Cardinality(OpenChannels) < MaxOpen, UNCHANGED macVars
    PROVE  QueueInv'
<1>1. OpenChannels = {}
  <2>1. IsFiniteSet(OpenChannels)
    BY FS_Interval, FS_Subset, 1 \in Int, NumChannels \in Int DEF OpenChannels, Channels
  <2>2. Cardinality(OpenChannels) = 0
    BY <2>1, FS_CardinalityType
  <2> QED
    BY <2>1, <2>2, FS_EmptySet
<1>2. OpenChannels' = {c} /\ toMac' = Append(toMac, OpenedEvent(c))
  BY <1>1 DEF Open, OpenChannels, OpenedEvent, MacTypeOK, LinkTypeOK
<1>3. toMac \in Seq(CallbackEvent) /\ OpenedEvent(c) \in CallbackEvent
  BY DEF MacTypeOK, LinkTypeOK, CallbackEvent, OpenedEvent
<1>4. toMac' # <<>> /\ toMac'[Len(toMac')] = OpenedEvent(c)
  BY <1>2, <1>3, LastAppend
<1>5. pc'[RunLoop] # "publish"
  BY DEF QueueInv, Unpublished, Open, macVars, threadVars
<1> QED
  BY <1>2, <1>4, <1>5
     DEF QueueInv, OneOpen, OpenServed, NoneServed, Unpublished, LastIs, OpenedEvent

LEMMA QueueStep ==
    ASSUME MaxOpen = 1, MacTypeOK, StreamInv, QueueInv, [Next]_vars
    PROVE  QueueInv'
<1> USE ThreadsDiffer
    DEF Goto, daemonVars, serverVars, threadVars, macVars, linkVars, MacTypeOK
<1>1. ASSUME NEW r \in Readers, ReaderStep(r)
      PROVE  QueueInv'
  <2>1. /\ chan' = chan /\ toMac' = toMac /\ service' = service /\ channel' = channel
        /\ connected' = connected /\ encryptor' = encryptor /\ accepting' = accepting
        /\ pc'[RunLoop] = pc[RunLoop] /\ pc'[Main] = pc[Main]
    BY <1>1
       DEF ReaderStep, Capture, CheckConnected, Seal, SealDropped, Send, SendFetch,
           SendNoChannel, SendWrite, SendFails, SendDone, Put
  <2> QED
    BY <2>1, QueueFrame DEF BeforeClose
<1>2. CASE RunLoopStep
  BY <1>2, RunLoopKeepsQueue, CallbackKeepsQueue DEF RunLoopStep, StreamInv
<1>3. CASE Toggle \/ UNCHANGED vars
  BY <1>3, QueueFrame DEF Toggle, vars, BeforeClose
<1>4. CASE MainStep
  BY <1>4, MainKeepsQueue DEF StreamInv
<1>5. CASE Clients
  <2>1. PICK c \in Channels : (Cardinality(OpenChannels) < MaxOpen /\ Open(c)) \/ Drop(c)
    BY <1>5 DEF Clients
  <2> QED
    BY <1>5, <2>1, OpenKeepsQueue, DropKeepsQueue DEF Clients
<1> QED
  BY <1>1, <1>2, <1>3, <1>4, <1>5 DEF Next, MacNext

LEMMA QueueInit == Init => QueueInv
<1> SUFFICES ASSUME Init PROVE QueueInv
  OBVIOUS
<1> USE ThreadsDiffer DEF Init, LinkInit, MacInit
<1>1. OpenChannels = {} /\ pc[RunLoop] = "publish"
  BY DEF OpenChannels, FreshThreads
<1> QED
  BY <1>1 DEF QueueInv, OneOpen, OpenServed, NoneServed, Unpublished, Clearing

LEMMA QueueInvariant ==
    ASSUME MaxOpen = 1
    PROVE  Spec => [](MacTypeOK /\ StreamInv /\ QueueInv)
<1>1. MacTypeOK /\ StreamInv /\ QueueInv /\ [Next]_vars =>
          (MacTypeOK /\ StreamInv /\ QueueInv)'
  BY MacTypeStep, StreamStep, QueueStep
<1> QED
  BY <1>1, InitType, StreamInit, QueueInit, PTL DEF Spec

(***************************************************************************)
(* With one client at a time, the flags that the senders read without a    *)
(* common lock agree with the link whenever the run loop has caught up,    *)
(* after any connections, rejections, drops, crashes and restarts.         *)
(***************************************************************************)
THEOREM CoherentCorrect ==
    ASSUME MaxOpen = 1
    PROVE  Spec => []Coherent
<1>1. QueueInv => Coherent
  BY DEF QueueInv, OpenServed, NoneServed, LastIs, Serving, Clearing, BeforeClose, Coherent, Settled,
         Served, NoLeftovers
<1> QED
  BY <1>1, QueueInvariant, PTL

-----------------------------------------------------------------------------
(* Nothing is lost but to writes that fail.                                *)

\* The channel of an open connection whose session has begun is the one the
\* senders read, until stop() takes it from them.
LEMMA SessionChannel ==
    ASSUME OpenedOnce, QueueInv, NEW c \in OpenChannels, ~Fresh(c)
    PROVE  channel \in {c, NoChannel} /\ (BeforeClose => channel = c)
<1>1. c \in Channels /\ ~Announced(c)
  BY DEF OpenedOnce, OpenChannels
<1>2. ~LastIs(OpenedEvent(c)) \/ ~(Len(toMac) \in DOMAIN toMac)
  BY <1>1 DEF LastIs, Announced
<1>3. LastIs(OpenedEvent(c)) => Len(toMac) \in DOMAIN toMac
  BY DEF LastIs
<1> QED
  BY <1>2, <1>3 DEF QueueInv, OpenServed, Serving

\* A report about to be written goes to the channel of its session.
TargetInv ==
    \A c \in OpenChannels : \A r \in Readers :
        out[r].sess = c /\ pc[r] = "write" => target[r] = c

\* A channel is open because it was, or because a client has just opened it.
LEMMA OpenedBy ==
    ASSUME MacTypeOK, [Next]_vars, NEW c \in OpenChannels'
    PROVE  c \in OpenChannels \/ (Open(c) /\ UNCHANGED macVars)
<1> USE DEF OpenChannels, MacTypeOK, LinkTypeOK
<1>1. CASE UNCHANGED chan
  BY <1>1
<1>2. ASSUME NEW d \in Channels, ClientRejected(d) \/ Drop(d)
      PROVE  c \in OpenChannels
  BY <1>2 DEF ClientRejected, Drop
<1>3. CASE ProcessEnds
  BY <1>3 DEF ProcessEnds, HostGone
<1>4. ASSUME NEW d \in Channels, Open(d), UNCHANGED macVars
      PROVE  c \in OpenChannels \/ (Open(c) /\ UNCHANGED macVars)
  BY <1>4 DEF Open
<1> QED
  BY <1>1, <1>2, <1>3, <1>4, EveryQueueStep DEF ClientConnected, ChannelClosed

\* A channel that has just opened has no report on its way.
LEMMA OpenedFresh ==
    ASSUME OpenedOnce, NEW c \in Channels, Open(c)
    PROVE  Fresh(c)
BY DEF OpenedOnce, Open

LEMMA TargetStep ==
    ASSUME MacTypeOK, StreamInv, QueueInv, TargetInv, [Next]_vars
    PROVE  TargetInv'
<1> USE ThreadsDiffer DEF MacTypeOK
<1>1. SUFFICES ASSUME NEW c \in OpenChannels', NEW r \in Readers,
                      out'[r].sess = c, pc'[r] = "write"
               PROVE  target'[r] = c
  BY DEF TargetInv
<1>c. c \in Channels /\ c # NoItem.sess
  BY DEF OpenChannels, Channels, NoItem
<1>2. CASE UNCHANGED threadVars
  <2>1. UNCHANGED <<out, pc, target>>
    BY <1>2 DEF threadVars
  <2>2. CASE c \in OpenChannels
    BY <1>1, <2>1, <2>2 DEF TargetInv
  <2>3. CASE c \notin OpenChannels
    <3>1. Open(c)
      BY <2>3, OpenedBy
    <3> QED
      BY <1>1, <1>c, <2>1, <3>1, OpenedFresh DEF StreamInv, Fresh
  <2> QED
    BY <2>2, <2>3
<1>3. CASE ~UNCHANGED threadVars
  <2>1. c \in OpenChannels
    BY <1>3, OpenedBy DEF macVars
  <2>2. ASSUME out'[r] = out[r], pc'[r] = pc[r], target'[r] = target[r]
        PROVE  target'[r] = c
    BY <1>1, <2>1, <2>2 DEF TargetInv
  <2>3. ASSUME SendFetch(r)
        PROVE  target'[r] = c
    <3>1. out' = out /\ target'[r] = channel /\ channel # NoChannel
      BY <2>3 DEF SendFetch, Goto
    <3>2. ~Fresh(c)
      BY <1>1, <3>1 DEF Fresh
    <3> QED
      BY <2>1, <3>1, <3>2, SessionChannel DEF StreamInv
  <2>4. ASSUME NEW t \in Senders, Send(t), t # r
        PROVE  target'[r] = c
    <3>1. out'[r] = out[r] /\ pc'[r] = pc[r] /\ target'[r] = target[r]
      BY <2>4 DEF Send, SendFetch, SendNoChannel, SendWrite, SendFails, SendDone, Goto
    <3> QED
      BY <2>2, <3>1
  <2>5. ~(SendNoChannel(r) \/ SendWrite(r) \/ SendFails(r))
    BY <1>1 DEF SendNoChannel, SendWrite, SendFails, SendDone, Goto
  <2>6. ASSUME NEW q \in Readers, Capture(q) \/ CheckConnected(q) \/ Seal(q) \/ SealDropped(q)
        PROVE  target'[r] = c
    <3>1. q # r
      BY <1>1, <2>6 DEF Capture, CheckConnected, Seal, SealDropped, Goto
    <3>2. out'[r] = out[r] /\ pc'[r] = pc[r] /\ target'[r] = target[r]
      BY <2>6, <3>1 DEF Capture, CheckConnected, Seal, SealDropped, Goto
    <3> QED
      BY <2>2, <3>2
  <2>7. CASE \/ PublishService \/ Announce \/ NewSession \/ DropChannel \/ EndSession
             \/ \E d \in Channels : ClientConnected(d) \/ ChannelClosed(d)
    <3>1. out'[r] = out[r] /\ pc'[r] = pc[r] /\ target'[r] = target[r]
      BY <2>7 DEF PublishService, Announce, NewSession, DropChannel, EndSession,
                  ClientConnected, ChannelClosed, Goto
    <3> QED
      BY <2>2, <3>1
  <2>8. CASE StopCapture \/ TakeChannel \/ CloseChannel \/ ClearConnected
    <3>1. out'[r] = out[r] /\ pc'[r] = pc[r] /\ target'[r] = target[r]
      BY <2>8 DEF StopCapture, TakeChannel, CloseChannel, ClearConnected, Goto
    <3> QED
      BY <2>2, <3>1
  <2>9. ~(ProcessEnds \/ Launch)
    BY <1>1 DEF ProcessEnds, Launch, FreshThreads
  <2>10. /\ Toggle => UNCHANGED threadVars
         /\ Clients => UNCHANGED threadVars
         /\ UNCHANGED vars => UNCHANGED threadVars
         /\ \A d \in Channels : ClientRejected(d) => UNCHANGED threadVars
    BY DEF Toggle, Clients, ClientRejected, vars, macVars
  <2> QED
    BY <1>3, <2>3, <2>4, <2>5, <2>6, <2>7, <2>8, <2>9, <2>10
       DEF Next, MacNext, RunLoopStep, ReaderStep, MainStep, Send
<1> QED
  BY <1>2, <1>3

\* What a step may do to the reports that are sealed and not yet written.
NothingMoves ==
    UNCHANGED <<wire, sealed, out, failures>> /\ encryptor' \in {encryptor, NoSession}

LEMMA EveryLossStep ==
    ASSUME MacTypeOK, [Next]_vars
    PROVE  \/ NothingMoves
           \/ \E r \in Readers : Seal(r)
           \/ \E t \in Senders : SendWrite(t) \/ SendNoChannel(t) \/ SendFails(t)
           \/ NewSession
           \/ ProcessEnds
<1> USE ThreadsDiffer DEF daemonVars, serverVars, threadVars, macVars, linkVars, NothingMoves
<1>1. ASSUME NEW t \in Senders, SendFetch(t)
      PROVE  NothingMoves
  BY <1>1 DEF SendFetch
<1>2. ASSUME NEW r \in Readers, Capture(r) \/ CheckConnected(r) \/ SealDropped(r)
      PROVE  NothingMoves
  BY <1>2 DEF Capture, CheckConnected, SealDropped
<1>3. CASE PublishService \/ Announce \/ DropChannel \/ EndSession
  BY <1>3 DEF PublishService, Announce, DropChannel, EndSession
<1>4. ASSUME NEW c \in Channels, ClientConnected(c) \/ ClientRejected(c) \/ ChannelClosed(c)
      PROVE  NothingMoves
  BY <1>4 DEF ClientConnected, ClientRejected, ChannelClosed
<1>5. CASE Toggle \/ StopCapture \/ TakeChannel \/ CloseChannel \/ ClearConnected \/ Launch
  BY <1>5 DEF Toggle, StopCapture, TakeChannel, CloseChannel, Drop, ClearConnected, Launch
<1>6. CASE Clients \/ UNCHANGED vars
  BY <1>6 DEF Clients, Open, Drop, vars
<1> QED
  BY <1>1, <1>2, <1>3, <1>4, <1>5, <1>6
     DEF Next, MacNext, RunLoopStep, ReaderStep, MainStep, Send

\* Where report i of session c is, if it is not lost.
Kept(c, i) ==
    \/ \E item \in Packets(c) : item.sess = c /\ item.idx = i
    \/ \E r \in Readers : IsPacket(out[r]) /\ out[r].sess = c /\ out[r].idx = i

LEMMA UnwrittenFinite ==
    ASSUME MacTypeOK, NEW c \in Channels
    PROVE  /\ Unwritten(c) = {i \in 0 .. sealed[c] - 1 : ~Kept(c, i)}
           /\ IsFiniteSet(Unwritten(c))
           /\ Cardinality(Unwritten(c)) \in Nat
<1>1. sealed[c] \in Nat
  BY Placeholders DEF MacTypeOK
<1>2. Unwritten(c) \subseteq 0 .. sealed[c] - 1
  BY DEF Unwritten
<1>3. IsFiniteSet(Unwritten(c))
  BY <1>1, <1>2, FS_Interval, FS_Subset, 0 \in Int, sealed[c] - 1 \in Int
<1> QED
  BY <1>3, FS_CardinalityType DEF Unwritten, Kept

\* A write keeps what the channel holds, and adds its item.
LEMMA PutKeepsStream ==
    ASSUME LinkTypeOK, NEW d \in Channels, NEW item \in Item, Put(d, item), NEW c \in Channels
    PROVE  (\A p \in Stream(c) : p \in Stream(c)') /\ item \in Stream(d)'
<1>1. \A p \in Stream(c) : p \in Stream(c)'
  BY PutFacts DEF Stream
<1>2. item \in Stream(d)'
  <2>1. wire[d] \in Seq(Item) /\ wire'[d] = Append(wire[d], item)
    BY DEF Put, LinkTypeOK
  <2>2. Len(wire[d]) + 1 \in DOMAIN wire'[d] /\ wire'[d][Len(wire[d]) + 1] = item
    BY <2>1
  <2> QED
    BY <2>2 DEF Stream
<1> QED
  BY <1>1, <1>2

LEMMA PutKeepsPackets ==
    ASSUME LinkTypeOK, NEW d \in Channels, NEW item \in Item, Put(d, item), NEW c \in Channels
    PROVE  /\ \A p \in Packets(c) : p \in Packets(c)'
           /\ IsPacket(item) => item \in Packets(d)'
BY PutKeepsStream DEF Packets, IsPacket

Lost(c) == Cardinality(Unwritten(c)) + (IF HeaderLost(c) THEN 1 ELSE 0)

\* What stays where it is is not lost.
LEMMA LossBounded ==
    ASSUME MacTypeOK, MacTypeOK', NEW c \in Channels, Lost(c) <= failures,
           Unwritten(c)' \subseteq Unwritten(c), HeaderLost(c)' => HeaderLost(c),
           failures' >= failures
    PROVE  Lost(c)' <= failures'
<1>1. Cardinality(Unwritten(c)') <= Cardinality(Unwritten(c))
  BY UnwrittenFinite, FS_Subset
<1>2. Cardinality(Unwritten(c)') \in Nat /\ Cardinality(Unwritten(c)) \in Nat
  BY UnwrittenFinite, FS_Subset, FS_CardinalityType
<1>3. failures \in Nat /\ failures' \in Nat
  BY DEF MacTypeOK
<1> QED
  BY <1>1, <1>2, <1>3 DEF Lost

LEMMA SealLosesNothing ==
    ASSUME MacTypeOK, StreamInv, NEW r \in Readers, Seal(r), NEW c \in OpenChannels
    PROVE  Unwritten(c)' \subseteq Unwritten(c)
<1> USE ThreadsDiffer, Placeholders
<1>1. /\ c \in Channels /\ encryptor \in Channels
      /\ out[r] = NoItem /\ wire' = wire
  BY DEF OpenChannels, Seal, Goto, MacTypeOK, StreamInv, ItemInv, Locals, linkVars
<1>2. /\ out'[r] = build_packet(r, seqno, encryptor, sealed[encryptor])
      /\ \A q \in Readers \ {r} : out'[q] = out[q]
      /\ sealed' = [sealed EXCEPT ![encryptor] = @ + 1]
  BY DEF Seal, MacTypeOK
<1>3. Packets(c)' = Packets(c)
  BY <1>1 DEF Packets, Stream, IsPacket
<1>4. SUFFICES ASSUME NEW i \in Unwritten(c)'
               PROVE  i \in Unwritten(c)
  OBVIOUS
<1>5. /\ i \in 0 .. sealed'[c] - 1
      /\ \A item \in Packets(c) : ~(item.sess = c /\ item.idx = i)
      /\ \A q \in Readers : ~(IsPacket(out'[q]) /\ out'[q].sess = c /\ out'[q].idx = i)
  BY <1>3, <1>4 DEF Unwritten, IsPacket
<1>6. i \in 0 .. sealed[c] - 1
  <2>1. CASE c = encryptor
    <3>1. sealed[c] \in Nat /\ sealed'[c] = sealed[c] + 1
      BY <1>1, <1>2, <2>1 DEF MacTypeOK
    <3>2. IsPacket(out'[r]) /\ out'[r].sess = c /\ out'[r].idx = sealed[c]
      BY <1>2, <2>1 DEF build_packet, IsPacket
    <3> QED
      BY <1>5, <3>1, <3>2
  <2>2. CASE c # encryptor
    BY <1>1, <1>2, <1>5, <2>2 DEF MacTypeOK
  <2> QED
    BY <2>1, <2>2
<1>7. \A q \in Readers : ~(IsPacket(out[q]) /\ out[q].sess = c /\ out[q].idx = i)
  BY <1>1, <1>2, <1>5
<1> QED
  BY <1>5, <1>6, <1>7 DEF Unwritten

LEMMA WriteLosesNothing ==
    ASSUME MacTypeOK, StreamInv, TargetInv, NEW t \in Senders, SendWrite(t),
           NEW c \in OpenChannels
    PROVE  Unwritten(c)' \subseteq Unwritten(c)
<1> USE ThreadsDiffer, Placeholders
<1>1. /\ c \in Channels /\ LinkTypeOK /\ pc[t] = "write"
      /\ target[t] \in Channels /\ out[t] \in Item /\ Put(target[t], out[t])
      /\ sealed' = sealed
      /\ \A q \in Senders \ {t} : out'[q] = out[q]
  BY DEF OpenChannels, SendWrite, SendDone, MacTypeOK, daemonVars
<1>2. \A p \in Packets(c) : p \in Packets(c)'
  BY <1>1, PutKeepsPackets
<1>3. SUFFICES ASSUME NEW i \in Unwritten(c)'
               PROVE  i \in Unwritten(c)
  OBVIOUS
<1>4. /\ i \in 0 .. sealed[c] - 1
      /\ \A item \in Packets(c)' : ~(item.sess = c /\ item.idx = i)
      /\ \A q \in Readers : ~(IsPacket(out'[q]) /\ out'[q].sess = c /\ out'[q].idx = i)
  BY <1>1, <1>3 DEF Unwritten, IsPacket
<1>5. ASSUME NEW q \in Readers, IsPacket(out[q]), out[q].sess = c, out[q].idx = i
      PROVE  FALSE
  <2>1. CASE q = t
    <3>1. target[t] = c
      BY <1>1, <1>5, <2>1 DEF TargetInv
    <3>2. out[t] \in Packets(c)'
      BY <1>1, <1>5, <2>1, <3>1, PutKeepsPackets
    <3> QED
      BY <1>4, <1>5, <2>1, <3>2
  <2>2. CASE q # t
    BY <1>1, <1>4, <1>5, <2>2
  <2> QED
    BY <2>1, <2>2
<1> QED
  BY <1>2, <1>4, <1>5 DEF Unwritten

LEMMA NoChannelLosesNothing ==
    ASSUME MacTypeOK, StreamInv, QueueInv, NEW t \in Senders, SendNoChannel(t),
           NEW c \in OpenChannels, BeforeClose
    PROVE  out[t].sess # c
<1>1. channel = NoChannel /\ c # NoChannel
  BY Placeholders DEF SendNoChannel, OpenChannels
<1>2. Fresh(c)
  BY <1>1, SessionChannel DEF StreamInv
<1> QED
  BY <1>2 DEF Fresh

\* The stream header of a session in progress is on its channel, or held by
\* the run loop, but for a write that fails.
LEMMA HeaderKept ==
    ASSUME MacTypeOK, StreamInv, QueueInv, HeaderInv, NEW c \in OpenChannels, BeforeClose,
           [Next]_vars, ~ProcessEnds, ~SendFails(RunLoop), HeaderLost(c)'
    PROVE  HeaderLost(c)
<1> USE ThreadsDiffer, Placeholders
<1>c. c \in Channels
  BY DEF OpenChannels
<1>1. encryptor' = c /\ header(c) \notin Stream(c)' /\ out'[RunLoop] # header(c)
  BY DEF HeaderLost, header
<1>2. CASE NothingMoves
  BY <1>c, <1>1, <1>2 DEF NothingMoves, HeaderLost, Stream
<1>3. ASSUME NEW r \in Readers, Seal(r)
      PROVE  HeaderLost(c)
  <2>1. encryptor' = encryptor /\ wire' = wire /\ out'[RunLoop] = out[RunLoop]
    BY <1>3 DEF Seal, MacTypeOK, linkVars
  <2> QED
    BY <1>1, <2>1 DEF HeaderLost, Stream
<1>4. ASSUME NEW t \in Senders, SendWrite(t)
      PROVE  HeaderLost(c)
  <2>1. /\ target[t] \in Channels /\ out[t] \in Item /\ Put(target[t], out[t])
        /\ LinkTypeOK /\ encryptor' = encryptor /\ pc[t] = "write"
        /\ \A u \in Senders \ {t} : out'[u] = out[u]
    BY <1>4 DEF SendWrite, SendDone, MacTypeOK, daemonVars
  <2>2. header(c) \notin Stream(c)
    BY <1>c, <1>1, <2>1, PutKeepsStream
  <2>3. out[RunLoop] # header(c)
    <3>1. CASE t = RunLoop
      <4>1. ASSUME out[RunLoop] = header(c)
            PROVE  FALSE
        <5>1. target[RunLoop] = c
          BY <2>1, <3>1, <4>1 DEF HeaderInv, HeaderHeld, header
        <5> QED
          BY <1>c, <1>1, <2>1, <3>1, <4>1, <5>1, PutKeepsStream
      <4> QED
        BY <4>1
    <3>2. CASE t # RunLoop
      BY <1>1, <2>1, <3>2
    <3> QED
      BY <3>1, <3>2
  <2> QED
    BY <1>1, <2>1, <2>2, <2>3 DEF HeaderLost
<1>5. ASSUME NEW t \in Senders, SendNoChannel(t)
      PROVE  HeaderLost(c)
  <2>1. /\ encryptor' = encryptor /\ wire' = wire
        /\ \A u \in Senders \ {t} : out'[u] = out[u]
    BY <1>5 DEF SendNoChannel, SendDone, MacTypeOK, daemonVars, linkVars
  <2>2. out[RunLoop] # header(c)
    BY <1>1, <1>5, <2>1, NoChannelLosesNothing DEF header
  <2> QED
    BY <1>1, <2>1, <2>2 DEF HeaderLost, Stream
<1>6. ASSUME NEW r \in Readers, SendFails(r)
      PROVE  HeaderLost(c)
  <2>1. encryptor' = encryptor /\ wire' = wire /\ out'[RunLoop] = out[RunLoop]
    BY <1>6 DEF SendFails, SendDone, MacTypeOK, daemonVars, linkVars
  <2> QED
    BY <1>1, <2>1 DEF HeaderLost, Stream
<1>7. ~NewSession
  <2> SUFFICES ASSUME NewSession PROVE FALSE
    OBVIOUS
  <2>1. encryptor' = accepting /\ out'[RunLoop] = header(accepting)
    BY DEF NewSession, MacTypeOK
  <2> QED
    BY <1>1, <2>1
<1> QED
  BY <1>2, <1>3, <1>4, <1>5, <1>6, <1>7, EveryLossStep DEF Senders

\* A write that fails loses one item at most, and is counted.
LEMMA FailureIsCounted ==
    ASSUME MacTypeOK, MacTypeOK', StreamInv, QueueInv, HeaderInv, TargetInv, [Next]_vars,
           BeforeClose, NEW t \in Senders, SendFails(t), NEW c \in OpenChannels,
           Lost(c) <= failures
    PROVE  Lost(c)' <= failures'
<1> USE ThreadsDiffer, Placeholders
<1>1. /\ c \in Channels /\ pc[t] = "write" /\ wire' = wire /\ sealed' = sealed
      /\ encryptor' = encryptor
      /\ \A q \in Senders \ {t} : out'[q] = out[q]
      /\ failures \in Nat /\ failures' \in Nat /\ failures' >= failures
  BY DEF OpenChannels, SendFails, SendDone, MacTypeOK, daemonVars, linkVars
<1>2. IsFiniteSet(Unwritten(c)) /\ Cardinality(Unwritten(c)) \in Nat
  BY <1>1, UnwrittenFinite
<1>3. CASE t = RunLoop
  <2>1. Unwritten(c)' \subseteq Unwritten(c)
    BY <1>1, <1>3 DEF Unwritten, Packets, Stream, IsPacket
  <2>2. CASE HeaderLost(c)' => HeaderLost(c)
    BY <1>1, <2>1, <2>2, LossBounded
  <2>3. CASE ~HeaderLost(c) /\ HeaderLost(c)'
    <3>1. out[RunLoop] = header(c)
      BY <1>1, <2>3 DEF HeaderLost, Stream
    <3>2. target[RunLoop] = c
      <4>1. out[RunLoop] # NoItem /\ out[RunLoop].sess = c
        BY <3>1 DEF header, NoItem, HEADER
      <4> QED
        BY <1>1, <1>3, <4>1 DEF HeaderInv, HeaderHeld
    <3>3. failures' = failures + 1
      BY <1>3, <3>2 DEF SendFails, OpenChannels
    <3>4. /\ Cardinality(Unwritten(c)') <= Cardinality(Unwritten(c))
          /\ Cardinality(Unwritten(c)') \in Nat
      BY <1>2, <2>1, FS_Subset, FS_CardinalityType
    <3> QED
      BY <1>1, <1>2, <2>3, <3>3, <3>4 DEF Lost
  <2> QED
    BY <2>2, <2>3
<1>4. CASE t \in Readers
  <2>1. HeaderLost(c)' => HeaderLost(c)
    BY <1>1, <1>4 DEF HeaderLost, Stream
  <2>2. CASE out[t].sess # c
    <3>1. Unwritten(c)' \subseteq Unwritten(c)
      BY <1>1, <1>4, <2>2 DEF Unwritten, Packets, Stream, IsPacket
    <3> QED
      BY <1>1, <2>1, <3>1, LossBounded
  <2>3. CASE out[t].sess = c
    <3>1. target[t] = c
      BY <1>1, <1>4, <2>3 DEF TargetInv
    <3>2. failures' = failures + 1
      BY <3>1 DEF SendFails, OpenChannels
    <3>3. Unwritten(c)' \subseteq Unwritten(c) \cup {out[t].idx}
      BY <1>1, <1>4 DEF Unwritten, Packets, Stream, IsPacket
    <3>4. /\ IsFiniteSet(Unwritten(c) \cup {out[t].idx})
          /\ \/ Cardinality(Unwritten(c) \cup {out[t].idx}) = Cardinality(Unwritten(c)) + 1
             \/ Cardinality(Unwritten(c) \cup {out[t].idx}) = Cardinality(Unwritten(c))
      <4>1. CASE out[t].idx \in Unwritten(c)
        <5>1. Unwritten(c) \cup {out[t].idx} = Unwritten(c)
          BY <4>1
        <5> QED
          BY <1>2, <5>1
      <4>2. CASE out[t].idx \notin Unwritten(c)
        BY <1>2, <4>2, FS_AddElement
      <4> QED
        BY <4>1, <4>2
    <3>5. /\ Cardinality(Unwritten(c)') <= Cardinality(Unwritten(c)) + 1
          /\ Cardinality(Unwritten(c)') \in Nat
      <4>1. /\ Cardinality(Unwritten(c)') <= Cardinality(Unwritten(c) \cup {out[t].idx})
            /\ Cardinality(Unwritten(c)') \in Nat
        BY <3>3, <3>4, FS_Subset, FS_CardinalityType
      <4> QED
        BY <1>2, <3>4, <4>1
    <3> QED
      BY <1>1, <1>2, <2>1, <3>2, <3>5 DEF Lost
  <2> QED
    BY <2>2, <2>3
<1> QED
  BY <1>3, <1>4 DEF Senders

\* The main thread moves only in its own steps.
LEMMA MainStays ==
    ASSUME MacTypeOK, [Next]_vars, BeforeClose'
    PROVE  pc'[Main] = pc[Main] \/ StopCapture \/ Launch
<1> USE ThreadsDiffer
    DEF MacTypeOK, Goto, daemonVars, serverVars, threadVars, macVars, BeforeClose
<1>1. ASSUME NEW t \in Senders, Send(t)
      PROVE  pc'[Main] = pc[Main]
  BY <1>1 DEF Send, SendFetch, SendNoChannel, SendWrite, SendFails, SendDone
<1>2. ASSUME NEW r \in Readers, ReaderStep(r)
      PROVE  pc'[Main] = pc[Main]
  BY <1>1, <1>2 DEF ReaderStep, Capture, CheckConnected, Seal, SealDropped
<1>3. CASE RunLoopStep
  BY <1>1, <1>3
     DEF RunLoopStep, PublishService, Announce, NewSession, DropChannel, EndSession,
         ClientConnected, ClientRejected, ChannelClosed, Callback
<1>4. CASE Toggle \/ Clients \/ UNCHANGED vars
  BY <1>4 DEF Toggle, Clients, vars
<1>5. ~(TakeChannel \/ CloseChannel \/ ClearConnected \/ ProcessEnds)
  BY DEF TakeChannel, CloseChannel, ClearConnected, ProcessEnds
<1> QED
  BY <1>2, <1>3, <1>4, <1>5 DEF Next, MacNext, MainStep

LEMMA LossStep ==
    ASSUME MacTypeOK, MacTypeOK', StreamInv, QueueInv, HeaderInv, TargetInv,
           NothingLostOnALiveChannel, [Next]_vars
    PROVE  NothingLostOnALiveChannel'
<1> USE ThreadsDiffer, Placeholders
<1>1. SUFFICES ASSUME BeforeClose', NEW c \in OpenChannels'
               PROVE  Lost(c)' <= failures'
  BY DEF NothingLostOnALiveChannel, Lost
<1>c. c \in Channels /\ failures \in Nat
  BY DEF OpenChannels, MacTypeOK
<1>2. CASE c \notin OpenChannels
  <2>1. /\ Open(c) /\ sealed' = sealed /\ failures' = failures
        /\ encryptor' = encryptor
    BY <1>2, OpenedBy DEF macVars, daemonVars
  <2>2. sealed'[c] = 0 /\ encryptor' # c
    BY <1>c, <2>1, OpenedFresh DEF StreamInv, Fresh
  <2>3. Unwritten(c)' = {} /\ ~HeaderLost(c)'
    BY <2>2 DEF Unwritten, HeaderLost
  <2>4. Cardinality(Unwritten(c)') = 0
    BY <2>3, FS_EmptySet
  <2> QED
    BY <1>c, <2>1, <2>3, <2>4 DEF Lost
<1>3. CASE c \in OpenChannels
  <2>b. BeforeClose
    <3>1. ~Launch
      BY <1>3 DEF Launch, StreamInv, Down
    <3>2. pc'[Main] = pc[Main] \/ StopCapture
      BY <1>1, <3>1, MainStays
    <3> QED
      BY <1>1, <3>2 DEF BeforeClose, StopCapture, Goto
  <2>l. Lost(c) <= failures
    BY <1>3, <2>b DEF NothingLostOnALiveChannel, Lost
  <2>p. ~ProcessEnds
    BY <1>1 DEF ProcessEnds, HostGone, OpenChannels
  <2>1. CASE \E t \in Senders : SendFails(t)
    BY <1>3, <2>1, <2>b, <2>l, FailureIsCounted
  <2>2. CASE ~\E t \in Senders : SendFails(t)
    <3>1. HeaderLost(c)' => HeaderLost(c)
      BY <1>3, <2>2, <2>b, <2>p, HeaderKept
    <3>2. Unwritten(c)' \subseteq Unwritten(c) /\ failures' = failures
      <4>1. CASE NothingMoves
        BY <4>1 DEF NothingMoves, Unwritten, Packets, Stream, IsPacket
      <4>2. ASSUME NEW r \in Readers, Seal(r)
            PROVE  Unwritten(c)' \subseteq Unwritten(c) /\ failures' = failures
        BY <1>3, <4>2, SealLosesNothing DEF Seal
      <4>3. ASSUME NEW t \in Senders, SendWrite(t)
            PROVE  Unwritten(c)' \subseteq Unwritten(c) /\ failures' = failures
        BY <1>3, <4>3, WriteLosesNothing DEF SendWrite
      <4>4. ASSUME NEW t \in Senders, SendNoChannel(t)
            PROVE  Unwritten(c)' \subseteq Unwritten(c) /\ failures' = failures
        <5>1. out[t].sess # c
          BY <1>3, <2>b, <4>4, NoChannelLosesNothing
        <5>2. /\ wire' = wire /\ sealed' = sealed /\ failures' = failures
              /\ \A q \in Senders \ {t} : out'[q] = out[q]
          BY <4>4 DEF SendNoChannel, SendDone, MacTypeOK, daemonVars, linkVars
        <5> QED
          BY <5>1, <5>2 DEF Unwritten, Packets, Stream, IsPacket
      <4>5. CASE NewSession
        <5>1. Fresh(accepting) /\ accepting \in Channels
          BY <4>5 DEF NewSession, Goto, StreamInv, OpenedOnce, MacTypeOK
        <5>2. /\ wire' = wire /\ sealed' = sealed /\ failures' = failures
              /\ \A r \in Readers : out'[r] = out[r]
          BY <4>5, <5>1 DEF NewSession, Fresh, MacTypeOK, linkVars
        <5> QED
          BY <5>2 DEF Unwritten, Packets, Stream, IsPacket
      <4> QED
        BY <2>2, <2>p, <4>1, <4>2, <4>3, <4>4, <4>5, EveryLossStep
    <3> QED
      BY <1>c, <2>l, <3>1, <3>2, LossBounded
  <2> QED
    BY <2>1, <2>2
<1> QED
  BY <1>2, <1>3

(***************************************************************************)
(* With one client at a time and until stop() takes the channel, the       *)
(* stream header of an open channel's session and every report the session *)
(* sealed are on that channel or with the thread about to write them, but  *)
(* for as many as there were failed writes: nothing is sent to a channel   *)
(* it was not sealed for, or given up, while the client it is for still    *)
(* listens.                                                                *)
(***************************************************************************)
THEOREM NothingLostCorrect ==
    ASSUME MaxOpen = 1
    PROVE  Spec => []NothingLostOnALiveChannel
<1>1. Init => HeaderInv /\ TargetInv /\ NothingLostOnALiveChannel
  <2> SUFFICES ASSUME Init PROVE TargetInv /\ NothingLostOnALiveChannel
    BY HeaderInit
  <2>1. OpenChannels = {}
    BY DEF Init, LinkInit, OpenChannels
  <2> QED
    BY <2>1 DEF TargetInv, NothingLostOnALiveChannel
<1>2. /\ MacTypeOK /\ MacTypeOK' /\ StreamInv /\ QueueInv /\ HeaderInv
      /\ TargetInv /\ NothingLostOnALiveChannel /\ [Next]_vars
      => HeaderInv' /\ TargetInv' /\ NothingLostOnALiveChannel'
  BY TargetStep, LossStep, OwnHeadersStep, HeaderHeldStep DEF StreamInv, ItemInv, HeaderInv
<1> QED
  BY <1>1, <1>2, QueueInvariant, PTL DEF Spec
=============================================================================
