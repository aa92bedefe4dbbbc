-------------------------- MODULE ServerInput_proofs --------------------------
(***************************************************************************)
(* What a generated server is given, for every kind of message, every      *)
(* bound, every number of values of a byte and every set of names, of      *)
(* metadata and of traces: the payloads of a channel first, then the       *)
(* frame that travels with a call and the trace inside it.                 *)
(***************************************************************************)
EXTENDS MCServerInput, SequenceTheorems, WellFoundedInduction, TLAPS

(* A sequence that another one starts with, element by element. *)
Leads(s, t) == Len(s) <= Len(t) /\ \A i \in 1 .. Len(s) : s[i] = t[i]

ChannelTyped ==
  /\ {messages, accepted, delivered} \subseteq Seq(Messages)
  /\ arrived \in Nat /\ once \in BOOLEAN
  /\ sending \in {"open", "complete", "error"}

(* What was sent, arrived, was taken in and was handed out are of one      *)
(* piece, and an end waits for what is in front of it.                     *)
ChannelInv ==
  /\ ChannelTyped
  /\ Len(accepted) = arrived /\ Leads(accepted, messages) /\ Leads(delivered, accepted)
  /\ closed # "open" => closed = sending /\ arrived = Len(messages)
  /\ outcome # "none" => outcome = closed /\ closed # "open" /\ delivered = accepted
  /\ once = (arrived # 0) /\ (handler = "none") = ~once /\ (requester = "waiting") = ~once

LEMMA LeadsAll ==
  ASSUME NEW S, NEW s \in Seq(S), NEW t \in Seq(S), Leads(s, t)
  PROVE  s = SubSeq(t, 1, Len(s)) /\ (Len(s) = Len(t) => s = t)
<1>1. Len(s) \in Nat /\ Len(t) \in Nat /\ Len(s) <= Len(t) /\ \A i \in 1 .. Len(s) : s[i] = t[i]
  BY LenProperties DEF Leads
<1>2. \A i \in 1 .. Len(s) : t[i] \in S
  BY <1>1, ElementOfSeq
<1>3. /\ SubSeq(t, 1, Len(s)) \in Seq(S) /\ Len(SubSeq(t, 1, Len(s))) = Len(s)
      /\ \A i \in 1 .. Len(s) : SubSeq(t, 1, Len(s))[i] = t[i]
  <2>1. /\ SubSeq(t, 1, Len(s)) \in Seq(S)
        /\ Len(SubSeq(t, 1, Len(s))) = IF 1 <= Len(s) THEN Len(s) - 1 + 1 ELSE 0
        /\ \A i \in 1 .. Len(s) - 1 + 1 : SubSeq(t, 1, Len(s))[i] = t[1 + i - 1]
    BY <1>1, <1>2, SubSeqProperties
  <2> QED BY <2>1, <1>1
<1>4. s = SubSeq(t, 1, Len(s))
  BY <1>1, <1>3, SeqEqual
<1>5. Len(s) = Len(t) => s = t
  BY <1>1, SeqEqual
<1> QED BY <1>4, <1>5

(* One more at the end of the longer one, or of both. *)
LEMMA LeadsAppend ==
  ASSUME NEW S, NEW s \in Seq(S), NEW t \in Seq(S), NEW e \in S, Leads(s, t)
  PROVE  /\ Leads(s, Append(t, e)) /\ Append(t, e) \in Seq(S) /\ Len(Append(t, e)) = Len(t) + 1
         /\ Len(s) < Len(t) =>
              /\ t[Len(s) + 1] \in S /\ Append(s, t[Len(s) + 1]) \in Seq(S)
              /\ Leads(Append(s, t[Len(s) + 1]), t)
              /\ Len(Append(s, t[Len(s) + 1])) = Len(s) + 1
<1>1. Len(s) \in Nat /\ Len(t) \in Nat /\ Len(s) <= Len(t) /\ \A i \in 1 .. Len(s) : s[i] = t[i]
  BY LenProperties DEF Leads
<1>2. Leads(s, Append(t, e)) /\ Append(t, e) \in Seq(S) /\ Len(Append(t, e)) = Len(t) + 1
  BY <1>1, AppendProperties DEF Leads
<1>3. ASSUME Len(s) < Len(t)
      PROVE  /\ t[Len(s) + 1] \in S /\ Append(s, t[Len(s) + 1]) \in Seq(S)
             /\ Leads(Append(s, t[Len(s) + 1]), t)
             /\ Len(Append(s, t[Len(s) + 1])) = Len(s) + 1
  <2>1. t[Len(s) + 1] \in S
    BY <1>1, <1>3, ElementOfSeq
  <2> DEFINE u == Append(s, t[Len(s) + 1])
  <2>2. /\ u \in Seq(S) /\ Len(u) = Len(s) + 1 /\ u[Len(s) + 1] = t[Len(s) + 1]
        /\ \A i \in 1 .. Len(s) : u[i] = s[i]
    BY <2>1, AppendProperties
  <2> HIDE DEF u
  <2>3. Leads(u, t)
    BY <1>1, <1>3, <2>2 DEF Leads
  <2> QED BY <2>1, <2>2, <2>3 DEF u
<1> QED BY <1>2, <1>3

LEMMA ChannelInit == Channel!Init => ChannelInv
<1> SUFFICES ASSUME Channel!Init PROVE ChannelInv
  OBVIOUS
<1>1. messages = <<>> /\ accepted = <<>> /\ delivered = <<>> /\ Len(<<>>) = 0 /\ <<>> \in Seq(Messages)
  BY EmptySeq DEF Channel!Init, Channel!Queue!Init
<1>2. Leads(<<>>, <<>>)
  BY <1>1 DEF Leads
<1> QED BY <1>1, <1>2 DEF Channel!Init, Channel!Queue!Init, ChannelInv, ChannelTyped

(* Every step of the client, the server, the handler and the requester.    *)
LEMMA ChannelStep ==
  ASSUME ChannelInv, Channel!Next
  PROVE  ChannelInv'
<1> USE DEF ChannelInv
<1>0. messages \in Seq(Messages) /\ accepted \in Seq(Messages) /\ delivered \in Seq(Messages)
  BY DEF ChannelTyped
<1>1. ASSUME NEW m \in Messages, Channel!Send(m) PROVE ChannelInv'
  <2>1. /\ messages' \in Seq(Messages) /\ Leads(accepted, messages')
        /\ UNCHANGED <<accepted, delivered, closed, outcome, arrived, once, handler, requester, sending>>
    BY <1>0, <1>1, LeadsAppend DEF Channel!Send, Channel!processor
  <2>2. closed = "open"
    BY <1>1 DEF Channel!Send
  <2> QED BY <2>1, <2>2 DEF ChannelTyped, Leads
<1>2. ASSUME NEW how \in {"complete", "error"}, Channel!SendEnd(how) PROVE ChannelInv'
  <2>1. closed = "open"
    BY <1>2 DEF Channel!SendEnd
  <2> QED BY <1>2, <2>1 DEF Channel!SendEnd, Channel!processor, ChannelTyped, Leads
<1>3. CASE Channel!OnNext
  <2>1. /\ messages[Len(accepted) + 1] \in Messages
        /\ Append(accepted, messages[Len(accepted) + 1]) \in Seq(Messages)
        /\ Leads(Append(accepted, messages[Len(accepted) + 1]), messages)
        /\ Len(Append(accepted, messages[Len(accepted) + 1])) = Len(accepted) + 1
    <3>1. Len(accepted) < Len(messages)
      BY <1>3 DEF Channel!OnNext
    <3>2. PICK e \in Messages : e = messages[Len(accepted) + 1]
      BY <3>1, <1>0, LenProperties, ElementOfSeq
    <3> QED BY <1>0, <3>1, <3>2, LeadsAppend
  <2>2. accepted' = Append(accepted, messages[Len(accepted) + 1]) /\ closed = "open"
    BY <1>3 DEF Channel!OnNext, Channel!Queue!Offer
  <2>3. Leads(delivered, accepted')
    <3>1. PICK e \in Messages : e = messages[Len(accepted) + 1]
      BY <2>1
    <3> QED BY <1>0, <2>2, <3>1, LeadsAppend
  <2>4. /\ arrived' = arrived + 1 /\ UNCHANGED <<messages, sending, closed, outcome, delivered>>
        /\ once' = TRUE /\ handler' # "none" /\ requester' # "waiting"
    BY <1>3 DEF Channel!OnNext, Channel!Queue!Offer, Channel!Switch
  <2>5. outcome = "none"
    BY <2>2
  <2>6. Leads(accepted', messages') /\ Leads(delivered', accepted')
    BY <2>1, <2>2, <2>3, <2>4
  <2>7. accepted' \in Seq(Messages) /\ Len(accepted') = arrived' /\ arrived' # 0
    BY <2>1, <2>2, <2>4 DEF ChannelTyped
  <2>8. ChannelTyped'
    BY <2>4, <2>7 DEF ChannelTyped
  <2>9. /\ (closed # "open" => closed = sending /\ arrived = Len(messages))'
        /\ (outcome # "none" => outcome = closed /\ closed # "open" /\ delivered = accepted)'
    BY <2>2, <2>4, <2>5
  <2>10. (once = (arrived # 0) /\ (handler = "none") = ~once /\ (requester = "waiting") = ~once)'
    BY <2>4, <2>7
  <2> QED BY <2>6, <2>7, <2>8, <2>9, <2>10
<1>4. CASE Channel!OnEnd
  BY <1>4 DEF Channel!OnEnd, Channel!Queue!Close, ChannelTyped, Leads
<1>5. CASE Channel!HandlerSubscribes
  BY <1>5 DEF Channel!HandlerSubscribes, Channel!Queue!Subscribe, Channel!channel, ChannelTyped, Leads
<1>6. CASE Channel!HandlerCancels
  BY <1>6 DEF Channel!HandlerCancels, Channel!Queue!Cancel, Channel!channel, ChannelTyped, Leads
<1>7. ASSUME NEW n \in 1 .. MaxDemand, Channel!HandlerRequests(n) PROVE ChannelInv'
  BY <1>7 DEF Channel!HandlerRequests, Channel!Queue!Ask, Channel!channel, ChannelTyped, Leads
<1>8. CASE Channel!Drain
  <2>1. CASE Channel!Queue!Deliver
    <3>1. /\ Len(delivered) < Len(accepted) /\ outcome = "none"
          /\ delivered' = Append(delivered, accepted[Len(delivered) + 1])
      BY <2>1 DEF Channel!Queue!Deliver, Channel!Queue!Live
    <3>2. PICK e \in Messages : e = accepted[Len(delivered) + 1]
      BY <3>1, <1>0, LenProperties, ElementOfSeq
    <3>3. delivered' \in Seq(Messages) /\ Leads(delivered', accepted)
      BY <1>0, <3>1, <3>2, LeadsAppend
    <3> QED BY <1>8, <2>1, <3>1, <3>3 DEF Channel!Drain, Channel!Queue!Deliver, Channel!channel, ChannelTyped, Leads
  <2>2. CASE Channel!Queue!Terminate
    BY <1>8, <2>2 DEF Channel!Drain, Channel!Queue!Terminate, Channel!Queue!Live, Channel!channel, ChannelTyped, Leads
  <2> QED BY <1>8, <2>1, <2>2 DEF Channel!Drain
<1>9. ASSUME NEW how \in {"complete", "error", "cancelled"}, Channel!AnswerEnds(how) PROVE ChannelInv'
  BY <1>9 DEF Channel!AnswerEnds, Channel!processor, ChannelTyped, Leads
<1>10. CASE Channel!DecodingThrows
  BY <1>10 DEF Channel!DecodingThrows, Channel!processor, ChannelTyped, Leads
<1> QED BY <1>1, <1>2, <1>3, <1>4, <1>5, <1>6, <1>7, <1>8, <1>9, <1>10 DEF Channel!Next

LEMMA ChannelInvariance == Channel!Spec => []ChannelInv
<1>1. ChannelInv /\ [Channel!Next]_Channel!vars => ChannelInv'
  <2>1. ASSUME ChannelInv, UNCHANGED Channel!vars PROVE ChannelInv'
    BY <2>1 DEF Channel!vars, Channel!processor, ChannelInv, ChannelTyped, Leads
  <2> QED BY <2>1, ChannelStep
<1> QED BY <1>1, ChannelInit, PTL DEF Channel!Spec

(* For all messages and bounds, whenever the payloads and their end come,  *)
(* whatever the handler answers, and however late it subscribes: it reads  *)
(* the messages from the first on, in order and without a gap, is told the *)
(* client's end after the last of them, and the requester is answered      *)
(* exactly if a payload has arrived.                                       *)
THEOREM ChannelIsServed == Channel!Spec => []ChannelServed
<1>1. ChannelInv => ChannelServed
  <2> SUFFICES ASSUME ChannelInv PROVE ChannelServed
    OBVIOUS
  <2> USE DEF ChannelInv
  <2>1. messages \in Seq(Messages) /\ accepted \in Seq(Messages) /\ delivered \in Seq(Messages)
    BY DEF ChannelTyped
  <2>2. Leads(delivered, messages)
    BY <2>1, LenProperties DEF Leads
  <2>3. delivered = SubSeq(messages, 1, Len(delivered))
    BY <2>1, <2>2, LeadsAll
  <2>4. outcome # "none" => delivered = messages
    BY <2>1, <2>2, LeadsAll
  <2> QED BY <2>3, <2>4 DEF ChannelServed, Channel!InputIsWhole, Channel!AnsweredByPayload
<1> QED BY <1>1, ChannelInvariance, PTL
-----------------------------------------------------------------------------
(* What encodeMetadata() writes, the five getters read back, for fields   *)
(* of every length that two bytes can tell.                                *)
Buffer == Seq(Byte)

(* Two bytes are enough for a length that fits, and give it back. *)
LEMMA UInt16Bytes ==
  ASSUME NEW n \in 0 .. Base * Base - 1
  PROVE  /\ n \div Base \in Byte /\ n % Base \in Byte
         /\ (n \div Base) * Base + (n % Base) = n
<1> DEFINE q == n \div Base
           r == n % Base
<1>1. q \in Int /\ r \in 0 .. Base - 1 /\ n = Base * q + r
  BY BaseAssumption
<1>2. q >= 0
  <2>1. CASE q < 0
    <3>1. Base * q <= -Base
      BY <2>1, <1>1, BaseAssumption
    <3> QED BY <3>1, <1>1, BaseAssumption
  <2> QED BY <2>1, <1>1
<1>3. q < Base
  <2>1. CASE q >= Base
    <3>1. Base * q >= Base * Base
      BY <2>1, <1>1, BaseAssumption
    <3> QED BY <3>1, <1>1, BaseAssumption
  <2> QED BY <2>1, <1>1, BaseAssumption
<1> QED BY <1>1, <1>2, <1>3, BaseAssumption DEF Byte

LEMMA UInt16Buffer ==
  ASSUME NEW n \in 0 .. Base * Base - 1
  PROVE  /\ UInt16(n) \in Buffer /\ Len(UInt16(n)) = 2
         /\ UInt16(n)[1] * Base + UInt16(n)[2] = n
<1>1. /\ n \div Base \in Byte /\ n % Base \in Byte
      /\ (n \div Base) * Base + (n % Base) = n
  BY UInt16Bytes
<1>2. PICK h, l : h = n \div Base /\ l = n % Base
  OBVIOUS
<1>3. /\ <<h, l>> \in Seq(Byte) /\ Len(<<h, l>>) = 2
      /\ <<h, l>>[1] = h /\ <<h, l>>[2] = l
  BY <1>1, <1>2
<1>4. UInt16(n) = <<h, l>>
  BY <1>2 DEF UInt16
<1> QED BY <1>1, <1>2, <1>3, <1>4 DEF Buffer

(* Two buffers, one behind the other, and a byte of them. *)
LEMMA Cat ==
  ASSUME NEW s \in Buffer, NEW t \in Buffer
  PROVE  s \o t \in Buffer /\ Len(s \o t) = Len(s) + Len(t)
BY ConcatProperties DEF Buffer

LEMMA CatByte ==
  ASSUME NEW s \in Buffer, NEW t \in Buffer, NEW i \in 1 .. Len(s)
  PROVE  (s \o t)[i] = s[i]
<1>1. Len(s) \in Nat /\ Len(t) \in Nat
  BY LenProperties DEF Buffer
<1> QED BY <1>1, ConcatProperties DEF Buffer

LEMMA CatByteBehind ==
  ASSUME NEW s \in Buffer, NEW t \in Buffer, NEW i \in 1 .. Len(t)
  PROVE  (s \o t)[Len(s) + i] = t[i]
<1>1. Len(s) \in Nat /\ Len(t) \in Nat
  BY LenProperties DEF Buffer
<1> QED BY <1>1, ConcatProperties DEF Buffer

LEMMA CatAssociative ==
  ASSUME NEW s \in Buffer, NEW t \in Buffer, NEW u \in Buffer
  PROVE  (s \o t) \o u = s \o (t \o u)
BY ConcatAssociative DEF Buffer

(* What lies between two parts of a buffer. *)
LEMMA Middle ==
  ASSUME NEW pre \in Buffer, NEW s \in Buffer, NEW post \in Buffer
  PROVE  Bytes((pre \o s) \o post, Len(pre), Len(pre) + Len(s)) = s
<1> DEFINE b == (pre \o s) \o post
           t == SubSeq(b, Len(pre) + 1, Len(pre) + Len(s))
<1>1. /\ Len(pre) \in Nat /\ Len(s) \in Nat /\ Len(post) \in Nat
      /\ pre \o s \in Buffer /\ Len(pre \o s) = Len(pre) + Len(s)
  BY LenProperties, ConcatProperties DEF Buffer
<1>2. b \in Buffer /\ Len(b) = Len(pre) + Len(s) + Len(post)
  BY <1>1, ConcatProperties DEF Buffer
<1>3. \A i \in 1 .. Len(s) : b[Len(pre) + i] = s[i]
  <2> SUFFICES ASSUME NEW i \in 1 .. Len(s) PROVE b[Len(pre) + i] = s[i]
    OBVIOUS
  <2>1. b[Len(pre) + i] = (pre \o s)[Len(pre) + i]
    BY <1>1, ConcatProperties DEF Buffer
  <2>2. (pre \o s)[Len(pre) + i] = s[i]
    BY <1>1, ConcatProperties DEF Buffer
  <2> QED BY <2>1, <2>2
<1>4. \A i \in Len(pre) + 1 .. Len(pre) + Len(s) : b[i] \in Byte
  BY <1>1, <1>2, ElementOfSeq DEF Buffer
<1>5. /\ t \in Buffer /\ Len(t) = Len(s)
      /\ \A i \in 1 .. Len(s) : t[i] = b[Len(pre) + i]
  <2>1. /\ t \in Seq(Byte)
        /\ Len(t) = IF Len(pre) + 1 <= Len(pre) + Len(s) THEN Len(pre) + Len(s) - (Len(pre) + 1) + 1 ELSE 0
        /\ \A i \in 1 .. Len(pre) + Len(s) - (Len(pre) + 1) + 1 : t[i] = b[Len(pre) + 1 + i - 1]
    <3> HIDE DEF b
    <3> QED BY <1>1, <1>4, SubSeqProperties
  <2> QED BY <2>1, <1>1 DEF Buffer
<1>6. \A i \in 1 .. Len(t) : t[i] = s[i]
  BY <1>3, <1>5
<1>7. t = s
  <2> HIDE DEF t
  <2> QED BY <1>5, <1>6, SeqEqual DEF Buffer
<1> QED BY <1>7 DEF Bytes

(* A length written in front of a string is read back, and the string.     *)
LEMMA FieldRead ==
  ASSUME NEW pre \in Buffer, NEW s \in Buffer, NEW post \in Buffer, Fits(s)
  PROVE  LET b == (pre \o Field(s)) \o post IN
         /\ Behind(b, Len(pre)) = Len(pre) + 2 + Len(s)
         /\ FieldAt(b, Len(pre)) = s
         /\ Field(s) \in Buffer /\ Len(Field(s)) = 2 + Len(s)
<1>1. Len(s) \in 0 .. Base * Base - 1
  <2>1. Base * Base \in Nat
    BY BaseAssumption
  <2> QED BY <2>1, LenProperties DEF Fits, Buffer
<1>2. PICK u : /\ u = UInt16(Len(s)) /\ u \in Buffer /\ Len(u) = 2
               /\ u[1] * Base + u[2] = Len(s)
  BY <1>1, UInt16Buffer
<1>3. Len(u) = 2 /\ u \in Buffer /\ Len(s) \in Nat /\ Len(pre) \in Nat
  BY <1>2, LenProperties DEF Buffer
<1>4. PICK f : f = Field(s) /\ f = u \o s
  BY <1>2 DEF Field
<1>5. f \in Buffer /\ Len(f) = 2 + Len(s) /\ f[1] = u[1] /\ f[2] = u[2]
  <2>1. f \in Buffer /\ Len(f) = Len(u) + Len(s)
    BY <1>3, <1>4, Cat
  <2>2. 1 \in 1 .. Len(u) /\ 2 \in 1 .. Len(u)
    BY <1>3
  <2>3. (u \o s)[1] = u[1] /\ (u \o s)[2] = u[2]
    BY <1>3, <2>2, CatByte
  <2> QED BY <2>1, <2>3, <1>3, <1>4
<1>6. PICK pf : pf = pre \o f
  OBVIOUS
<1>7. /\ pf \in Buffer /\ Len(pf) = Len(pre) + 2 + Len(s)
      /\ pf[Len(pre) + 1] = f[1] /\ pf[Len(pre) + 2] = f[2]
  <2>1. pf \in Buffer /\ Len(pf) = Len(pre) + Len(f)
    BY <1>5, <1>6, Cat
  <2>2. 1 \in 1 .. Len(f) /\ 2 \in 1 .. Len(f)
    BY <1>3, <1>5
  <2>3. (pre \o f)[Len(pre) + 1] = f[1] /\ (pre \o f)[Len(pre) + 2] = f[2]
    BY <1>5, <2>2, CatByteBehind
  <2> QED BY <2>1, <2>3, <1>3, <1>5, <1>6
<1>8. PICK b : b = pf \o post
  OBVIOUS
<1>9. b[Len(pre) + 1] = pf[Len(pre) + 1] /\ b[Len(pre) + 2] = pf[Len(pre) + 2]
  <2>1. Len(post) \in Nat
    BY LenProperties DEF Buffer
  <2> QED BY <2>1, <1>3, <1>7, <1>8, Cat, CatByte
<1>10. Behind(b, Len(pre)) = Len(pre) + 2 + Len(s)
  BY <1>2, <1>5, <1>7, <1>9 DEF Behind, ReadUInt16
<1>11. PICK pu : pu = pre \o u
  OBVIOUS
<1>12. pu \in Buffer /\ Len(pu) = Len(pre) + 2
  BY <1>3, <1>11, Cat, ZenonT(40)
<1>13. b = (pu \o s) \o post
  BY <1>3, <1>4, <1>6, <1>8, <1>11, CatAssociative, SMTT(30)
<1>14. Bytes(b, Len(pu), Len(pu) + Len(s)) = s
  BY <1>12, <1>13, Middle
<1>15. FieldAt(b, Len(pre)) = s
  BY <1>10, <1>12, <1>14 DEF FieldAt
<1> QED BY <1>4, <1>5, <1>6, <1>8, <1>10, <1>15

(* The bytes of the last part. *)
LEMMA Rest ==
  ASSUME NEW pre \in Buffer, NEW s \in Buffer
  PROVE  Bytes(pre \o s, Len(pre), Len(pre \o s)) = s
<1>1. <<>> \in Buffer /\ (pre \o s) \o <<>> = pre \o s /\ Len(pre \o s) = Len(pre) + Len(s)
  BY EmptySeq, Cat, ConcatEmptySeq DEF Buffer
<1>2. Bytes((pre \o s) \o <<>>, Len(pre), Len(pre) + Len(s)) = s
  BY <1>1, Middle
<1> QED BY <1>1, <1>2

(* For every service, method and trace whose lengths fit, and every        *)
(* metadata: all five getters give back what encodeMetadata() was given.   *)
THEOREM MetadataRoundTrip ==
  ASSUME NEW svc \in Buffer, NEW mtd \in Buffer, NEW trc \in Buffer,
         NEW meta \in Buffer, Encodable(svc, mtd, trc)
  PROVE  LET b == encodeMetadata(svc, mtd, trc, meta) IN
         /\ getVersion(b) = VERSION /\ getService(b) = svc /\ getMethod(b) = mtd
         /\ getTracing(b) = trc /\ getMetadata(b) = meta
<1>1. PICK v : /\ v = UInt16(VERSION) /\ v \in Buffer /\ Len(v) = 2
               /\ v[1] * Base + v[2] = VERSION
  <2>1. VERSION \in 0 .. Base * Base - 1
    <3>1. Base * Base >= 2
      BY BaseAssumption
    <3> QED BY <3>1, BaseAssumption DEF VERSION
  <2> QED BY <2>1, UInt16Buffer
<1>2. v \in Buffer /\ Len(v) = 2
  BY <1>1
<1>3. PICK s, m, t : s = Field(svc) /\ m = Field(mtd) /\ t = Field(trc)
  OBVIOUS
<1>4. /\ s \in Buffer /\ Len(s) = 2 + Len(svc)
      /\ m \in Buffer /\ Len(m) = 2 + Len(mtd)
      /\ t \in Buffer /\ Len(t) = 2 + Len(trc)
  <2>1. <<>> \in Buffer
    BY EmptySeq DEF Buffer
  <2> QED BY <1>3, <2>1, FieldRead DEF Encodable
<1>5. Len(svc) \in Nat /\ Len(mtd) \in Nat /\ Len(trc) \in Nat
  BY LenProperties DEF Buffer
<1>6. PICK tm : tm = t \o meta /\ tm \in Buffer
  BY <1>4, Cat
<1>7. PICK mtm : mtm = m \o tm
  OBVIOUS
<1>8. PICK vs : vs = v \o s
  OBVIOUS
<1>9. PICK vsm : vsm = vs \o m
  OBVIOUS
<1>10. PICK vsmt : vsmt = vsm \o t
  OBVIOUS
<1>11. PICK b : b = vsmt \o meta
  OBVIOUS
<1>12. b = encodeMetadata(svc, mtd, trc, meta)
  BY <1>1, <1>3, <1>8, <1>9, <1>10, <1>11 DEF encodeMetadata
<1>13. mtm \in Buffer
  BY <1>4, <1>6, <1>7, Cat
<1>14. vs \in Buffer /\ Len(vs) = 4 + Len(svc)
  <2>1. vs \in Buffer /\ Len(vs) = Len(v) + Len(s)
    BY <1>2, <1>4, <1>8, Cat
  <2> QED BY <2>1, <1>2, <1>4, <1>5
<1>15. vsm \in Buffer /\ Len(vsm) = 6 + Len(svc) + Len(mtd)
  <2>1. vsm \in Buffer /\ Len(vsm) = Len(vs) + Len(m)
    BY <1>4, <1>9, <1>14, Cat
  <2> QED BY <2>1, <1>4, <1>5, <1>14
<1>16. vsmt \in Buffer /\ Len(vsmt) = 8 + Len(svc) + Len(mtd) + Len(trc)
  <2>1. vsmt \in Buffer /\ Len(vsmt) = Len(vsm) + Len(t)
    BY <1>4, <1>10, <1>15, Cat
  <2> QED BY <2>1, <1>4, <1>5, <1>15
<1>17. b = vsm \o tm
  <2>1. (vsm \o t) \o meta = vsm \o (t \o meta)
    BY <1>4, <1>15, CatAssociative, SMTT(30)
  <2> QED BY <2>1, <1>6, <1>10, <1>11
<1>18. b = vs \o mtm
  <2>1. (vs \o m) \o tm = vs \o (m \o tm)
    BY <1>4, <1>6, <1>14, CatAssociative
  <2> QED BY <2>1, <1>7, <1>9, <1>17
<1>19. Behind(b, 2) = 4 + Len(svc) /\ FieldAt(b, 2) = svc
  <2>1. b = (v \o Field(svc)) \o mtm
    BY <1>3, <1>8, <1>18
  <2>2. Behind(b, Len(v)) = Len(v) + 2 + Len(svc) /\ FieldAt(b, Len(v)) = svc
    BY <2>1, <1>2, <1>13, FieldRead DEF Encodable
  <2> QED BY <2>2, <1>2, <1>5
<1>20. /\ Behind(b, 4 + Len(svc)) = 6 + Len(svc) + Len(mtd)
       /\ FieldAt(b, 4 + Len(svc)) = mtd
  <2>1. b = (vs \o Field(mtd)) \o tm
    BY <1>3, <1>9, <1>17
  <2>2. Behind(b, Len(vs)) = Len(vs) + 2 + Len(mtd) /\ FieldAt(b, Len(vs)) = mtd
    BY <2>1, <1>6, <1>14, FieldRead DEF Encodable
  <2> QED BY <2>2, <1>5, <1>14
<1>21. /\ Behind(b, 6 + Len(svc) + Len(mtd)) = 8 + Len(svc) + Len(mtd) + Len(trc)
       /\ FieldAt(b, 6 + Len(svc) + Len(mtd)) = trc
  <2>1. b = (vsm \o Field(trc)) \o meta
    BY <1>3, <1>10, <1>11
  <2>2. Behind(b, Len(vsm)) = Len(vsm) + 2 + Len(trc) /\ FieldAt(b, Len(vsm)) = trc
    BY <2>1, <1>15, FieldRead DEF Encodable
  <2> QED BY <2>2, <1>5, <1>15
<1>22. Bytes(b, 8 + Len(svc) + Len(mtd) + Len(trc), Len(b)) = meta
  <2>1. Bytes(vsmt \o meta, Len(vsmt), Len(vsmt \o meta)) = meta
    BY <1>16, Rest
  <2> QED BY <2>1, <1>11, <1>16
<1>23. b[1] = v[1] /\ b[2] = v[2]
  <2>1. 1 \in 1 .. Len(v) /\ 2 \in 1 .. Len(v) /\ 1 \in 1 .. Len(vs) /\ 2 \in 1 .. Len(vs)
    BY <1>2, <1>5, <1>14
  <2>2. (v \o s)[1] = v[1] /\ (v \o s)[2] = v[2]
    BY <1>2, <1>4, <2>1, CatByte
  <2>3. (vs \o mtm)[1] = vs[1] /\ (vs \o mtm)[2] = vs[2]
    BY <1>13, <1>14, <2>1, CatByte
  <2> QED BY <2>2, <2>3, <1>8, <1>18
<1>24. getVersion(b) = VERSION
  BY <1>1, <1>23 DEF getVersion, ReadUInt16
<1> QED
  BY <1>12, <1>19, <1>20, <1>21, <1>22, <1>24
  DEF getService, getMethod, getTracing, getMetadata
-----------------------------------------------------------------------------
(* The trace: mapToBuffer() puts the entries one behind the other, and the *)
(* loop of bufferToMap() walks along them.  Induction is on the least      *)
(* number that breaks what is claimed.                                     *)
LEMMA LeastOf ==
  ASSUME NEW T \in SUBSET Nat, T # {}
  PROVE  \E p \in T : \A q \in T : p <= q
<1>1. \E p \in T : \A q \in T : ~(<<q, p>> \in OpToRel(<, Nat))
  BY WFMin, NatLessThanWellFounded
<1>2. ASSUME NEW p \in Nat, NEW q \in Nat, q < p
      PROVE  <<q, p>> \in OpToRel(<, Nat)
  BY <1>2, Zenon DEF OpToRel
<1>3. PICK p \in T : \A q \in T : ~(<<q, p>> \in OpToRel(<, Nat))
  BY <1>1
<1>4. \A q \in T : p <= q
  <2> SUFFICES ASSUME NEW q \in T, ~(p <= q) PROVE FALSE
    OBVIOUS
  <2>1. p \in Nat /\ q \in Nat /\ q < p
    OBVIOUS
  <2> QED BY <1>2, <1>3, <2>1
<1> QED BY <1>4

(* What FlattenSeq() has after each of the first n parts. *)
Flat(seqs, f, i) == IF i = 1 THEN seqs[i] ELSE f[i - 1] \o seqs[i]
Flattens(seqs, n, f) == f \in [1 .. n -> Buffer] /\ \A i \in 1 .. n : f[i] = Flat(seqs, f, i)

LEMMA FlattensExists ==
  ASSUME NEW seqs \in Seq(Buffer), NEW n \in 0 .. Len(seqs)
  PROVE  \E f : Flattens(seqs, n, f)
<1> DEFINE T == {k \in 0 .. Len(seqs) : ~ \E f : Flattens(seqs, k, f)}
<1>1. Len(seqs) \in Nat
  BY LenProperties
<1>2. SUFFICES ASSUME T # {} PROVE FALSE
  OBVIOUS
<1>3. T \in SUBSET Nat
  BY <1>1
<1>4. PICK p \in T : \A q \in T : p <= q
  <2> HIDE DEF T
  <2> QED BY <1>2, <1>3, LeastOf
<1>5. p # 0
  <2>1. Flattens(seqs, 0, [i \in 1 .. 0 |-> <<>>])
    BY DEF Flattens
  <2> QED BY <2>1
<1>6. PICK f : Flattens(seqs, p - 1, f)
  <2>1. p - 1 \in 0 .. Len(seqs) /\ p - 1 \notin T
    BY <1>1, <1>4, <1>5
  <2> QED BY <2>1
<1> DEFINE x == Flat(seqs, f, p)
           g == [i \in 1 .. p |-> IF i = p THEN x ELSE f[i]]
<1>7. x \in Buffer
  <2>1. p \in 1 .. Len(seqs) /\ seqs[p] \in Buffer
    BY <1>1, <1>5, ElementOfSeq
  <2>2. CASE p = 1
    BY <2>1, <2>2 DEF Flat
  <2>3. CASE p # 1
    <3>1. f[p - 1] \in Buffer
      BY <2>1, <2>3, <1>6, <1>1 DEF Flattens
    <3>2. f[p - 1] \o seqs[p] \in Buffer
      BY <2>1, <3>1, Cat
    <3> QED BY <2>3, <3>2 DEF Flat
  <2> QED BY <2>2, <2>3
<1>8. g \in [1 .. p -> Buffer]
  <2> HIDE DEF x
  <2> QED BY <1>1, <1>6, <1>7 DEF Flattens
<1>9. \A i \in 1 .. p : g[i] = Flat(seqs, g, i)
  <2> SUFFICES ASSUME NEW i \in 1 .. p PROVE g[i] = Flat(seqs, g, i)
    OBVIOUS
  <2>1. Flat(seqs, g, i) = Flat(seqs, f, i)
    BY <1>1 DEF Flat
  <2>2. i # p => f[i] = Flat(seqs, f, i)
    BY <1>1, <1>6 DEF Flattens
  <2> QED BY <2>1, <2>2
<1>10. Flattens(seqs, p, g)
  BY <1>8, <1>9 DEF Flattens
<1> QED BY <1>4, <1>10

(* The recursion of FlattenSeq() has one solution. *)
LEMMA FlattenSeqIs ==
  ASSUME NEW seqs \in Seq(Buffer), Len(seqs) # 0, NEW g, Flattens(seqs, Len(seqs), g)
  PROVE  FlattenSeq(seqs) = g[Len(seqs)]
<1> DEFINE N == Len(seqs)
           Is(f) == f = [i \in 1 .. N |-> IF i = 1 THEN seqs[i] ELSE f[i - 1] \o seqs[i]]
           f == CHOOSE f : Is(f)
<1>1. N \in Nat
  BY LenProperties
<1>2. Is(g)
  BY <1>1 DEF Flattens, Flat
<1>3. Is(f)
  BY <1>2
<1>4. FlattenSeq(seqs) = f[N]
  BY DEF FlattenSeq
<1> HIDE DEF f, N
<1> DEFINE T == {i \in 1 .. N : f[i] # g[i]}
<1>5. ASSUME T # {} PROVE FALSE
  <2>1. T \in SUBSET Nat
    BY <1>1
  <2>2. PICK p \in T : \A q \in T : p <= q
    <3> HIDE DEF T
    <3> QED BY <1>5, <2>1, LeastOf
  <2>3. p \in 1 .. N /\ f[p] # g[p] /\ p \in Nat
    BY <2>1
  <2>4. CASE p = 1
    BY <2>3, <2>4, <1>2, <1>3
  <2>5. CASE p # 1
    <3>1. p - 1 \in 1 .. N /\ f[p - 1] = g[p - 1]
      BY <1>1, <2>2, <2>3, <2>5
    <3>2. f[p] = f[p - 1] \o seqs[p]
      BY <2>3, <2>5, <1>3
    <3>3. g[p] = g[p - 1] \o seqs[p]
      BY <2>3, <2>5, <1>2
    <3> QED BY <2>3, <3>1, <3>2, <3>3
  <2> QED BY <2>4, <2>5
<1>6. f[N] = g[N]
  <2>1. N \in 1 .. N
    BY <1>1 DEF N
  <2> QED BY <1>5, <2>1
<1> QED BY <1>4, <1>6 DEF N

Firsts(seqs, n) == SubSeq(seqs, 1, n)

LEMMA FrontOf ==
  ASSUME NEW S, NEW s \in Seq(S), NEW n \in 0 .. Len(s)
  PROVE  /\ Firsts(s, n) \in Seq(S) /\ Len(Firsts(s, n)) = n
         /\ \A i \in 1 .. n : Firsts(s, n)[i] = s[i]
<1>1. Len(s) \in Nat
  BY LenProperties
<1>2. \A i \in 1 .. n : s[i] \in S
  BY <1>1, ElementOfSeq
<1>3. /\ SubSeq(s, 1, n) \in Seq(S)
      /\ Len(SubSeq(s, 1, n)) = IF 1 <= n THEN n - 1 + 1 ELSE 0
      /\ \A i \in 1 .. n - 1 + 1 : SubSeq(s, 1, n)[i] = s[1 + i - 1]
  BY <1>1, <1>2, SubSeqProperties
<1> QED BY <1>1, <1>3 DEF Firsts

LEMMA FlattenFront ==
  ASSUME NEW seqs \in Seq(Buffer), NEW f, Flattens(seqs, Len(seqs), f), NEW n \in 1 .. Len(seqs)
  PROVE  FlattenSeq(Firsts(seqs, n)) = f[n]
<1>1. Len(seqs) \in Nat
  BY LenProperties
<1> DEFINE t == Firsts(seqs, n)
           g == [i \in 1 .. n |-> f[i]]
<1>2. t \in Seq(Buffer) /\ Len(t) = n /\ \A i \in 1 .. n : t[i] = seqs[i]
  BY <1>1, FrontOf
<1>3. g \in [1 .. n -> Buffer]
  BY <1>1 DEF Flattens
<1>4. \A i \in 1 .. n : g[i] = Flat(t, g, i)
  <2> SUFFICES ASSUME NEW i \in 1 .. n PROVE g[i] = Flat(t, g, i)
    OBVIOUS
  <2>1. f[i] = Flat(seqs, f, i)
    BY <1>1 DEF Flattens
  <2>2. Flat(t, g, i) = Flat(seqs, f, i)
    <3> HIDE DEF t
    <3> QED BY <1>1, <1>2 DEF Flat
  <2> QED BY <2>1, <2>2
<1>5. FlattenSeq(t) = g[n]
  <2>1. Flattens(t, Len(t), g)
    BY <1>2, <1>3, <1>4 DEF Flattens
  <2> HIDE DEF t, g
  <2> QED BY <1>1, <1>2, <2>1, FlattenSeqIs
<1> QED BY <1>5

LEMMA FlattenEmpty ==
  ASSUME NEW seqs \in Seq(Buffer)
  PROVE  FlattenSeq(Firsts(seqs, 0)) = <<>>
<1>1. Firsts(seqs, 0) = <<>> /\ Len(<<>>) = 0
  BY SubSeqEmpty, EmptySeq DEF Firsts
<1> QED BY <1>1 DEF FlattenSeq

(* One part more at the end is one part more at the end. *)
LEMMA FlattenStep ==
  ASSUME NEW seqs \in Seq(Buffer), NEW n \in 0 .. Len(seqs) - 1
  PROVE  /\ FlattenSeq(Firsts(seqs, n)) \in Buffer
         /\ FlattenSeq(Firsts(seqs, n + 1)) = FlattenSeq(Firsts(seqs, n)) \o seqs[n + 1]
         /\ FlattenSeq(Firsts(seqs, n + 1)) \in Buffer
<1>1. Len(seqs) \in Nat /\ seqs[n + 1] \in Buffer
  BY LenProperties, ElementOfSeq
<1>2. PICK f : Flattens(seqs, Len(seqs), f)
  BY <1>1, FlattensExists
<1>3. FlattenSeq(Firsts(seqs, n + 1)) = f[n + 1] /\ f[n + 1] \in Buffer
  BY <1>1, <1>2, FlattenFront DEF Flattens
<1>4. CASE n = 0
  <2>1. f[1] = seqs[1]
    <3>1. 1 \in 1 .. Len(seqs)
      BY <1>1, <1>4
    <3> QED BY <1>2, <3>1 DEF Flattens, Flat
  <2>2. <<>> \o seqs[1] = seqs[1] /\ <<>> \in Buffer
    BY <1>1, <1>4, ConcatEmptySeq, EmptySeq DEF Buffer
  <2>3. n + 1 = 1 /\ FlattenSeq(Firsts(seqs, n)) = <<>>
    BY <1>4, FlattenEmpty
  <2> QED BY <1>3, <2>1, <2>2, <2>3
<1>5. CASE n # 0
  <2>1. FlattenSeq(Firsts(seqs, n)) = f[n] /\ f[n] \in Buffer
    BY <1>1, <1>2, <1>5, FlattenFront DEF Flattens
  <2>2. f[n + 1] = f[n] \o seqs[n + 1]
    <3>1. PICK i \in 1 .. Len(seqs) : i = n + 1 /\ i # 1 /\ i - 1 = n
      BY <1>1, <1>5
    <3>2. f[i] = Flat(seqs, f, i)
      BY <1>2, <3>1 DEF Flattens
    <3> QED BY <3>1, <3>2 DEF Flat
  <2> QED BY <1>3, <2>1, <2>2
<1> QED BY <1>4, <1>5

(* What the first n parts make up is what the whole starts with. *)
LEMMA FlattenRest ==
  ASSUME NEW seqs \in Seq(Buffer), NEW n \in 0 .. Len(seqs)
  PROVE  /\ FlattenSeq(Firsts(seqs, n)) \in Buffer
         /\ \E rest \in Buffer : FlattenSeq(seqs) = FlattenSeq(Firsts(seqs, n)) \o rest
<1> DEFINE Is(k) == \E rest \in Buffer : FlattenSeq(seqs) = FlattenSeq(Firsts(seqs, k)) \o rest
           T == {k \in 0 .. Len(seqs) : ~ Is(Len(seqs) - k)}
<1>1. Len(seqs) \in Nat
  BY LenProperties
<1>2. \A k \in 0 .. Len(seqs) : FlattenSeq(Firsts(seqs, k)) \in Buffer
  <2> SUFFICES ASSUME NEW k \in 0 .. Len(seqs) PROVE FlattenSeq(Firsts(seqs, k)) \in Buffer
    OBVIOUS
  <2>1. CASE k = 0
    BY <2>1, FlattenEmpty, EmptySeq DEF Buffer
  <2>2. CASE k # 0
    <3>1. k - 1 \in 0 .. Len(seqs) - 1 /\ k = (k - 1) + 1
      BY <1>1, <2>2
    <3> QED BY <3>1, FlattenStep
  <2> QED BY <2>1, <2>2
<1>3. ASSUME T # {} PROVE FALSE
  <2>1. T \in SUBSET Nat
    BY <1>1
  <2>2. PICK p \in T : \A q \in T : p <= q
    <3> HIDE DEF T
    <3> QED BY <1>3, <2>1, LeastOf
  <2>3. p \in 0 .. Len(seqs) /\ ~ Is(Len(seqs) - p)
    OBVIOUS
  <2> HIDE DEF Is
  <2>4. CASE p = 0
    <3>1. Firsts(seqs, Len(seqs)) = seqs
      BY SubSeqFull DEF Firsts
    <3>2. FlattenSeq(seqs) \in Buffer
      BY <1>1, <1>2, <3>1
    <3>3. FlattenSeq(seqs) = FlattenSeq(seqs) \o <<>> /\ <<>> \in Buffer
      BY <3>2, ConcatEmptySeq, EmptySeq DEF Buffer
    <3>4. Is(Len(seqs))
      BY <3>1, <3>3 DEF Is
    <3> QED BY <1>1, <2>3, <2>4, <3>4
  <2>5. CASE p # 0
    <3>1. PICK k \in 0 .. Len(seqs) - 1 : k = Len(seqs) - p
      <4>1. Len(seqs) - p \in 0 .. Len(seqs) - 1
        BY <1>1, <2>3, <2>5
      <4> QED BY <4>1
    <3>2. p - 1 \in 0 .. Len(seqs) /\ ~ (p - 1 \in T) /\ Len(seqs) - (p - 1) = k + 1
      BY <1>1, <2>2, <2>3, <2>5, <3>1
    <3>3. Is(k + 1)
      BY <3>2
    <3>4. PICK rest \in Buffer : FlattenSeq(seqs) = FlattenSeq(Firsts(seqs, k + 1)) \o rest
      BY <3>3 DEF Is
    <3>5. PICK a, b : a = FlattenSeq(Firsts(seqs, k)) /\ b = seqs[k + 1]
      OBVIOUS
    <3>6. a \in Buffer /\ b \in Buffer /\ FlattenSeq(Firsts(seqs, k + 1)) = a \o b
      BY <1>1, <3>5, FlattenStep, ElementOfSeq, SMTT(30)
    <3>7. FlattenSeq(seqs) = a \o (b \o rest) /\ b \o rest \in Buffer
      <4>1. FlattenSeq(seqs) = (a \o b) \o rest
        BY <3>4, <3>6
      <4> QED BY <3>6, <4>1, CatAssociative, Cat
    <3>8. Is(k)
      BY <3>5, <3>7 DEF Is
    <3> QED BY <2>3, <3>1, <3>8
  <2> QED BY <2>4, <2>5
<1>4. Is(n)
  <2>1. Len(seqs) - n \in 0 .. Len(seqs) /\ Len(seqs) - (Len(seqs) - n) = n
    BY <1>1
  <2> QED BY <1>3, <2>1
<1> QED BY <1>2, <1>4
-----------------------------------------------------------------------------
Entry == Buffer \X Buffer
FitEntries(m) == \A i \in DOMAIN m : Fits(m[i][1]) /\ Fits(m[i][2])
Parts(m) == [i \in DOMAIN m |-> Field(m[i][1]) \o Field(m[i][2])]

LEMMA FieldOf ==
  ASSUME NEW s \in Buffer, Fits(s)
  PROVE  Field(s) \in Buffer /\ Len(Field(s)) = 2 + Len(s)
<1>1. <<>> \in Buffer
  BY EmptySeq DEF Buffer
<1> QED BY <1>1, FieldRead

LEMMA PartsOf ==
  ASSUME NEW m \in Seq(Entry), FitEntries(m)
  PROVE  /\ Parts(m) \in Seq(Buffer) /\ Len(Parts(m)) = Len(m)
         /\ \A i \in 1 .. Len(m) :
              /\ m[i][1] \in Buffer /\ m[i][2] \in Buffer /\ Fits(m[i][1]) /\ Fits(m[i][2])
              /\ Parts(m)[i] = Field(m[i][1]) \o Field(m[i][2])
<1>1. Len(m) \in Nat /\ DOMAIN m = 1 .. Len(m)
  BY LenProperties
<1>2. \A i \in 1 .. Len(m) :
        /\ m[i][1] \in Buffer /\ m[i][2] \in Buffer /\ Fits(m[i][1]) /\ Fits(m[i][2])
        /\ Field(m[i][1]) \o Field(m[i][2]) \in Buffer
  <2> SUFFICES ASSUME NEW i \in 1 .. Len(m)
               PROVE  /\ m[i][1] \in Buffer /\ m[i][2] \in Buffer /\ Fits(m[i][1]) /\ Fits(m[i][2])
                      /\ Field(m[i][1]) \o Field(m[i][2]) \in Buffer
    OBVIOUS
  <2>1. m[i] \in Entry
    BY ElementOfSeq
  <2>2. m[i][1] \in Buffer /\ m[i][2] \in Buffer
    BY <2>1 DEF Entry
  <2>3. Fits(m[i][1]) /\ Fits(m[i][2])
    BY <1>1 DEF FitEntries
  <2>4. Field(m[i][1]) \in Buffer /\ Field(m[i][2]) \in Buffer
    BY <2>2, <2>3, FieldOf
  <2> QED BY <2>2, <2>3, <2>4, Cat
<1>3. Parts(m) \in [1 .. Len(m) -> Buffer]
  BY <1>1, <1>2 DEF Parts
<1>4. Parts(m) \in Seq(Buffer)
  BY <1>1, <1>3, SeqDef
<1>5. Len(Parts(m)) = Len(m)
  BY <1>1, <1>3, <1>4, LenProperties
<1> QED BY <1>1, <1>2, <1>4, <1>5 DEF Parts

(* The bytes of the first n entries. *)
LEMMA FrontBuffer ==
  ASSUME NEW m \in Seq(Entry), FitEntries(m), NEW n \in 0 .. Len(m)
  PROVE  /\ mapToBuffer(SubSeq(m, 1, n)) = FlattenSeq(Firsts(Parts(m), n))
         /\ mapToBuffer(m) = FlattenSeq(Parts(m))
<1>1. Len(m) \in Nat
  BY LenProperties
<1> DEFINE f == Firsts(m, n)
           p == Firsts(Parts(m), n)
<1>2. f \in Seq(Entry) /\ Len(f) = n /\ \A i \in 1 .. n : f[i] = m[i]
  BY FrontOf
<1>3. /\ Parts(m) \in Seq(Buffer) /\ Len(Parts(m)) = Len(m)
      /\ \A i \in 1 .. Len(m) : Parts(m)[i] = Field(m[i][1]) \o Field(m[i][2])
  BY PartsOf
<1>4. p \in Seq(Buffer) /\ Len(p) = n /\ \A i \in 1 .. n : p[i] = Parts(m)[i]
  BY <1>3, FrontOf
<1>5. DOMAIN f = 1 .. n
  <2> HIDE DEF f
  <2> QED BY <1>2, LenProperties
<1>6. FitEntries(f)
  <2>1. DOMAIN m = 1 .. Len(m)
    BY LenProperties
  <2> HIDE DEF f
  <2> QED BY <2>1, <1>1, <1>2, <1>5 DEF FitEntries
<1>7. /\ Parts(f) \in Seq(Buffer) /\ Len(Parts(f)) = n
      /\ \A i \in 1 .. n : Parts(f)[i] = Field(f[i][1]) \o Field(f[i][2])
  <2> HIDE DEF f
  <2> QED BY <1>2, <1>6, PartsOf
<1>8. \A i \in 1 .. n : Parts(f)[i] = p[i]
  <2> HIDE DEF f, p
  <2> SUFFICES ASSUME NEW i \in 1 .. n PROVE Parts(f)[i] = p[i]
    OBVIOUS
  <2>1. f[i] = m[i] /\ p[i] = Parts(m)[i] /\ i \in 1 .. Len(m)
    BY <1>1, <1>2, <1>4
  <2>2. Parts(f)[i] = Field(m[i][1]) \o Field(m[i][2])
    BY <1>7, <2>1
  <2>3. Parts(m)[i] = Field(m[i][1]) \o Field(m[i][2])
    BY <1>3, <2>1
  <2> QED BY <2>1, <2>2, <2>3
<1>9. Parts(f) = p
  <2> HIDE DEF f, p
  <2> QED BY <1>4, <1>7, <1>8, SeqEqual
<1>10. mapToBuffer(m) = FlattenSeq(Parts(m)) /\ mapToBuffer(f) = FlattenSeq(Parts(f))
  BY DEF mapToBuffer, Parts
<1> QED BY <1>9, <1>10 DEF Firsts

(* At the start of an entry, the loop reads its key and its value, and is  *)
(* at the start of the next one afterwards; it ends behind the last one.   *)
LEMMA EntryRead ==
  ASSUME NEW m \in Seq(Entry), FitEntries(m), NEW n \in 0 .. Len(m)
  PROVE  LET buffer == mapToBuffer(m)  at == Len(mapToBuffer(SubSeq(m, 1, n))) IN
         /\ buffer \in Buffer /\ at \in Nat /\ (at < Len(buffer) <=> n < Len(m))
         /\ n < Len(m) =>
              /\ FieldAt(buffer, at) = m[n + 1][1]
              /\ FieldAt(buffer, Behind(buffer, at)) = m[n + 1][2]
              /\ Behind(buffer, Behind(buffer, at)) = Len(mapToBuffer(SubSeq(m, 1, n + 1)))
<1>1. Len(m) \in Nat
  BY LenProperties
<1> DEFINE ps == Parts(m)
<1>2. PICK b, pre : b = mapToBuffer(m) /\ pre = mapToBuffer(SubSeq(m, 1, n))
  OBVIOUS
<1>3. b = FlattenSeq(ps) /\ pre = FlattenSeq(Firsts(ps, n)) /\ ps \in Seq(Buffer) /\ Len(ps) = Len(m)
  BY <1>2, FrontBuffer, PartsOf
<1> HIDE DEF ps
<1>4. b \in Buffer /\ pre \in Buffer /\ Len(pre) \in Nat
  <2>1. pre \in Buffer
    BY <1>3, FlattenRest
  <2>2. \E rest \in Buffer : b = pre \o rest
    BY <1>3, FlattenRest
  <2> QED BY <2>1, <2>2, Cat, LenProperties DEF Buffer
<1>5. CASE n = Len(m)
  <2>1. SubSeq(m, 1, n) = m
    BY <1>5, SubSeqFull
  <2>2. pre = b
    BY <2>1, <1>2
  <2>3. ~(Len(b) < Len(b)) /\ ~(n < Len(m))
    BY <1>1, <1>4, <1>5, <2>2
  <2> QED BY <2>2, <2>3, <1>2, <1>4
<1>6. CASE n # Len(m)
  <2>1. n + 1 \in 0 .. Len(m) /\ n + 1 \in 1 .. Len(m) /\ n \in 0 .. Len(ps) - 1
    BY <1>1, <1>3, <1>6
  <2>2. PICK k, v : k = m[n + 1][1] /\ v = m[n + 1][2]
    OBVIOUS
  <2>3. /\ k \in Buffer /\ v \in Buffer /\ Fits(k) /\ Fits(v)
        /\ ps[n + 1] = Field(k) \o Field(v)
    BY <2>1, <2>2, PartsOf DEF ps
  <2>4. PICK next : next = mapToBuffer(SubSeq(m, 1, n + 1))
    OBVIOUS
  <2>5. next = FlattenSeq(Firsts(ps, n + 1))
    BY <2>1, <2>4, FrontBuffer DEF ps
  <2>6. next = pre \o ps[n + 1]
    BY <1>3, <2>1, <2>5, FlattenStep
  <2>7. PICK rest \in Buffer : b = next \o rest
    BY <1>3, <2>1, <2>5, FlattenRest
  <2>8. Len(k) \in Nat /\ Len(v) \in Nat /\ Len(rest) \in Nat
    BY <2>3, LenProperties DEF Buffer
  <2>9. PICK fk, fv : /\ fk = Field(k) /\ fk \in Buffer /\ Len(fk) = 2 + Len(k)
                      /\ fv = Field(v) /\ fv \in Buffer /\ Len(fv) = 2 + Len(v)
    BY <2>3, FieldOf
  <2>10. PICK pk : pk = pre \o fk /\ pk \in Buffer /\ Len(pk) = Len(pre) + 2 + Len(k)
    <3>1. PICK p : p = pre \o fk
      OBVIOUS
    <3>2. p \in Buffer /\ Len(p) = Len(pre) + Len(fk)
      BY <1>4, <2>9, <3>1, Cat
    <3>3. Len(p) = Len(pre) + 2 + Len(k)
      BY <1>4, <2>8, <2>9, <3>2
    <3> QED BY <3>1, <3>2, <3>3
  <2>11. next = pk \o fv /\ next \in Buffer /\ Len(next) = Len(pre) + 4 + Len(k) + Len(v)
    <3>1. next = pre \o (fk \o fv)
      BY <2>3, <2>6, <2>9
    <3>2. next = pk \o fv
      <4>1. (pre \o fk) \o fv = pre \o (fk \o fv)
        BY <1>4, <2>9, CatAssociative
      <4> QED BY <3>1, <4>1, <2>10
    <3>3. next \in Buffer /\ Len(next) = Len(pk) + Len(fv)
      BY <3>2, <2>9, <2>10, Cat
    <3> QED BY <3>2, <3>3, <1>4, <2>8, <2>9, <2>10
  <2>12. b = pk \o (fv \o rest) /\ fv \o rest \in Buffer
    <3>1. b = (pk \o fv) \o rest
      BY <2>7, <2>11
    <3>2. pk \in Buffer /\ fv \in Buffer
      BY <2>9, <2>10
    <3> QED BY <3>1, <3>2, CatAssociative, Cat
  <2>13. Behind(b, Len(pre)) = Len(pk) /\ FieldAt(b, Len(pre)) = k
    <3>1. PICK post \in Buffer : b = (pre \o Field(k)) \o post
      BY <2>9, <2>10, <2>12
    <3>2. Behind(b, Len(pre)) = Len(pre) + 2 + Len(k) /\ FieldAt(b, Len(pre)) = k
      BY <3>1, <1>4, <2>3, FieldRead
    <3> QED BY <3>2, <2>10
  <2>14. Behind(b, Len(pk)) = Len(next) /\ FieldAt(b, Len(pk)) = v
    <3>1. b = (pk \o Field(v)) \o rest
      BY <2>7, <2>9, <2>11
    <3>2. Behind(b, Len(pk)) = Len(pk) + 2 + Len(v) /\ FieldAt(b, Len(pk)) = v
      BY <3>1, <2>3, <2>10, FieldRead
    <3> QED BY <3>2, <1>4, <2>8, <2>10, <2>11
  <2>15. Len(pre) < Len(b)
    <3>1. Len(b) = Len(next) + Len(rest)
      BY <2>7, <2>11, Cat
    <3> QED BY <3>1, <1>4, <2>8, <2>11
  <2>16. n < Len(m)
    BY <1>1, <1>6
  <2> QED BY <1>2, <1>4, <2>2, <2>4, <2>13, <2>14, <2>15, <2>16
<1> QED BY <1>5, <1>6
-----------------------------------------------------------------------------
Keyed(m) == \A i, j \in DOMAIN m : i # j => m[i][1] # m[j][1]
Sent == pc \in {"server", "decode", "done"}

(* The loop has taken the first n entries. *)
Taken(n) ==
  /\ offset = Len(mapToBuffer(SubSeq(map, 1, n)))
  /\ result = {map[i] : i \in 1 .. n}

TraceInv ==
  /\ map \in Seq(Entry) /\ Keyed(map) /\ {service, method, metadata} \subseteq Buffer
  /\ pc \in {"client", "server"} => offset = 0 /\ result = {}
  /\ Sent =>
       /\ FitEntries(map) /\ Encodable(service, method, mapToBuffer(map))
       /\ frame = encodeMetadata(service, method, mapToBuffer(map), metadata)
  /\ pc \in {"decode", "done"} => \E n \in 0 .. Len(map) : Taken(n)
  /\ pc = "done" => result = ToSet(map)

LEMMA SentIsRead ==
  ASSUME TraceInv, Sent
  PROVE  /\ getVersion(frame) = VERSION /\ getService(frame) = service
         /\ getMethod(frame) = method /\ getTracing(frame) = mapToBuffer(map)
         /\ getMetadata(frame) = metadata
<1>1. map \in Seq(Entry) /\ FitEntries(map) /\ Encodable(service, method, mapToBuffer(map))
  BY DEF TraceInv
<1>2. 0 \in 0 .. Len(map)
  BY <1>1, LenProperties
<1>3. mapToBuffer(map) \in Buffer
  BY <1>1, <1>2, EntryRead
<1>4. service \in Buffer /\ method \in Buffer /\ metadata \in Buffer
  BY DEF TraceInv
<1>5. frame = encodeMetadata(service, method, mapToBuffer(map), metadata)
  BY DEF TraceInv
<1> QED BY <1>1, <1>3, <1>4, <1>5, MetadataRoundTrip

LEMMA TakenNone ==
  ASSUME map \in Seq(Entry), FitEntries(map), offset = 0, result = {}
  PROVE  Taken(0)
<1>1. SubSeq(map, 1, 0) = <<>>
  BY SubSeqEmpty
<1>2. mapToBuffer(<<>>) = <<>> /\ Len(<<>>) = 0
  <2>1. DOMAIN <<>> = {} /\ Len(<<>>) = 0
    BY EmptySeq, LenProperties
  <2>2. PICK e : e = [i \in DOMAIN <<>> |-> Field(<<>>[i][1]) \o Field(<<>>[i][2])]
    OBVIOUS
  <2>3. e = <<>>
    BY <2>1, <2>2
  <2>4. FlattenSeq(<<>>) = <<>>
    BY <2>1 DEF FlattenSeq
  <2> QED BY <2>1, <2>2, <2>3, <2>4 DEF mapToBuffer
<1>3. {map[i] : i \in 1 .. 0} = {}
  OBVIOUS
<1>4. Len(mapToBuffer(SubSeq(map, 1, 0))) = 0
  BY <1>1, <1>2
<1> QED BY <1>3, <1>4 DEF Taken

LEMMA TakenOneMore ==
  ASSUME TraceInv, DecodeEntry, NEW n \in 0 .. Len(map), Taken(n)
  PROVE  n + 1 \in 0 .. Len(map) /\ Taken(n + 1)'
<1>1. map \in Seq(Entry) /\ FitEntries(map) /\ Keyed(map) /\ Len(map) \in Nat /\ Sent /\ UNCHANGED map
  BY LenProperties DEF TraceInv, DecodeEntry, Sent
<1>2. PICK b : b = mapToBuffer(map) /\ getTracing(frame) = b
  BY <1>1, SentIsRead
<1>3. offset < Len(b) /\ offset = Len(mapToBuffer(SubSeq(map, 1, n)))
  BY <1>2 DEF DecodeEntry, Taken
<1>4. n < Len(map)
  BY <1>1, <1>2, <1>3, EntryRead
<1>5. /\ FieldAt(b, offset) = map[n + 1][1]
      /\ FieldAt(b, Behind(b, offset)) = map[n + 1][2]
      /\ Behind(b, Behind(b, offset)) = Len(mapToBuffer(SubSeq(map, 1, n + 1)))
  BY <1>1, <1>2, <1>3, <1>4, EntryRead
<1>6. n + 1 \in 1 .. Len(map) /\ DOMAIN map = 1 .. Len(map) /\ map[n + 1] \in Entry
  BY <1>1, <1>4, LenProperties, ElementOfSeq
<1>7. /\ offset' = Len(mapToBuffer(SubSeq(map, 1, n + 1)))
      /\ result' = {e \in result : e[1] # map[n + 1][1]} \cup {<<map[n + 1][1], map[n + 1][2]>>}
  BY <1>2, <1>5 DEF DecodeEntry, EntryEnd
<1>8. {e \in result : e[1] # map[n + 1][1]} = {map[i] : i \in 1 .. n}
  <2>1. result = {map[i] : i \in 1 .. n}
    BY DEF Taken
  <2>2. \A i \in 1 .. n : map[i][1] # map[n + 1][1]
    BY <1>1, <1>6 DEF Keyed
  <2> QED BY <2>1, <2>2
<1>9. <<map[n + 1][1], map[n + 1][2]>> = map[n + 1]
  BY <1>6 DEF Entry
<1>10. result' = {map[i] : i \in 1 .. n + 1}
  <2>1. {map[i] : i \in 1 .. n + 1} = {map[i] : i \in 1 .. n} \cup {map[n + 1]}
    BY <1>4
  <2> QED BY <2>1, <1>7, <1>8, <1>9
<1> QED BY <1>1, <1>6, <1>7, <1>10 DEF Taken

LEMMA TakenAll ==
  ASSUME TraceInv, pc = "decode", offset >= Len(getTracing(frame))
  PROVE  result = ToSet(map)
<1>1. map \in Seq(Entry) /\ FitEntries(map) /\ Len(map) \in Nat /\ Sent
  BY LenProperties DEF TraceInv, Sent
<1>2. PICK n \in 0 .. Len(map) : Taken(n)
  BY DEF TraceInv
<1>3. PICK b : b = mapToBuffer(map) /\ getTracing(frame) = b
  BY <1>1, SentIsRead
<1>4. offset = Len(mapToBuffer(SubSeq(map, 1, n))) /\ offset >= Len(b)
  BY <1>2, <1>3 DEF Taken
<1>5. b \in Buffer /\ Len(b) \in Nat /\ offset \in Nat /\ (offset < Len(b) <=> n < Len(map))
  <2>1. b \in Buffer /\ offset \in Nat /\ (offset < Len(b) <=> n < Len(map))
    BY <1>1, <1>3, <1>4, EntryRead
  <2> QED BY <2>1, LenProperties DEF Buffer
<1>6. n = Len(map)
  BY <1>1, <1>4, <1>5
<1>7. DOMAIN map = 1 .. Len(map)
  BY <1>1, LenProperties
<1> QED BY <1>2, <1>6, <1>7 DEF Taken, ToSet

LEMMA TraceInit == Init => TraceInv
<1> SUFFICES ASSUME Init PROVE TraceInv
  OBVIOUS
<1>1. Strings \subseteq Buffer /\ Names \subseteq Buffer /\ Blobs \subseteq Buffer
  BY StringsAssumption DEF Buffer
<1>2. map \in Seq(Entry)
  <2>1. PICK k \in 0 .. MaxEntries : map \in [1 .. k -> Strings \X Strings]
    BY DEF Init, Maps, SeqOf
  <2>2. Strings \X Strings \subseteq Entry /\ k \in Nat
    BY <1>1, StringsAssumption DEF Entry
  <2>3. map \in [1 .. k -> Entry]
    BY <2>1, <2>2
  <2> QED BY <2>2, <2>3, SeqDef
<1>3. Keyed(map)
  BY DEF Init, Maps, Keyed
<1> QED BY <1>1, <1>2, <1>3 DEF Init, TraceInv, Sent

LEMMA TraceStep == TraceInv /\ [Next]_vars => TraceInv'
<1> SUFFICES ASSUME TraceInv, [Next]_vars PROVE TraceInv'
  OBVIOUS
<1> USE DEF TraceInv
<1>1. CASE Send
  <2>1. UNCHANGED <<map, service, method, metadata, offset, result>> /\ pc = "client"
    BY <1>1 DEF Send
  <2>2. CASE pc' = "server"
    <3>1. /\ FitEntries(map) /\ Encodable(service, method, mapToBuffer(map))
          /\ frame' = encodeMetadata(service, method, mapToBuffer(map), metadata)
      BY <1>1, <2>2 DEF Send, FitEntries
    <3> QED BY <2>1, <2>2, <3>1
  <2>3. CASE pc' # "server"
    <3>1. pc' = "refused"
      BY <1>1, <2>3 DEF Send
    <3> QED BY <2>1, <3>1 DEF Sent
  <2> QED BY <2>2, <2>3
<1>2. CASE Deserialize
  <2>1. UNCHANGED <<map, service, method, metadata, frame, offset, result>> /\ pc = "server" /\ Sent
    BY <1>2 DEF Deserialize, Sent
  <2>2. map \in Seq(Entry) /\ FitEntries(map) /\ offset = 0 /\ result = {}
    BY <2>1
  <2>3. Taken(0) /\ 0 \in 0 .. Len(map)
    BY <2>2, TakenNone, LenProperties
  <2>4. Taken(0)'
    BY <2>1, <2>3 DEF Taken
  <2>5. CASE getTracing(frame) = <<>>
    <3>1. Len(mapToBuffer(map)) = 0
      BY <2>1, <2>5, SentIsRead, EmptySeq
    <3>2. Len(map) = 0
      <4>1. 0 < Len(mapToBuffer(map)) <=> 0 < Len(map)
        BY <2>2, <2>3, EntryRead DEF Taken
      <4> QED BY <4>1, <2>2, <3>1, LenProperties
    <3>3. ToSet(map) = {}
      BY <2>2, <3>2, LenProperties DEF ToSet
    <3>4. pc' = "done"
      BY <1>2, <2>5 DEF Deserialize
    <3> QED BY <2>1, <2>2, <2>3, <2>4, <3>3, <3>4 DEF Sent
  <2>6. CASE getTracing(frame) # <<>>
    <3>1. pc' = "decode"
      BY <1>2, <2>6 DEF Deserialize
    <3> QED BY <2>1, <2>3, <2>4, <3>1 DEF Sent
  <2> QED BY <2>5, <2>6
<1>3. CASE DecodeEntry
  <2>1. UNCHANGED <<map, service, method, metadata, frame, pc>> /\ pc = "decode"
    BY <1>3 DEF DecodeEntry
  <2>2. PICK n \in 0 .. Len(map) : Taken(n)
    BY <2>1
  <2>3. n + 1 \in 0 .. Len(map) /\ Taken(n + 1)'
    BY <1>3, <2>2, TakenOneMore
  <2> QED BY <2>1, <2>3 DEF Sent
<1>4. CASE Decoded
  <2>1. UNCHANGED <<map, service, method, metadata, frame, offset, result>> /\ pc = "decode" /\ pc' = "done"
    BY <1>4 DEF Decoded
  <2>2. result = ToSet(map)
    BY <1>4, <2>1, TakenAll DEF Decoded
  <2>3. PICK n \in 0 .. Len(map) : Taken(n)
    BY <2>1
  <2>4. Taken(n)'
    BY <2>1, <2>3 DEF Taken
  <2> QED BY <2>1, <2>2, <2>4 DEF Sent
<1>5. CASE UNCHANGED vars
  <2>1. ASSUME NEW n PROVE Taken(n)' <=> Taken(n)
    BY <1>5 DEF Taken, vars
  <2> QED BY <1>5, <2>1 DEF vars, Sent
<1> QED BY <1>1, <1>2, <1>3, <1>4, <1>5 DEF Next

LEMMA TraceInvariance == Spec => []TraceInv
<1> QED BY TraceInit, TraceStep, PTL DEF Spec

(* For every set of names, of metadata and of traces, of every length: a   *)
(* server that gets a frame reads the version, the service, the method,    *)
(* the trace and the metadata that the client wrote, and from the trace    *)
(* exactly the client's keys and values; at each turn of its loop it is at *)
(* the start of an entry and has those in front of it.                     *)
THEOREM TraceTravels == Spec => []RoundTrip
<1>1. TraceInv => RoundTrip
  <2> SUFFICES ASSUME TraceInv PROVE RoundTrip
    OBVIOUS
  <2>1. FrameRoundTrip
    BY SentIsRead DEF FrameRoundTrip, Sent
  <2>2. MapRoundTrip
    BY DEF TraceInv, MapRoundTrip, Taken
  <2> QED BY <2>1, <2>2 DEF RoundTrip
<1> QED BY <1>1, TraceInvariance, PTL
-----------------------------------------------------------------------------
(* The run of both: each of its behaviours is one of the metadata and one  *)
(* of the channel.                                                         *)
LEMMA RunIsBoth == MCSpec => Spec /\ Channel!Spec
<1>1. MCInit => Init /\ Channel!Init
  BY DEF MCInit
<1>2. [MCNext]_<<part, vars, channel>> => [Next]_vars
  BY DEF MCNext
<1>3. [MCNext]_<<part, vars, channel>> => [Channel!Next]_Channel!vars
  BY DEF MCNext, channel, Channel!vars, Channel!processor
<1> QED BY <1>1, <1>2, <1>3, PTL DEF MCSpec, Spec, Channel!Spec

(* As the run checks it: the metadata of a call ... *)
THEOREM RunTraceTravels == MCSpec => []RoundTrip
BY RunIsBoth, TraceTravels, PTL

(* ... and the payloads of a channel. *)
THEOREM RunChannelIsServed == MCSpec => []ChannelServed
BY RunIsBoth, ChannelIsServed, PTL
===============================================================================
