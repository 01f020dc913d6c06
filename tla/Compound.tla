------------------------------ MODULE Compound ------------------------------
(***************************************************************************)
(* The compound messages that carry several messages in one packet, byte   *)
(* by byte: type, count, the lengths in two bytes each, the messages.      *)
(* ByteValues stands for the 256 values of a byte in counts and lengths.   *)
(***************************************************************************)
EXTENDS Integers, Sequences, FiniteSetsExt

CONSTANT ByteValues

ASSUME ByteAssumption == ByteValues \in Nat /\ ByteValues > 1

\* Two of the values of msgType.
aliveType == 4
compoundMsg == 8
maxMsgs == ByteValues - 1

uint8(n) == n % ByteValues
uint16(n) == <<uint8(n \div ByteValues), uint8(n)>>
Uint16(b) == b[1] * ByteValues + b[2]

\* What a buffer holds after the parts were written to it one after the other.
written(parts) ==
  LET buf[i \in 0..Len(parts)] == IF i = 0 THEN <<>> ELSE buf[i - 1] \o parts[i]
  IN  buf[Len(parts)]

packCompoundMsg(msgs) ==
  <<compoundMsg, uint8(Len(msgs))>>
    \o written([i \in 1..Len(msgs) |-> uint16(Len(msgs[i]))])
    \o written(msgs)

\* Slip of splitToCompoundMsgs: the bound on the count is off by one.
splitToCompoundMsgsLate(msgs) ==
  LET size == maxMsgs + 1
      parts == (Len(msgs) + size - 1) \div size
      upTo(i) == IF i * size < Len(msgs) THEN i * size ELSE Len(msgs)
  IN  [i \in 1..parts |-> packCompoundMsg(SubSeq(msgs, (i - 1) * size + 1, upTo(i)))]

splitToCompoundMsgs(msgs) ==
  LET parts == (Len(msgs) + maxMsgs - 1) \div maxMsgs
      upTo(i) == IF i * maxMsgs < Len(msgs) THEN i * maxMsgs ELSE Len(msgs)
  IN  [i \in 1..parts |-> packCompoundMsg(SubSeq(msgs, (i - 1) * maxMsgs + 1, upTo(i)))]

\* The messages that come out, cut out of msg between end[i - 1] and end[i]; those
\* that were cut off are left out, and all of them if the lengths are.
unpackCompoundMsg(msg) ==
  LET numParts == msg[1]
      length(i) == Uint16(SubSeq(msg, 2 * i, 2 * i + 1))
      end[i \in 0..numParts] == IF i = 0 THEN 1 + 2 * numParts ELSE end[i - 1] + length(i)
      complete == Max({0} \cup {i \in 1..numParts : end[i] <= Len(msg)})
  IN  IF Len(msg) < 1 + 2 * numParts THEN <<>>
      ELSE [i \in 1..complete |-> SubSeq(msg, end[i - 1] + 1, end[i])]

\* handleUdpMsg, handleCompound: the messages that reach a handler of their own.
\* No node puts a compound message into another.
handleUdpMsg(msg) ==
  IF msg[1] = compoundMsg THEN unpackCompoundMsg(Tail(msg)) ELSE <<msg>>
=============================================================================
