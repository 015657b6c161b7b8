----------------------------- MODULE EmapStream -----------------------------
(***************************************************************************)
(* emap_low_level.c and emap_recv_packet: packets over a stream of bytes.  *)
(*                                                                         *)
(* A stream has no packets: emap_recv_all puts together what recv returns, *)
(* and if it gives up, what it had is gone for good.  Here a packet is two *)
(* or three units, each any number of bytes: the first half of the header, *)
(* with the magic bytes and the version, the second half, with the size,   *)
(* and the payload if there is one.  No payload begins as a header does.   *)
(***************************************************************************)
EXTENDS Integers, Sequences

\* A talk says of each packet whether it has a payload.
Size(talk, i) == IF talk[i] THEN 3 ELSE 2

Unit(from, i, k)      == [from |-> from, packet |-> i, part |-> k]
Packet(from, talk, i) == [k \in 1..Size(talk, i) |-> Unit(from, i, k)]

\* A place in the stream is the unit that comes next.  emap_send_packet, called
\* for each packet in turn, sends them in this order.
Start(from) == Unit(from, 1, 1)
After(talk, u) ==
    IF u.part < Size(talk, u.packet) THEN Unit(u.from, u.packet, u.part + 1)
                                     ELSE Unit(u.from, u.packet + 1, 1)

(***************************************************************************)
(* emap_recv_packet has read buf.  A header that is not one is refused;    *)
(* the payload is read if the header has announced it.                     *)
(***************************************************************************)
\* Faulty: the magic bytes are not looked at.
MagicUnchecked(buf) == TRUE

MagicMatches(buf) == buf[1].part = 1

Announced(talk, buf) == buf[2].part = 2 /\ Size(talk, buf[2].packet) = 3

Refused(buf) == Len(buf) = 2 /\ ~ MagicMatches(buf)

Complete(talk, buf) ==
    /\ Len(buf) >= 2 /\ MagicMatches(buf)
    /\ Len(buf) = IF Announced(talk, buf) THEN 3 ELSE 2
=============================================================================
