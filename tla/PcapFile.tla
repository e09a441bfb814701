------------------------------- MODULE PcapFile -------------------------------
(***************************************************************************)
(* Capture files: PcapReader (src/pcap_reader.cpp) and the code of the     *)
(* engines that writes one.                                                *)
(*                                                                         *)
(* A file is the sequence of its fields: first the seven of the global     *)
(* header -- magic number, two version numbers, time zone, accuracy,       *)
(* snaplen, link type -- then for each packet the four of its header --    *)
(* seconds, microseconds, captured and original length -- and the packet.  *)
(* A number is the sequence of its bytes in the file.  The machine is      *)
(* little-endian.  A packet is anything with a length, len.                *)
(***************************************************************************)
EXTENDS Naturals, SequencesExt

Magic == <<212, 195, 178, 161>>   \* 0xa1b2c3d4, written by this machine

HeaderSize == 7
RecordSize == 4

\* The numbers of 32 bits, and their bytes.
Fits32(n) == n \in Nat /\ n \div 16777216 < 256
Word(n) == << n % 256, (n \div 256) % 256, (n \div 65536) % 256, (n \div 16777216) % 256 >>

\* The order of numbers of the same width, on their bytes.
Exceeds(v, w) ==
  \E i \in DOMAIN v : v[i] > w[i] /\ \A j \in i + 1 .. Len(v) : v[j] = w[j]

maybeSwap(swap, w) == IF swap THEN Reverse(w) ELSE w

(***************************************************************************)
(* Reading.  A reader is [swap, header, rest]: whether bytes are swapped,  *)
(* the header with the fields it swaps swapped, and the file from the read *)
(* position on.  The magic number, the time zone and the accuracy stay as  *)
(* they are in the file.                                                   *)
(***************************************************************************)
Opens(file) == Len(file) >= HeaderSize /\ file[1] \in {Magic, Reverse(Magic)}

open(file) ==
  LET swap == file[1] = Reverse(Magic)
  IN  [swap   |-> swap,
       header |-> [i \in 1 .. HeaderSize |-> maybeSwap(swap /\ i \in {2, 3, 6, 7}, file[i])],
       rest   |-> SubSeq(file, HeaderSize + 1, Len(file))]

snaplen(reader) == reader.header[6]

\* Variant: the lengths of a packet are not swapped.
RecordHeaderTimes(reader) ==
  [i \in 1 .. RecordSize |-> maybeSwap(reader.swap /\ i <= 2, reader.rest[i])]

RecordHeader(reader) == [i \in 1 .. RecordSize |-> maybeSwap(reader.swap, reader.rest[i])]

\* The packet is there in full and its length is believable; otherwise
\* readNextPacket returns false, as it does at the end of the file.
HasNext(reader) ==
  /\ Len(reader.rest) >= RecordSize + 1
  /\ LET incl == RecordHeader(reader)[3]
     IN  /\ ~Exceeds(incl, snaplen(reader)) /\ ~Exceeds(incl, Word(65535))
         /\ Word(reader.rest[RecordSize + 1].len) = incl

NextPacket(reader) ==
  [time |-> SubSeq(RecordHeader(reader), 1, 2), data |-> reader.rest[RecordSize + 1]]

Advance(reader) == [reader EXCEPT !.rest = SubSeq(@, RecordSize + 2, Len(@))]

(***************************************************************************)
(* Writing.  The engines write the reader's header back as it is; analyze  *)
(* puts the magic number of this machine into it first.  The captured      *)
(* length of a packet is written as its original length, too.              *)
(***************************************************************************)
CopiedHeader(reader) == reader.header
NativeHeader(header) == [header EXCEPT ![1] = Magic]

\* Variant: the captured and the original length change places with the time.
WriteRecordMixed(file, p) ==
  file \o <<Word(p.data.len), Word(p.data.len)>> \o p.time \o <<p.data>>

WriteRecord(file, p) ==
  file \o p.time \o <<Word(p.data.len), Word(p.data.len), p.data>>

\* All packets of a file, as a reader of this program finds them.
ReadAll(file) ==
  LET reader(k) == [open(file) EXCEPT !.rest = SubSeq(@, (RecordSize + 1) * k + 1, Len(@))]
      Read(n)   == \A k \in 0 .. n - 1 : HasNext(reader(k))
      n == CHOOSE m \in 0 .. Len(file) : Read(m) /\ ~Read(m + 1)
  IN  IF Opens(file) THEN [k \in 1 .. n |-> NextPacket(reader(k - 1))] ELSE <<>>
=============================================================================
