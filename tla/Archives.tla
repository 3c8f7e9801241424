------------------------------- MODULE Archives -------------------------------
(***************************************************************************)
(* The binary archive of luck-core                                         *)
(* (rust/crates/luck-core/src/binary.rs): encode_binary writes a           *)
(* collection into a file, something may happen to the file, and           *)
(* decode_binary reads it.                                                 *)
(*                                                                         *)
(* A file is a sequence of bytes.  Every integer takes one byte, a string  *)
(* is its length and its bytes.  Of the six strings of a cookie the model  *)
(* keeps the name and the store id, which may be missing; the value, the   *)
(* domain and the path are coded like the name, the partition site like    *)
(* the store id.  The two flags stand for four.  Metadata maps strings to  *)
(* strings in the order of its keys.                                       *)
(***************************************************************************)
EXTENDS Integers, FiniteSets, SequencesExt

CONSTANTS
  HashBits,          \* the bits of a byte and of a checksum
  Seed, Factor,      \* what checksum64 starts with, and its odd factor
  Text,              \* the strings of the cookies that are written
  NotUnicode,        \* a byte that is never part of a string in UTF-8
  MaximumText,       \* maximum_string_bytes
  MaximumCount,      \* maximum_cookies
  MaximumEntries,    \* maximum_metadata_entries
  MaximumFile,       \* maximum_bytes
  Fault,             \* the bytes that a forger writes
  Repairs,           \* how many bytes of a payload a forger changes
  None, Refused      \* what is missing; the answer of a decoder that fails

HashSize ==
  LET power[n \in 0..HashBits] == IF n = 0 THEN 1 ELSE 2 * power[n - 1]
  IN power[HashBits]

Byte == 0..(HashSize - 1)

ASSUME ArchiveAssumption ==
  /\ HashBits \in Nat /\ Seed \in Byte /\ Factor \in Nat /\ Factor % 2 = 1
  /\ {MaximumText, MaximumCount, MaximumEntries, MaximumFile} \subseteq Nat
  /\ Text \subseteq Seq(Byte \ {NotUnicode}) /\ Fault \subseteq Byte
  /\ None # Refused /\ \A x \in {None, Refused} : x \notin Nat /\ x \notin Seq(Nat)

Archived ==
  [name : Text, store : Text \cup {None}, secure : BOOLEAN, session : BOOLEAN,
   same_site : 0..3, expiration : Byte \cup {None},
   metadata : UNION {[keys -> Text] : keys \in {k \in SUBSET Text : IsFiniteSet(k)}}]

VARIABLES
  kept,      \* the collection that was written, a sequence
  file,      \* the bytes
  harm,      \* what happened to them: none, grown, harmed or forged
  changed,   \* how many bytes of the payload the forger changed
  answer     \* what reading gave: None, Refused or a report

archive_vars == <<kept, file, harm, changed, answer>>

Magic == 5
Version == 1
HeaderBytes == 6

\* The exclusive or of two bytes, from their last bits on.
xor ==
  LET of[n \in 0..HashBits] ==
        [a \in Byte |-> [b \in Byte |->
           IF n = 0 THEN 0 ELSE 2 * of[n - 1][a \div 2][b \div 2] + ((a + b) % 2)]]
  IN of[HashBits]

checksum64(bytes) ==
  LET hash[n \in 0..Len(bytes)] ==
        IF n = 0 THEN Seed ELSE (xor[hash[n - 1]][bytes[n]] * Factor) % HashSize
  IN hash[Len(bytes)]

(***************************************************************************)
(* encode_cookie and encode_binary.  What matters about the order of a     *)
(* BTreeMap is that a set of keys always has the same one.                 *)
(***************************************************************************)
Written(text) == <<Len(text)>> \o text

encode_cookie(c) ==
  LET store == IF c.store = None THEN <<>> ELSE c.store
      flags == (IF c.secure THEN 1 ELSE 0) + (IF c.session THEN 2 ELSE 0)
      keys  == SetToSeq(DOMAIN c.metadata)
  IN Written(c.name) \o Written(store)
       \o <<flags, c.same_site>>
       \o (IF c.expiration = None THEN <<0>> ELSE <<1, c.expiration>>)
       \o <<Len(keys)>>
       \o FlattenSeq([i \in 1..Len(keys) |->
                        Written(keys[i]) \o Written(c.metadata[keys[i]])])

encode_binary(list) ==
  LET payload == FlattenSeq([i \in 1..Len(list) |-> encode_cookie(list[i])])
  IN <<Magic, Version, 0, Len(list), Len(payload), checksum64(payload)>> \o payload

(***************************************************************************)
(* Reader.  Every operation takes what is left of the payload and gives    *)
(* the value that it read and the rest; there is no rest after an error.   *)
(***************************************************************************)
Failed == [value |-> None, rest |-> Refused]

Number(bytes) ==
  IF bytes \in {<<>>, Refused} THEN Failed
  ELSE [value |-> bytes[1], rest |-> Tail(bytes)]

String(bytes) ==
  LET length == Number(bytes)
      text   == SubSeq(length.rest, 1, length.value)
  IN IF \/ length = Failed \/ length.value > MaximumText \/ length.value > Len(length.rest)
        \/ NotUnicode \in ToSet(text)
     THEN Failed
     ELSE [value |-> text,
           rest  |-> SubSeq(length.rest, length.value + 1, Len(length.rest))]

\* A number that has to be one of a few.
Tag(bytes, allowed) ==
  IF Number(bytes).value \in allowed THEN Number(bytes) ELSE Failed

Expiration(bytes) ==
  LET tag == Tag(bytes, {0, 1})
  IN IF tag.value = 0 THEN [tag EXCEPT !.value = None] ELSE Number(tag.rest)

\* A faulty NextEntry, in which the last entry of a key wins.
NextEntryOverwrites(read) ==
  LET key  == String(read.rest)
      text == String(key.rest)
  IN IF text = Failed THEN Failed
     ELSE [value |-> [k \in DOMAIN read.value \cup {key.value} |->
                        IF k = key.value THEN text.value ELSE read.value[k]],
           rest  |-> text.rest]

\* One round of the loop over the metadata.
NextEntry(read) ==
  LET key  == String(read.rest)
      text == String(key.rest)
  IN IF text = Failed \/ key.value \in DOMAIN read.value THEN Failed
     ELSE [value |-> [k \in DOMAIN read.value \cup {key.value} |->
                        IF k = key.value THEN text.value ELSE read.value[k]],
           rest  |-> text.rest]

Entries(bytes, count) ==
  LET read[i \in 0..count] ==
        IF i = 0 THEN [value |-> <<>>, rest |-> bytes] ELSE NextEntry(read[i - 1])
  IN read[count]

Metadata(bytes) ==
  LET count == Number(bytes)
  IN IF count = Failed \/ count.value > MaximumEntries THEN Failed
     ELSE Entries(count.rest, count.value)

decode_cookie(bytes) ==
  LET name       == String(bytes)
      store      == String(name.rest)
      flags      == Number(store.rest)
      same_site  == Tag(flags.rest, 0..3)
      expiration == Expiration(same_site.rest)
      metadata   == Metadata(expiration.rest)
  IN IF metadata = Failed THEN Failed
     ELSE [value |-> [name |-> name.value,
                      store |-> IF store.value = <<>> THEN None ELSE store.value,
                      secure |-> flags.value % 2 = 1,
                      session |-> (flags.value \div 2) % 2 = 1,
                      same_site |-> same_site.value,
                      expiration |-> expiration.value,
                      metadata |-> metadata.value],
           rest  |-> metadata.rest]

NextCookie(read) ==
  LET cookie == decode_cookie(read.rest)
  IN IF cookie = Failed THEN Failed
     ELSE [value |-> Append(read.value, cookie.value), rest |-> cookie.rest]

Cookies(bytes, count) ==
  LET read[i \in 0..count] ==
        IF i = 0 THEN [value |-> <<>>, rest |-> bytes] ELSE NextCookie(read[i - 1])
  IN read[count]

(***************************************************************************)
(* decode_binary: the collection, and how many bytes follow the payload.   *)
(***************************************************************************)
Report(collection, trailing) == [collection |-> collection, trailing |-> trailing]

Payload(input) == SubSeq(input, HeaderBytes + 1, HeaderBytes + input[5])

HeaderAccepted(input) ==
  /\ Len(input) <= MaximumFile /\ Len(input) >= HeaderBytes
  /\ input[1] = Magic /\ input[2] = Version /\ input[3] = 0
  /\ input[4] <= MaximumCount
  /\ input[5] <= Len(input) - HeaderBytes
  /\ checksum64(Payload(input)) = input[6]

Decoded(input) == Cookies(Payload(input), input[4])

\* A faulty decode_binary, which does not look at what is left.
DecodeCarelessly(input) ==
  IF ~HeaderAccepted(input) \/ Decoded(input) = Failed THEN Refused
  ELSE Report(Decoded(input).value, Len(input) - HeaderBytes - input[5])

decode_binary(input) ==
  IF ~HeaderAccepted(input) \/ Decoded(input).rest # <<>> THEN Refused
  ELSE Report(Decoded(input).value, Len(input) - HeaderBytes - input[5])

(***************************************************************************)
(* What happens to a file.                                                 *)
(***************************************************************************)
\* It fails when a number is too large for its bytes.
Write ==
  /\ file = <<>> /\ harm = "none"
  /\ encode_binary(kept) \in Seq(Byte)
  /\ file' = encode_binary(kept)
  /\ UNCHANGED <<kept, harm, changed, answer>>

Unread == file # <<>> /\ answer = None

\* Something is written behind it.
Grow ==
  /\ Unread /\ harm = "none"
  /\ \E byte \in Fault : file' = Append(file, byte)
  /\ harm' = "grown"
  /\ UNCHANGED <<kept, changed, answer>>

\* One byte is damaged, or the end is missing.
Damage ==
  /\ Unread /\ harm = "none"
  /\ \/ \E i \in DOMAIN file, byte \in Byte :
          /\ byte # file[i]
          /\ file' = [file EXCEPT ![i] = byte]
     \/ \E n \in 0..(Len(file) - 1) : file' = SubSeq(file, 1, n)
  /\ harm' = "harmed"
  /\ UNCHANGED <<kept, changed, answer>>

\* Another program wrote the file: its payload is any other one, and its
\* checksum is right.
Forge ==
  /\ Unread /\ harm \in {"none", "forged"} /\ changed < Repairs
  /\ \E i \in (HeaderBytes + 1)..Len(file), byte \in Fault :
       LET other == [file EXCEPT ![i] = byte]
       IN file' = [other EXCEPT ![6] = checksum64(Payload(other))]
  /\ harm' = "forged"
  /\ changed' = changed + 1
  /\ UNCHANGED <<kept, answer>>

Read ==
  /\ answer = None /\ (file # <<>> \/ harm # "none")
  /\ answer' = decode_binary(file)
  /\ UNCHANGED <<kept, file, harm, changed>>

ArchiveInit ==
  /\ kept \in Seq(Archived)
  /\ file = <<>> /\ harm = "none" /\ changed = 0 /\ answer = None

ArchiveNext == Write \/ Grow \/ Damage \/ Forge \/ Read

ArchiveSpec == ArchiveInit /\ [][ArchiveNext]_archive_vars

(***************************************************************************)
(* Properties.                                                             *)
(***************************************************************************)
\* An empty string is read as none.
AsRead(c) == [c EXCEPT !.store = IF @ = <<>> THEN None ELSE @]

CookieFits(c) ==
  /\ Cardinality(DOMAIN c.metadata) <= MaximumEntries
  /\ \A t \in {c.name, c.store} \cup DOMAIN c.metadata
               \cup {c.metadata[k] : k \in DOMAIN c.metadata} :
       t # None => Len(t) <= MaximumText

WithinLimits(list) ==
  Len(list) <= MaximumCount /\ \A i \in DOMAIN list : CookieFits(list[i])

\* A collection within the limits is read back as it was, whatever follows the
\* archive in its file, and one beyond them is refused.  A file with a damaged
\* byte anywhere in it, or without its end, is always refused: what the
\* checksum cannot see in the header, the number of cookies and the length of
\* the payload give away (binary.rs:47-119).
ReadOrRefused ==
  answer # None /\ harm # "forged" =>
    IF harm # "harmed" /\ WithinLimits(kept) /\ Len(file) <= MaximumFile
    THEN answer = Report([i \in DOMAIN kept |-> AsRead(kept[i])],
                         IF harm = "grown" THEN 1 ELSE 0)
    ELSE answer = Refused

\* There is one way to write what can be read: a file that another program
\* wrote, and that is accepted, is as long as the archive that encode_binary
\* makes of its cookies, which are the same when they are read again; keys
\* that occur twice, surplus bytes and lengths that overlap are refused
\* (binary.rs:98-119, 158-192, 305-312).
AcceptedIsOwn ==
  answer \notin {None, Refused} =>
    LET again == encode_binary(answer.collection)
    IN /\ Len(again) = Len(file) - answer.trailing
       /\ decode_binary(again) = Report(answer.collection, 0)
=============================================================================
