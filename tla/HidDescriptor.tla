---------------------------- MODULE HidDescriptor ----------------------------
(***************************************************************************)
(* classify of hid_descriptor.rs and classifyDescriptor of HidEndpoint.kt: *)
(* what kind of device a HID report descriptor is of, from the first Usage *)
(* on the Generic Desktop page.  The Android sender announces the second;  *)
(* the first is the receiver's check on what a sender claims.              *)
(***************************************************************************)
EXTENDS Integers, Sequences, SequencesExt

USAGE_PAGE == 4     \* tags, with the type bits, as they stand in a prefix byte
USAGE == 8
GENERIC_DESKTOP == 1

KindOfUsage(usage) ==
    CASE usage = 2 -> "mouse"
      [] usage = 6 -> "keyboard"
      [] usage \in {4, 5} -> "gamepad"
      [] OTHER -> "other"

SizeOf(prefix) == <<0, 1, 2, 4>>[(prefix % 4) + 1]
TagOf(prefix) == prefix - (prefix % 4)

(* The data of an item, little endian; a word is signed, as in Kotlin. *)
DataLE(b) ==
    CASE Len(b) = 0 -> 0
      [] Len(b) = 1 -> b[1]
      [] Len(b) = 2 -> b[1] + 256 * b[2]
      [] Len(b) = 4 -> b[1] + 256 * b[2] + 65536 * b[3]
                         + 16777216 * (IF b[4] < 128 THEN b[4] ELSE b[4] - 256)

(* The loop over the items from position i on, with the page in force; an    *)
(* item that the end cuts off stops it.  as(_) is how the code narrows data. *)
Sniff(desc, as(_)) ==
    LET from[i \in Nat, page \in Int] ==
          IF i > Len(desc) \/ i + SizeOf(desc[i]) > Len(desc) THEN "other"
          ELSE LET size == SizeOf(desc[i])
                   data == as(DataLE(SubSeq(desc, i + 1, i + size)))
               IN  IF TagOf(desc[i]) = USAGE /\ page = GENERIC_DESKTOP THEN KindOfUsage(data)
                   ELSE from[i + 1 + size, IF TagOf(desc[i]) = USAGE_PAGE THEN data ELSE page]
    IN  from[1, -1]

AsU8(data) == data % 256    \* `as u8`
AsInt(data) == data

classify(desc) == Sniff(desc, AsU8)
classifyDescriptor(desc) == Sniff(desc, AsInt)

-----------------------------------------------------------------------------
(* The reference: a descriptor is a sequence of items.  The sample has pages *)
(* and usages of one byte and of two, items without data and of four bytes,  *)
(* and data that look like items.                                            *)
Item(tag, bytes) == [tag |-> tag, bytes |-> bytes]

SampleItems ==
    {Item(USAGE_PAGE, <<1>>), Item(USAGE_PAGE, <<9>>), Item(USAGE_PAGE, <<1, 255>>),
     Item(USAGE, <<2>>), Item(USAGE, <<5>>), Item(USAGE, <<6, 1>>), Item(USAGE, <<>>),
     Item(160, <<1>>), Item(36, <<9, 2, 9, 255>>)}

Samples == UNION {[1 .. n -> SampleItems] : n \in 0 .. 3}

ItemBytes(it) ==
    <<it.tag + (IF Len(it.bytes) = 4 THEN 3 ELSE Len(it.bytes))>> \o it.bytes
Take(s, n) == [i \in 1 .. n |-> s[i]]
Descriptor(items) == FlattenSeq([i \in DOMAIN items |-> ItemBytes(items[i])])

PageAt(items, i, as(_)) ==
    LET pages == {j \in 1 .. i - 1 : items[j].tag = USAGE_PAGE} IN
    IF pages = {} THEN -1 ELSE as(DataLE(items[Max(pages)].bytes))

KindOfItems(items, as(_)) ==
    LET deciding == {i \in DOMAIN items : /\ items[i].tag = USAGE
                                          /\ PageAt(items, i, as) = GENERIC_DESKTOP}
    IN  IF deciding = {} THEN "other" ELSE KindOfUsage(as(DataLE(items[Min(deciding)].bytes)))

(* Both classifiers find the first usage on the Generic Desktop page: they   *)
(* keep step with the items whatever their sizes, never take data for an     *)
(* item, and of a descriptor that is cut off they use the whole items only.  *)
ASSUME SniffsItems ==
    \A items \in Samples : \A cut \in 0 .. Len(Descriptor(items)) :
        LET fits(n) == Len(Descriptor(Take(items, n))) <= cut
            whole == Take(items, Max({n \in 0 .. Len(items) : fits(n)}))
            desc == Take(Descriptor(items), cut)
        IN  /\ classify(desc) = KindOfItems(whole, AsU8)
            /\ classifyDescriptor(desc) = KindOfItems(whole, AsInt)

(* They agree on every descriptor whose pages and usages fit a byte, and     *)
(* part on one of a vendor page whose low byte is that of Generic Desktop.   *)
ASSUME ClassifiersAgreeOnBytes ==
    /\ \A items \in Samples :
          (\A i \in DOMAIN items : items[i].tag \in {USAGE_PAGE, USAGE} => Len(items[i].bytes) < 2)
             => classify(Descriptor(items)) = classifyDescriptor(Descriptor(items))
    /\ LET vendor == <<6, 1, 255, 9, 2>> IN
       classify(vendor) = "mouse" /\ classifyDescriptor(vendor) = "other"
=============================================================================
