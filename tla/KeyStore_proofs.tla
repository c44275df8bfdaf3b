--------------------------- MODULE KeyStore_proofs ---------------------------
(***************************************************************************)
(* What the EEPROM holds is sound after every single page write, for any   *)
(* number of slots, peers, keys and passwords: since power may be cut      *)
(* anywhere, the invariant speaks of the EEPROM and of every image of it   *)
(* that the handler at work will still go through.                         *)
(***************************************************************************)
EXTENDS KeyStore, WellFoundedInduction, TLAPS

SoundImage(e) == e \in EEPROM /\ Vouched(e) /\ Complete(e) /\ Keyed(e)

\* RAM and what the EEPROM will hold when the handler is done.
Mirrors(r, e) ==
  /\ r.private = e.private /\ r.public = e.public /\ r.table = e.table
  /\ r.status.flags = e.status.flags /\ r.status.password = e.status.password
  /\ r.status.node_id \in {e.status.node_id, 0}
  /\ r.status.node_id # UNSET
  /\ e.table # ErasedTable

AllSound == SoundImage(eeprom) /\ \A i \in 1 .. Len(todo) : SoundImage(todo[i])
RamFollows == mode = "running" => Mirrors(ram, IF todo = <<>> THEN eeprom ELSE todo[Len(todo)])

IInv == TypeOK /\ AllSound /\ RamFollows

-----------------------------------------------------------------------------
(* The operators of the table. *)

\* A search that finds something finds an entry of the table.
LEMMA MinIsMember ==
  ASSUME NEW S \in SUBSET Slot, S # {}
  PROVE  Min(S) \in S
<1>1. S \subseteq Nat
  BY SizeAssumption DEF Slot
<1>2. PICK n \in S : \A m \in S : n <= m
  <2>1. IsWellFoundedOn(OpToRel(<, Nat), Nat)
    BY NatLessThanWellFounded
  <2>2. PICK n \in S : \A m \in S : ~(<<m, n>> \in OpToRel(<, Nat))
    BY <1>1, <2>1, WFMin, Zenon
  <2>3. \A m \in S : ~(m < n)
    BY <1>1, <2>2, Zenon DEF OpToRel
  <2> QED
    BY <1>1, <2>3
<1> QED
  BY <1>2 DEF Min

\* ssk_find_free_slot returns a slot whose entry is free.
LEMMA FreeSlot ==
  ASSUME NEW table, ssk_has_key(table, FREE)
  PROVE  /\ ssk_find_free_slot(table) \in Slot
         /\ table[ssk_find_free_slot(table)].node_id = FREE
<1>1. EntriesOf(table, FREE) \in SUBSET Slot /\ EntriesOf(table, FREE) # {}
  BY DEF ssk_has_key, EntriesOf
<1>2. ssk_find_free_slot(table) \in EntriesOf(table, FREE)
  BY <1>1, MinIsMember DEF ssk_find_free_slot
<1> QED
  BY <1>2 DEF EntriesOf

\* A page that passes ssk_set_key's test is the page of a slot.
LEMMA PageOfSlot ==
  ASSUME NEW table \in Table, NEW id, ssk_has_key(table, id), KeyPage(table, id) < Slots
  PROVE  KeyPage(table, id) \in Slot
<1>1. EntriesOf(table, id) \in SUBSET Slot /\ EntriesOf(table, id) # {}
  BY DEF ssk_has_key, EntriesOf
<1>2. Min(EntriesOf(table, id)) \in Slot
  BY <1>1, MinIsMember
<1>3. KeyPage(table, id) \in Slot \cup {UNSET}
  BY <1>2 DEF KeyPage, Table
<1> QED
  BY <1>3, SizeAssumption DEF UNSET

-----------------------------------------------------------------------------
(* Page writes that keep an image sound. *)

\* The status page, if its flags vouch for what the image holds.
LEMMA StatusWrite ==
  ASSUME NEW e, SoundImage(e), NEW status \in Status,
         Vouched([e EXCEPT !.status = status]),
         device_configured(status) => all_components_configured(status) /\ e.table # ErasedTable
  PROVE  SoundImage([e EXCEPT !.status = status])
<1> DEFINE f == [e EXCEPT !.status = status]
<1>1. f \in EEPROM /\ f.status = status /\ f.table = e.table /\ f.keys = e.keys
  BY DEF SoundImage, EEPROM
<1>2. Keyed(f)
  BY <1>1 DEF SoundImage, Keyed, Listed
<1>3. Complete(f)
  BY <1>1 DEF Complete
<1> QED
  BY <1>1, <1>2, <1>3 DEF SoundImage

\* A page of this node's key pair, if it is not erased.
LEMMA PairWrite ==
  ASSUME NEW e, SoundImage(e), NEW g \in Pair
  PROVE  /\ SoundImage([e EXCEPT !.public = g])
         /\ SoundImage([e EXCEPT !.private = g])
<1>1. g # Erased
  BY ErasedAssumption
<1>2. SoundImage([e EXCEPT !.public = g])
  BY <1>1 DEF SoundImage, EEPROM, Vouched, Complete, Keyed, Listed
<1>3. SoundImage([e EXCEPT !.private = g])
  BY <1>1 DEF SoundImage, EEPROM, Vouched, Complete, Keyed, Listed
<1> QED
  BY <1>2, <1>3

\* A key page.
LEMMA KeyWrite ==
  ASSUME NEW e, SoundImage(e), NEW s \in Slot, NEW key \in Key
  PROVE  SoundImage([e EXCEPT !.keys[s] = key])
<1> DEFINE f == [e EXCEPT !.keys[s] = key]
<1>1. f.status = e.status /\ f.private = e.private /\ f.public = e.public /\ f.table = e.table
  BY DEF SoundImage, EEPROM
<1>2. f.keys = [e.keys EXCEPT ![s] = key] /\ f.keys \in [Slot -> Key \cup {Erased}] /\ f \in EEPROM
  BY DEF SoundImage, EEPROM
<1>3. key # Erased
  BY ErasedAssumption
<1>4. Vouched(f) /\ Complete(f)
  BY <1>1 DEF SoundImage, Vouched, Complete
<1>5. \A r \in Slot : e.keys[r] # Erased => f.keys[r] # Erased
  BY <1>2, <1>3 DEF SoundImage, EEPROM
<1>6. Keyed(f)
  BY <1>1, <1>5 DEF SoundImage, Keyed, Listed
<1> QED
  BY <1>2, <1>4, <1>6 DEF SoundImage

\* A table in which a free entry becomes that of a peer not listed yet, whose
\* key is stored already.
LEMMA EntryWrite ==
  ASSUME NEW e, SoundImage(e), NEW s \in Slot, NEW id \in 1 .. 254,
         ~ssk_has_key(e.table, id), e.keys[s] # Erased
  PROVE  LET table == [e.table EXCEPT ![s] = [node_id |-> id, key_page |-> s]]
         IN  /\ SoundImage([e EXCEPT !.table = table])
             /\ table \in Table
             /\ table # ErasedTable
<1> DEFINE table == [e.table EXCEPT ![s] = [node_id |-> id, key_page |-> s]]
           f == [e EXCEPT !.table = table]
<1>1. table \in Table /\ table[s] = [node_id |-> id, key_page |-> s]
      /\ \A r \in Slot \ {s} : table[r] = e.table[r]
  BY DEF SoundImage, EEPROM, Table
<1>2. f \in EEPROM /\ f.status = e.status /\ f.private = e.private /\ f.public = e.public
      /\ f.table = table /\ f.keys = e.keys
  BY <1>1 DEF SoundImage, EEPROM
<1>3. table # ErasedTable
  <2>1. table[s].node_id # UNSET
    BY <1>1 DEF UNSET
  <2> QED
    BY <2>1 DEF ErasedTable
<1>4. Vouched(f) /\ Complete(f)
  BY <1>2, <1>3 DEF SoundImage, Vouched, Complete
<1>5. \A r \in Slot : e.table[r].node_id # id
  BY DEF ssk_has_key, EntriesOf
<1>6. Keyed(f)
  <2>1. \A r \in Listed(f) \ {s} : r \in Listed(e) /\ f.table[r] = e.table[r]
    BY <1>1, <1>2 DEF Listed
  <2>2. \A r \in Listed(f) : f.table[r].key_page = r /\ f.keys[r] # Erased
    BY <1>1, <1>2, <2>1 DEF SoundImage, Keyed
  <2>3. \A q, r \in Listed(f) : f.table[q].node_id = f.table[r].node_id => q = r
    BY <1>1, <1>2, <1>5, <2>1 DEF SoundImage, Keyed, Listed
  <2> QED
    BY <2>2, <2>3 DEF Keyed
<1> QED
  BY <1>1, <1>2, <1>3, <1>4, <1>6 DEF SoundImage

-----------------------------------------------------------------------------
(* The handlers.  A handler starts with RAM and the EEPROM in agreement;   *)
(* each image it goes through is sound and the last agrees with RAM again. *)

\* What a handler may rely on.
LEMMA AtStart ==
  ASSUME IInv, Idle
  PROVE  /\ SoundImage(eeprom) /\ Mirrors(ram, eeprom)
         /\ eeprom \in EEPROM /\ ram \in RAM
BY DEF IInv, AllSound, RamFollows, Idle, TypeOK, SoundImage

\* A handler that changes one page.
LEMMA OneWrite ==
  ASSUME IInv, Idle, NEW image, SoundImage(image), todo' = <<image>>, Mirrors(ram', image),
         ram' \in RAM, saving' \in [peer : Peer \cup Sender, key : Key] \cup {None},
         UNCHANGED <<eeprom, mode, authenticated>>
  PROVE  IInv'
<1>1. TypeOK'
  BY DEF IInv, TypeOK, SoundImage
<1>2. AllSound' /\ RamFollows'
  BY DEF IInv, AllSound, RamFollows
<1> QED
  BY <1>1, <1>2 DEF IInv

\* A handler that changes two pages.
LEMMA TwoWrites ==
  ASSUME IInv, Idle, NEW first, NEW second, SoundImage(first), SoundImage(second),
         todo' = <<first, second>>, Mirrors(ram', second),
         ram' \in RAM, saving' \in [peer : Peer \cup Sender, key : Key] \cup {None},
         UNCHANGED <<eeprom, mode, authenticated>>
  PROVE  IInv'
<1>1. TypeOK'
  BY DEF IInv, TypeOK, SoundImage
<1>2. AllSound' /\ RamFollows'
  BY DEF IInv, AllSound, RamFollows
<1> QED
  BY <1>1, <1>2 DEF IInv

\* Handlers that store the status page.
LEMMA StatusStored ==
  ASSUME IInv, Idle, NEW status \in Status, StoreStatus(status),
         Vouched([eeprom EXCEPT !.status = status]), status.node_id # UNSET,
         device_configured(status) => all_components_configured(status)
  PROVE  IInv'
<1>1. SoundImage(eeprom) /\ Mirrors(ram, eeprom) /\ eeprom \in EEPROM /\ ram \in RAM
  BY AtStart
<1> DEFINE image == [eeprom EXCEPT !.status = status]
<1>2. SoundImage(image)
  BY <1>1, StatusWrite DEF Mirrors
<1>3. ram' \in RAM
  BY <1>1 DEF RAM, StoreStatus
<1>4. Mirrors(ram', image)
  BY <1>1 DEF Mirrors, StoreStatus, RAM, EEPROM
<1>5. todo' = <<image>> /\ UNCHANGED <<eeprom, mode, authenticated>>
      /\ saving' \in [peer : Peer \cup Sender, key : Key] \cup {None}
  BY DEF StoreStatus, IInv, TypeOK
<1> HIDE DEF image
<1> QED
  BY <1>2, <1>3, <1>4, <1>5, OneWrite

LEMMA GenKeysStep ==
  ASSUME IInv, NEW g \in Pair, GenKeys(g)
  PROVE  IInv'
<1> DEFINE withPublic == WithFlag(ram.status, "PUBLIC_KEY")
           withBoth == WithFlag(withPublic, "PRIVATE_KEY")
           e1 == [eeprom EXCEPT !.public = g]
           e2 == [e1 EXCEPT !.status = withPublic]
           e3 == [e1 EXCEPT !.status = withPublic, !.private = g]
           e4 == [e3 EXCEPT !.status = withBoth]
<1>1. SoundImage(eeprom) /\ Mirrors(ram, eeprom) /\ eeprom \in EEPROM /\ ram \in RAM
  BY AtStart DEF GenKeys
<1>2. g # Erased
  BY ErasedAssumption
<1>3. ram.status \in Status /\ withPublic \in Status /\ withBoth \in Status
      /\ withPublic.flags = ram.status.flags \cup {"PUBLIC_KEY"}
      /\ withBoth.flags = ram.status.flags \cup {"PUBLIC_KEY", "PRIVATE_KEY"}
      /\ withPublic.password = ram.status.password /\ withBoth.password = ram.status.password
      /\ withPublic.node_id = ram.status.node_id /\ withBoth.node_id = ram.status.node_id
  BY <1>1 DEF RAM, Status, WithFlag, Flags, Components
<1>4. SoundImage(e1) /\ e1 \in EEPROM /\ e1.public = g /\ e1.private = eeprom.private /\ e1.table = eeprom.table
  BY <1>1, PairWrite DEF EEPROM
<1>5. SoundImage(e2) /\ e2 \in EEPROM /\ e3 = [e2 EXCEPT !.private = g]
  <2>1. e2 \in EEPROM /\ e2.status = withPublic /\ e2.public = g /\ e2.private = eeprom.private
    BY <1>3, <1>4 DEF EEPROM
  <2>2. Vouched(e2)
    BY <1>1, <1>2, <1>3, <2>1 DEF SoundImage, Vouched, Mirrors
  <2>3. device_configured(withPublic) => all_components_configured(withPublic) /\ e1.table # ErasedTable
    BY <1>1, <1>3, <1>4 DEF SoundImage, Complete, Mirrors, device_configured, all_components_configured
  <2> HIDE DEF withPublic, withBoth, e1
  <2>4. SoundImage(e2)
    BY <1>3, <1>4, <2>2, <2>3, StatusWrite
  <2>5. e3 = [e2 EXCEPT !.private = g]
    BY <1>4 DEF EEPROM
  <2> QED
    BY <2>1, <2>4, <2>5
<1>6. SoundImage(e3) /\ e3 \in EEPROM /\ e3.public = g /\ e3.private = g /\ e3.table = eeprom.table
  <2>1. SoundImage(e3)
    BY <1>5, PairWrite
  <2> QED
    BY <1>4, <2>1 DEF EEPROM, SoundImage
<1>7. SoundImage(e4) /\ e4 \in EEPROM /\ e4.public = g /\ e4.private = g /\ e4.table = eeprom.table
      /\ e4.status = withBoth
  <2> HIDE DEF withPublic, withBoth, e1, e3
  <2>1. e4 \in EEPROM /\ e4.status = withBoth /\ e4.public = g /\ e4.private = g /\ e4.table = eeprom.table
    BY <1>3, <1>6 DEF EEPROM
  <2>2. Vouched(e4)
    BY <1>1, <1>2, <1>3, <2>1 DEF SoundImage, Vouched, Mirrors
  <2>3. device_configured(withBoth) => all_components_configured(withBoth) /\ e3.table # ErasedTable
    BY <1>1, <1>3, <1>6 DEF SoundImage, Complete, Mirrors, device_configured, all_components_configured
  <2>4. SoundImage(e4)
    BY <1>3, <1>6, <2>2, <2>3, StatusWrite
  <2> QED
    BY <2>1, <2>4
<1>8. ram' = [ram EXCEPT !.public = g, !.private = g, !.status = withBoth]
      /\ todo' = <<e1, e2, e3, e4>> /\ UNCHANGED <<eeprom, mode, authenticated, saving>>
  BY DEF GenKeys
<1>9. ram' \in RAM /\ Mirrors(ram', e4)
  <2> HIDE DEF e4
  <2> QED
    BY <1>1, <1>3, <1>7, <1>8 DEF RAM, Mirrors
<1> HIDE DEF e1, e2, e3, e4, withPublic, withBoth
<1>10. TypeOK'
  BY <1>4, <1>5, <1>6, <1>7, <1>8, <1>9 DEF IInv, TypeOK
<1>11. AllSound' /\ RamFollows'
  BY <1>4, <1>5, <1>6, <1>7, <1>8, <1>9 DEF IInv, AllSound, RamFollows
<1> QED
  BY <1>10, <1>11 DEF IInv

LEMMA SetIDStep ==
  ASSUME IInv, NEW id \in Id, SetID(id)
  PROVE  IInv'
<1>1. SoundImage(eeprom) /\ Mirrors(ram, eeprom) /\ eeprom \in EEPROM /\ ram \in RAM
  BY AtStart DEF SetID
<1>2. id \in 0 .. 255 /\ id # UNSET
  BY SizeAssumption DEF UNSET
<1>3. CASE id # 0
  <2> DEFINE status == WithFlag([ram.status EXCEPT !.node_id = id], "NODE_ID")
  <2>1. status \in Status /\ status.node_id = id /\ status.password = ram.status.password
        /\ status.flags = ram.status.flags \cup {"NODE_ID"}
    BY <1>1, <1>2 DEF RAM, Status, WithFlag, Flags, Components
  <2>2. Vouched([eeprom EXCEPT !.status = status])
    BY <1>1, <1>2, <2>1 DEF SoundImage, EEPROM, Vouched, Mirrors
  <2>3. device_configured(status) => all_components_configured(status)
    BY <1>1, <2>1 DEF SoundImage, Complete, Mirrors, device_configured, all_components_configured
  <2>4. StoreStatus(status) /\ Idle
    BY <1>3 DEF SetID
  <2> QED
    BY <1>2, <2>1, <2>2, <2>3, <2>4, StatusStored
<1>4. CASE id = 0
  <2>1. ram' \in RAM /\ UNCHANGED <<eeprom, todo, mode, authenticated, saving>>
    BY <1>1, <1>2, <1>4 DEF SetID, RAM, Status
  <2>2. Mirrors(ram', eeprom)
    BY <1>1, <1>2, <1>4 DEF SetID, RAM, Status, Mirrors
  <2> QED
    BY <2>1, <2>2 DEF SetID, Idle, IInv, TypeOK, AllSound, RamFollows
<1> QED
  BY <1>3, <1>4

LEMMA SetPasswordStep ==
  ASSUME IInv, NEW password \in Password, SetPassword(password)
  PROVE  IInv'
<1> DEFINE status == WithFlag([ram.status EXCEPT !.password = password], "PASSWORD")
<1>1. SoundImage(eeprom) /\ Mirrors(ram, eeprom) /\ eeprom \in EEPROM /\ ram \in RAM
  BY AtStart DEF SetPassword
<1>2. status \in Status /\ status.node_id = ram.status.node_id /\ status.password = password
      /\ status.flags = ram.status.flags \cup {"PASSWORD"}
  BY <1>1 DEF RAM, Status, WithFlag, Flags, Components
<1>3. Vouched([eeprom EXCEPT !.status = status])
  BY <1>1, <1>2, ErasedAssumption DEF SoundImage, EEPROM, Vouched, Mirrors
<1>4. device_configured(status) => all_components_configured(status)
  BY <1>1, <1>2 DEF SoundImage, Complete, Mirrors, device_configured, all_components_configured
<1>5. StoreStatus(status) /\ Idle /\ status.node_id # UNSET
  BY <1>1, <1>2 DEF SetPassword, Mirrors
<1> QED
  BY <1>2, <1>3, <1>4, <1>5, StatusStored

LEMMA CommitConfigStep ==
  ASSUME IInv, CommitConfig
  PROVE  IInv'
<1> DEFINE status == WithFlag(ram.status, "CONFIGURED")
<1>1. SoundImage(eeprom) /\ Mirrors(ram, eeprom) /\ eeprom \in EEPROM /\ ram \in RAM
  BY AtStart DEF CommitConfig
<1>2. status \in Status /\ status.node_id = ram.status.node_id
      /\ status.password = ram.status.password /\ status.flags = ram.status.flags \cup {"CONFIGURED"}
  BY <1>1 DEF RAM, Status, WithFlag, Flags, Components
<1>3. Vouched([eeprom EXCEPT !.status = status])
  BY <1>1, <1>2 DEF SoundImage, EEPROM, Vouched, Mirrors
<1>4. all_components_configured(status)
  BY <1>2 DEF CommitConfig, all_components_configured
<1>5. StoreStatus(status) /\ Idle /\ status.node_id # UNSET
  BY <1>1, <1>2 DEF CommitConfig, Mirrors
<1> QED
  BY <1>2, <1>3, <1>4, <1>5, StatusStored

LEMMA SaveStep ==
  ASSUME IInv, Idle, NEW id \in Peer \cup Sender, NEW public \in Public, saveSSKFor(id, public)
  PROVE  IInv'
<1> DEFINE key == [private |-> ram.private, public |-> public]
<1>1. SoundImage(eeprom) /\ Mirrors(ram, eeprom) /\ eeprom \in EEPROM /\ ram \in RAM
  BY AtStart
<1>2. key \in Key
  BY <1>1 DEF RAM, Key
<1>3. saving' \in [peer : Peer \cup Sender, key : Key] \cup {None}
      /\ UNCHANGED <<eeprom, mode, authenticated>>
  BY <1>2 DEF saveSSKFor
<1>4. key # Erased /\ ram.table \in Table /\ ram.table = eeprom.table
  BY <1>1, <1>2, ErasedAssumption DEF RAM, Mirrors
<1>5. ReplaceKey(id, key) \/ AddKey(id, key)
  BY DEF saveSSKFor
<1> HIDE DEF key
<1>6. CASE ReplaceKey(id, key)
  <2> DEFINE s == KeyPage(ram.table, id)
             image == [eeprom EXCEPT !.keys[s] = key]
  <2>1. s \in Slot
    BY <1>4, <1>6, PageOfSlot DEF ReplaceKey
  <2>2. todo' = <<image>> /\ ram' = ram
    BY <1>6 DEF ReplaceKey
  <2> HIDE DEF s
  <2>3. SoundImage(image)
    BY <1>1, <1>2, <2>1, KeyWrite
  <2>4. Mirrors(ram', image)
    BY <1>1, <2>1, <2>2 DEF Mirrors, EEPROM
  <2> HIDE DEF image
  <2> QED
    BY <1>1, <1>3, <2>2, <2>3, <2>4, OneWrite
<1>7. CASE AddKey(id, key)
  <2> DEFINE s == ssk_find_free_slot(ram.table)
             table == [ram.table EXCEPT ![s] = [node_id |-> id, key_page |-> s]]
             keyed == [eeprom EXCEPT !.keys[s] = key]
             listed == [keyed EXCEPT !.table = table]
  <2>1. ~ssk_has_key(ram.table, id) /\ s \in Slot
    BY <1>7, FreeSlot DEF AddKey
  <2>2. id \in 1 .. 254
    BY <1>7, SizeAssumption DEF AddKey, FREE
  <2>3. todo' = <<keyed, listed>> /\ ram' = [ram EXCEPT !.table = table]
    BY <1>7 DEF AddKey
  <2> HIDE DEF s
  <2>4. SoundImage(keyed)
    BY <1>1, <1>2, <2>1, KeyWrite
  <2>5. keyed.keys[s] # Erased /\ keyed.table = ram.table /\ keyed \in EEPROM
        /\ keyed.private = eeprom.private /\ keyed.public = eeprom.public /\ keyed.status = eeprom.status
    BY <1>1, <1>2, <1>4, <2>1 DEF EEPROM
  <2> HIDE DEF keyed
  <2>6. SoundImage(listed) /\ table \in Table /\ table # ErasedTable
    <3> DEFINE entry == [keyed.table EXCEPT ![s] = [node_id |-> id, key_page |-> s]]
    <3>1. ~ssk_has_key(keyed.table, id)
      BY <2>1, <2>5
    <3>2. SoundImage([keyed EXCEPT !.table = entry]) /\ entry \in Table /\ entry # ErasedTable
      BY <2>1, <2>2, <2>4, <2>5, <3>1, EntryWrite
    <3> QED
      BY <2>5, <3>2
  <2> HIDE DEF table
  <2>7. ram' \in RAM /\ Mirrors(ram', listed)
    BY <1>1, <2>3, <2>5, <2>6 DEF RAM, EEPROM, Mirrors
  <2> HIDE DEF listed
  <2> QED
    BY <1>3, <2>3, <2>4, <2>6, <2>7, TwoWrites
<1> QED
  BY <1>5, <1>6, <1>7

-----------------------------------------------------------------------------
(* Starting, burning, stopping. *)

LEMMA BootStep ==
  ASSUME IInv, Boot
  PROVE  IInv'
<1> DEFINE zeroed == [eeprom EXCEPT !.table = ZeroTable]
<1>1. SoundImage(eeprom) /\ eeprom \in EEPROM
  BY DEF IInv, AllSound, SoundImage
<1>2. ZeroTable \in Table /\ ZeroTable # ErasedTable
  <2>1. ZeroTable \in Table
    BY SizeAssumption DEF ZeroTable, Table, Slot, FREE
  <2>2. 0 \in Slot
    BY SizeAssumption DEF Slot
  <2>3. ZeroTable[0].node_id # ErasedTable[0].node_id
    BY <2>2 DEF ZeroTable, ErasedTable, FREE, UNSET
  <2> QED
    BY <2>1, <2>3
<1>3. SoundImage(zeroed) /\ zeroed \in EEPROM
  <2>1. zeroed \in EEPROM /\ zeroed.status = eeprom.status /\ zeroed.private = eeprom.private
        /\ zeroed.public = eeprom.public /\ zeroed.table = ZeroTable
    BY <1>1, <1>2 DEF EEPROM
  <2>2. Listed(zeroed) = {}
    BY <2>1 DEF Listed, ZeroTable
  <2> QED
    BY <1>1, <1>2, <2>1, <2>2 DEF SoundImage, Vouched, Complete, Keyed
<1>4. ram' \in RAM
  BY <1>1, <1>2 DEF Boot, RAM, EEPROM, Status, UNSET
<1>5. CASE device_configured(eeprom.status)
  <2>1. todo' = <<>> /\ Mirrors(ram', eeprom)
    BY <1>1, <1>5 DEF Boot, Mirrors, EEPROM, Status, SoundImage, Complete, UNSET
  <2> QED
    BY <1>1, <1>4, <2>1 DEF IInv, TypeOK, AllSound, RamFollows, Boot
<1>6. CASE ~device_configured(eeprom.status)
  <2>1. todo' = <<zeroed>> /\ Mirrors(ram', zeroed)
    BY <1>1, <1>2, <1>6 DEF Boot, Mirrors, EEPROM, Status, UNSET
  <2>2. UNCHANGED <<eeprom, authenticated, saving>> /\ mode' = "running"
    BY DEF Boot
  <2> HIDE DEF zeroed
  <2>3. todo' \in Seq(EEPROM) /\ todo' # <<>> /\ Len(todo') = 1 /\ todo'[1] = zeroed
    BY <1>3, <2>1
  <2>4. TypeOK'
    BY <1>1, <1>4, <2>2, <2>3 DEF IInv, TypeOK
  <2>5. AllSound' /\ RamFollows'
    BY <1>1, <1>3, <2>1, <2>2, <2>3 DEF AllSound, RamFollows
  <2> QED
    BY <2>4, <2>5 DEF IInv
<1> QED
  BY <1>5, <1>6

\* The status page goes first and the table before the keys it leads to.
LEMMA BurntSound ==
  ASSUME SoundImage(eeprom), NEW n \in 1 .. 4 + Slots
  PROVE  SoundImage(Burnt(n))
<1>1. eeprom \in EEPROM
  BY DEF SoundImage
<1>2. Burnt(n).status = ErasedStatus /\ Burnt(n) \in EEPROM
  <2>1. ErasedStatus \in Status
    BY DEF ErasedStatus, Status, UNSET
  <2>2. ErasedTable \in Table
    BY DEF ErasedTable, Table, UNSET
  <2>3. [s \in Slot |-> IF n > 4 + s THEN Erased ELSE eeprom.keys[s]] \in [Slot -> Key \cup {Erased}]
    BY <1>1 DEF EEPROM
  <2>4. n > 0
    BY SizeAssumption
  <2> QED
    BY <1>1, <2>1, <2>2, <2>3, <2>4 DEF Burnt, EEPROM
<1>3. Vouched(Burnt(n)) /\ Complete(Burnt(n))
  BY <1>2 DEF Vouched, Complete, device_configured, ErasedStatus
<1>4. Keyed(Burnt(n))
  <2>1. CASE n > 3
    <3>1. Listed(Burnt(n)) = {}
      BY <2>1 DEF Burnt, Listed, ErasedTable
    <3> QED
      BY <3>1 DEF Keyed
  <2>2. CASE ~(n > 3)
    <3>1. Burnt(n).table = eeprom.table
      BY <2>2 DEF Burnt
    <3>2. \A s \in Slot : Burnt(n).keys[s] = eeprom.keys[s]
      BY <2>2, SizeAssumption DEF Burnt, Slot
    <3> QED
      BY <3>1, <3>2 DEF SoundImage, Keyed, Listed
  <2> QED
    BY <2>1, <2>2
<1> QED
  BY <1>2, <1>3, <1>4 DEF SoundImage

LEMMA BurnStep ==
  ASSUME IInv, Burn
  PROVE  IInv'
<1>1. SoundImage(eeprom)
  BY DEF IInv, AllSound
<1>2. 4 + Slots \in Nat /\ todo' = [n \in 1 .. 4 + Slots |-> Burnt(n)] /\ mode' = "burning"
      /\ UNCHANGED <<eeprom, ram, authenticated, saving>>
  BY SizeAssumption DEF Burn
<1>3. \A n \in 1 .. 4 + Slots : SoundImage(Burnt(n)) /\ Burnt(n) \in EEPROM
  BY <1>1, BurntSound DEF SoundImage
<1>4. todo' \in Seq(EEPROM) /\ Len(todo') = 4 + Slots
  BY <1>2, <1>3
<1>5. TypeOK'
  BY <1>2, <1>4 DEF IInv, TypeOK
<1>6. AllSound' /\ RamFollows'
  BY <1>1, <1>2, <1>3, <1>4 DEF AllSound, RamFollows, SoundImage, EEPROM
<1> QED
  BY <1>5, <1>6 DEF IInv

LEMMA WritePageStep ==
  ASSUME IInv, WritePage
  PROVE  IInv'
<1>1. todo \in Seq(EEPROM) /\ todo # <<>> /\ eeprom' = todo[1] /\ todo' = Tail(todo)
      /\ UNCHANGED <<ram, mode, authenticated>>
  BY DEF IInv, TypeOK, WritePage
<1>2. Len(todo) \in Nat \ {0} /\ Tail(todo) \in Seq(EEPROM) /\ Len(Tail(todo)) = Len(todo) - 1
      /\ \A i \in 1 .. Len(todo) - 1 : Tail(todo)[i] = todo[i + 1]
  BY <1>1
<1>3. SoundImage(eeprom')
  BY <1>1, <1>2 DEF IInv, AllSound
<1>4. \A i \in 1 .. Len(todo') : SoundImage(todo'[i])
  BY <1>1, <1>2 DEF IInv, AllSound
<1>5. TypeOK'
  BY <1>1, <1>2, <1>3 DEF IInv, TypeOK, WritePage, SoundImage
<1>6. RamFollows'
  <2>1. CASE Len(todo) = 1
    BY <1>1, <1>2, <2>1 DEF IInv, RamFollows
  <2>2. CASE Len(todo) # 1
    <3>1. Len(todo') = Len(todo) - 1 /\ Len(todo') \in 1 .. Len(todo) - 1
      BY <1>1, <1>2, <2>2
    <3>2. todo'[Len(todo')] = todo[Len(todo') + 1]
      BY <1>1, <1>2, <3>1
    <3>3. todo' # <<>>
      BY <3>1
    <3> QED
      BY <1>1, <1>2, <3>1, <3>2, <3>3 DEF IInv, RamFollows
  <2> QED
    BY <2>1, <2>2
<1>7. AllSound'
  BY <1>3, <1>4 DEF AllSound, SoundImage, Vouched, Complete, Keyed, Listed
<1> QED
  BY <1>5, <1>6, <1>7 DEF IInv

LEMMA OffStep ==
  ASSUME IInv, Off
  PROVE  IInv'
<1>1. [status |-> ErasedStatus, private |-> Erased, public |-> Erased, table |-> ErasedTable] \in RAM
  BY DEF RAM, ErasedStatus, Status, ErasedTable, Table, UNSET
<1>2. eeprom \in EEPROM /\ eeprom' = eeprom /\ todo' = <<>> /\ mode' = "off" /\ ram' \in RAM
      /\ authenticated' = FALSE /\ saving' = None
  BY <1>1 DEF IInv, TypeOK, Off
<1>3. todo' \in Seq(EEPROM) /\ Len(todo') = 0
  BY <1>2
<1>4. TypeOK'
  BY <1>2, <1>3 DEF TypeOK
<1>5. AllSound' /\ RamFollows'
  BY <1>2, <1>3 DEF IInv, AllSound, RamFollows
<1> QED
  BY <1>4, <1>5 DEF IInv

-----------------------------------------------------------------------------
LEMMA InitSound == Init => IInv
<1> SUFFICES ASSUME Init PROVE IInv
  OBVIOUS
<1>1. ErasedStatus \in Status /\ ErasedTable \in Table
  BY DEF ErasedStatus, Status, ErasedTable, Table, UNSET
<1>2. TypeOK
  <2>1. eeprom \in EEPROM
    BY <1>1 DEF Init, EEPROM
  <2>2. ram \in RAM
    BY <1>1 DEF Init, RAM
  <2>3. todo \in Seq(EEPROM)
    BY DEF Init
  <2> QED
    BY <2>1, <2>2, <2>3 DEF Init, TypeOK
<1>3. Listed(eeprom) = {}
  BY DEF Init, Listed, ErasedTable
<1>4. SoundImage(eeprom)
  BY <1>2, <1>3 DEF SoundImage, TypeOK, Init, Vouched, Complete, Keyed, device_configured, ErasedStatus
<1> QED
  BY <1>2, <1>4 DEF IInv, AllSound, RamFollows, Init

\* Every handler, page write, start and power cut keeps the EEPROM sound.
LEMMA IInvIsInductive == IInv /\ [Next]_vars => IInv'
<1> SUFFICES ASSUME IInv, [Next]_vars PROVE IInv'
  OBVIOUS
<1>1. CASE Boot
  BY <1>1, BootStep
<1>2. CASE Handle
  <2>1. ASSUME NEW g \in Pair, GenKeys(g) PROVE IInv'
    BY <2>1, GenKeysStep
  <2>2. ASSUME NEW id \in Id, SetID(id) PROVE IInv'
    BY <2>2, SetIDStep
  <2>3. ASSUME NEW password \in Password, SetPassword(password) PROVE IInv'
    BY <2>3, SetPasswordStep
  <2>4. ASSUME NEW password \in Password, Auth(password) PROVE IInv'
    BY <2>4 DEF Auth, IInv, TypeOK, AllSound, RamFollows, SoundImage
  <2>5. CASE CommitConfig
    BY <2>5, CommitConfigStep
  <2>6. ASSUME NEW id \in Peer, NEW public \in Public, HostKey(id, public) PROVE IInv'
    BY <2>6, SaveStep DEF HostKey
  <2>7. ASSUME NEW id \in Sender, NEW public \in Public, PubKeyPacket(id, public) PROVE IInv'
    BY <2>7, SaveStep DEF PubKeyPacket
  <2> QED
    BY <1>2, <2>1, <2>2, <2>3, <2>4, <2>5, <2>6, <2>7 DEF Handle
<1>3. CASE Burn
  BY <1>3, BurnStep
<1>4. CASE WritePage
  BY <1>4, WritePageStep
<1>5. CASE Reset \/ PowerCut
  BY <1>5, OffStep DEF Reset, PowerCut
<1>6. CASE UNCHANGED vars
  BY <1>6 DEF vars, IInv, TypeOK, AllSound, RamFollows
<1> QED
  BY <1>1, <1>2, <1>3, <1>4, <1>5, <1>6 DEF Next

LEMMA IInvAlways == Spec => []IInv
BY InitSound, IInvIsInductive, PTL DEF Spec

\* The contents of RAM and EEPROM and the pending page writes are well formed.
THEOREM TypeCorrect == Spec => []TypeOK
<1>1. IInv => TypeOK
  BY DEF IInv
<1> QED
  BY <1>1, IInvAlways, PTL

\* Wherever power is cut, a flag in the EEPROM vouches for the page it names.
THEOREM FlagsAreHonest == Spec => []FlagsMeanStored
<1>1. IInv => FlagsMeanStored
  BY DEF IInv, AllSound, SoundImage, FlagsMeanStored
<1> QED
  BY <1>1, IInvAlways, PTL

\* A configured device has all its components and a table that was reset.
THEOREM ConfiguredIsAlwaysComplete == Spec => []ConfiguredIsComplete
<1>1. IInv => ConfiguredIsComplete
  BY DEF IInv, AllSound, SoundImage, ConfiguredIsComplete
<1> QED
  BY <1>1, IInvAlways, PTL

\* An entry of the stored table always leads to a stored key, and to its own.
THEOREM EntriesAlwaysHaveKeys == Spec => []EntriesHaveKeys
<1>1. IInv => EntriesHaveKeys
  BY DEF IInv, AllSound, SoundImage, EntriesHaveKeys
<1> QED
  BY <1>1, IInvAlways, PTL

\* Between handlers the keys and the table in RAM are those of the EEPROM.
THEOREM CachesAreCurrent == Spec => []CacheIsCurrent
<1>1. IInv => CacheIsCurrent
  BY DEF IInv, RamFollows, Idle, Mirrors, CacheIsCurrent
<1> QED
  BY <1>1, IInvAlways, PTL

-----------------------------------------------------------------------------
(* Whose key a page write changes.                                         *)

\* The session key of peer id in image e.
Found(e, id) == IF ssk_has_key(e.table, id) THEN e.keys[KeyPage(e.table, id)] ELSE Erased

\* From image e to image f, no key changes but the one being saved, or that of the
\* page of the free entries when it is saved for address 0, or all go.
OwnKeyOnly(e, f, save) ==
  \/ \A p \in Peer : Found(f, p) # Found(e, p) =>
        \/ save = [peer |-> p, key |-> Found(f, p)]
        \/ save = [peer |-> FREE, key |-> Found(f, p)] /\ KeyPage(e.table, p) = KeyPage(e.table, FREE)
  \/ \A p \in Peer : Found(f, p) = Erased

Before(i) == IF i = 1 THEN eeprom ELSE todo[i - 1]
EachOwnKeyOnly == \A i \in 1 .. Len(todo) : OwnKeyOnly(Before(i), todo[i], saving)

\* A key is being saved while pages are to be written, and is found when they are.
Saves == saving # None => /\ todo # <<>> /\ mode = "running"
                          /\ saving.peer \in Peer => Found(todo[Len(todo)], saving.peer) = saving.key

KeysInv == EachOwnKeyOnly /\ Saves

LEMMA SameKeys ==
  ASSUME NEW e, NEW f, f.table = e.table, f.keys = e.keys, NEW save
  PROVE  OwnKeyOnly(e, f, save)
BY DEF OwnKeyOnly, Found

\* A peer's entry is that of its own slot.
LEMMA FoundInSlot ==
  ASSUME NEW e, SoundImage(e), NEW p \in 1 .. 254, ssk_has_key(e.table, p)
  PROVE  \E r \in Slot : /\ e.table[r].node_id = p /\ KeyPage(e.table, p) = r
                         /\ Found(e, p) = e.keys[r]
<1> DEFINE r == Min(EntriesOf(e.table, p))
<1>1. r \in EntriesOf(e.table, p)
  BY MinIsMember DEF ssk_has_key, EntriesOf
<1>2. r \in Slot /\ e.table[r].node_id = p
  BY <1>1 DEF EntriesOf
<1>3. r \in Listed(e)
  BY <1>2 DEF Listed, FREE, UNSET
<1>4. e.table[r].key_page = r
  BY <1>3 DEF SoundImage, Keyed
<1>5. KeyPage(e.table, p) = r
  BY <1>4 DEF KeyPage
<1> QED
  BY <1>2, <1>5 DEF Found

\* A key page no peer but id has an entry for.
LEMMA KeyPageChanges ==
  ASSUME NEW e, SoundImage(e), NEW s \in Slot, NEW key,
         NEW p \in 1 .. 254, e.table[s].node_id # p
  PROVE  Found([e EXCEPT !.keys[s] = key], p) = Found(e, p)
<1> DEFINE f == [e EXCEPT !.keys[s] = key]
<1>1. e.keys \in [Slot -> Key \cup {Erased}]
  BY DEF SoundImage, EEPROM
<1>2. f.table = e.table /\ f.keys = [e.keys EXCEPT ![s] = key]
  BY DEF SoundImage, EEPROM
<1>3. CASE ssk_has_key(e.table, p)
  <2>1. PICK r \in Slot : /\ e.table[r].node_id = p /\ KeyPage(e.table, p) = r
                          /\ Found(e, p) = e.keys[r]
    BY <1>3, FoundInSlot
  <2>2. Found(f, p) = f.keys[r]
    BY <1>2, <1>3, <2>1 DEF Found
  <2> QED
    BY <1>1, <1>2, <2>1, <2>2
<1>4. CASE ~ssk_has_key(e.table, p)
  BY <1>2, <1>4 DEF Found
<1> QED
  BY <1>3, <1>4

\* From e to f, a free entry becomes that of id.
EntryAdded(e, f, s, id) ==
  /\ SoundImage(e) /\ e.table[s].node_id = FREE /\ ~ssk_has_key(e.table, id)
  /\ f.keys = e.keys /\ f.table[s].node_id = id /\ f.table[s].key_page = s
  /\ \A r \in Slot \ {s} : f.table[r] = e.table[r]

LEMMA EntryAppears ==
  ASSUME NEW e, NEW f, NEW s \in Slot, NEW id \in 1 .. 254, EntryAdded(e, f, s, id)
  PROVE  Found(f, id) = e.keys[s]
<1>1. EntriesOf(f.table, id) = {s}
  BY DEF EntryAdded, EntriesOf, ssk_has_key
<1>2. Min({s}) = s
  BY MinIsMember
<1>3. KeyPage(f.table, id) = s
  BY <1>1, <1>2 DEF EntryAdded, KeyPage
<1>4. ssk_has_key(f.table, id)
  BY <1>1 DEF ssk_has_key
<1> QED
  BY <1>3, <1>4 DEF EntryAdded, Found

OthersStay(e, f, id) == \A p \in Peer : p # id => Found(f, p) = Found(e, p)

LEMMA OtherEntriesStay ==
  ASSUME NEW e, NEW f, NEW s \in Slot, NEW id \in 1 .. 254, EntryAdded(e, f, s, id)
  PROVE  OthersStay(e, f, id)
<1> SUFFICES ASSUME NEW p \in Peer, p # id PROVE Found(f, p) = Found(e, p)
  BY DEF OthersStay
<1>0. p \in 1 .. 254
  BY SizeAssumption
<1>1. EntriesOf(f.table, p) = EntriesOf(e.table, p) /\ s \notin EntriesOf(e.table, p)
  BY <1>0 DEF EntryAdded, EntriesOf, FREE
<1>2. ssk_has_key(e.table, p) => KeyPage(f.table, p) = KeyPage(e.table, p)
  <2>1. SUFFICES ASSUME ssk_has_key(e.table, p) PROVE KeyPage(f.table, p) = KeyPage(e.table, p)
    OBVIOUS
  <2>2. Min(EntriesOf(e.table, p)) \in EntriesOf(e.table, p)
    BY <2>1, MinIsMember DEF ssk_has_key, EntriesOf
  <2>3. Min(EntriesOf(e.table, p)) \in Slot \ {s}
    BY <1>1, <2>2 DEF EntriesOf
  <2> QED
    BY <1>1, <2>3 DEF EntryAdded, KeyPage
<1> QED
  BY <1>1, <1>2 DEF EntryAdded, Found, ssk_has_key

\* The keys after a handler of one and of two page writes.
LEMMA OneImage ==
  ASSUME NEW image, todo' = <<image>>, eeprom' = eeprom, OwnKeyOnly(eeprom, image, saving'),
         saving' # None => /\ mode' = "running"
                           /\ saving'.peer \in Peer => Found(image, saving'.peer) = saving'.key
  PROVE  KeysInv'
BY DEF KeysInv, EachOwnKeyOnly, Saves, Before

LEMMA TwoImages ==
  ASSUME NEW first, NEW second, todo' = <<first, second>>, eeprom' = eeprom,
         OwnKeyOnly(eeprom, first, saving'), OwnKeyOnly(first, second, saving'),
         saving' # None => /\ mode' = "running"
                           /\ saving'.peer \in Peer => Found(second, saving'.peer) = saving'.key
  PROVE  KeysInv'
<1>1. Len(todo') = 2 /\ todo' # <<>> /\ todo'[1] = first /\ todo'[2] = second
  OBVIOUS
<1>2. EachOwnKeyOnly'
  <2> SUFFICES ASSUME NEW i \in 1 .. 2 PROVE OwnKeyOnly(Before(i)', todo'[i], saving')
    BY <1>1 DEF EachOwnKeyOnly
  <2>1. CASE i = 1
    BY <1>1, <2>1 DEF Before
  <2>2. CASE i = 2
    BY <1>1, <2>2 DEF Before
  <2> QED
    BY <2>1, <2>2
<1>3. Saves'
  BY <1>1 DEF Saves
<1> QED
  BY <1>2, <1>3 DEF KeysInv

LEMMA NothingSaved == ASSUME KeysInv, todo = <<>> PROVE saving = None
BY DEF KeysInv, Saves

LEMMA StatusKeys ==
  ASSUME IInv, KeysInv, Idle, NEW status, StoreStatus(status)
  PROVE  KeysInv'
<1> DEFINE image == [eeprom EXCEPT !.status = status]
<1>1. image.table = eeprom.table /\ image.keys = eeprom.keys
  BY AtStart DEF EEPROM
<1>2. todo' = <<image>> /\ eeprom' = eeprom /\ saving' = None
  BY NothingSaved DEF StoreStatus, Idle
<1> HIDE DEF image
<1> QED
  BY <1>1, <1>2, SameKeys, OneImage

LEMMA GenKeysKeys ==
  ASSUME IInv, KeysInv, NEW g \in Pair, GenKeys(g)
  PROVE  KeysInv'
<1> DEFINE Same(f) == f.table = eeprom.table /\ f.keys = eeprom.keys /\ DOMAIN f = DOMAIN eeprom
           withPublic == WithFlag(ram.status, "PUBLIC_KEY")
           withBoth == WithFlag(withPublic, "PRIVATE_KEY")
           e1 == [eeprom EXCEPT !.public = g]
           e2 == [e1 EXCEPT !.status = withPublic]
           e3 == [e1 EXCEPT !.status = withPublic, !.private = g]
           e4 == [e3 EXCEPT !.status = withBoth]
<1>1. todo' = <<e1, e2, e3, e4>> /\ eeprom' = eeprom /\ saving' = None
  BY NothingSaved DEF GenKeys, Idle
<1> HIDE DEF withPublic, withBoth
<1>2. Same(e1) /\ Same(e2) /\ Same(e3) /\ Same(e4)
  <2>1. eeprom \in EEPROM
    BY AtStart DEF GenKeys
  <2> QED
    BY <2>1 DEF EEPROM
<1> HIDE DEF e1, e2, e3, e4
<1>3. \A i \in 1 .. 4 : /\ Before(i)'.table = eeprom.table /\ Before(i)'.keys = eeprom.keys
                        /\ todo'[i].table = eeprom.table /\ todo'[i].keys = eeprom.keys
  BY <1>1, <1>2 DEF Before
<1>4. Len(todo') = 4
  BY <1>1
<1>5. EachOwnKeyOnly'
  BY <1>3, <1>4, SameKeys DEF EachOwnKeyOnly
<1> QED
  BY <1>1, <1>5 DEF KeysInv, Saves

\* A key saved for address 0 is taken for the key of the first free entry.
LEMMA SaveFreeKeys ==
  ASSUME IInv, KeysInv, Idle, NEW public \in Public, saveSSKFor(FREE, public)
  PROVE  KeysInv'
<1> DEFINE key == [private |-> ram.private, public |-> public]
           s == KeyPage(eeprom.table, FREE)
           image == [eeprom EXCEPT !.keys[s] = key]
<1>1. eeprom \in EEPROM /\ ram.table = eeprom.table
  BY AtStart DEF Mirrors
<1>2. /\ eeprom' = eeprom /\ mode' = "running" /\ saving' = [peer |-> FREE, key |-> key]
      /\ todo' = <<image>>
  BY <1>1 DEF saveSSKFor, Idle, ReplaceKey, AddKey
<1>3. image.table = eeprom.table /\ image.keys = [eeprom.keys EXCEPT ![s] = key]
  BY <1>1 DEF EEPROM
<1>4. DOMAIN eeprom.keys = Slot
  BY <1>1 DEF EEPROM
<1> HIDE DEF image, s, key
<1>5. ASSUME NEW p \in Peer, Found(image, p) # Found(eeprom, p)
      PROVE  Found(image, p) = key /\ KeyPage(eeprom.table, p) = s
  <2>1. ssk_has_key(eeprom.table, p) /\ image.keys[KeyPage(eeprom.table, p)] # eeprom.keys[KeyPage(eeprom.table, p)]
    BY <1>3, <1>5 DEF Found
  <2>2. KeyPage(eeprom.table, p) = s
    BY <1>3, <2>1
  <2>3. s \in Slot
    <3>1. CASE s \notin Slot
      BY <1>3, <1>4, <2>1, <2>2, <3>1
    <3> QED
      BY <3>1
  <2> QED
    BY <1>3, <1>4, <2>1, <2>2, <2>3 DEF Found
<1>6. OwnKeyOnly(eeprom, image, saving')
  BY <1>2, <1>5 DEF OwnKeyOnly, s
<1>7. saving'.peer \notin Peer
  BY <1>2, SizeAssumption DEF FREE
<1> QED
  BY <1>2, <1>6, <1>7, OneImage

LEMMA SaveKeys ==
  ASSUME IInv, KeysInv, Idle,
         NEW id \in Peer \cup Sender, id # FREE, NEW public \in Public, saveSSKFor(id, public)
  PROVE  KeysInv'
<1> DEFINE key == [private |-> ram.private, public |-> public]
<1>1. SoundImage(eeprom) /\ eeprom \in EEPROM /\ ram \in RAM /\ ram.table = eeprom.table
  BY AtStart DEF Mirrors
<1>2. /\ eeprom' = eeprom /\ mode' = "running" /\ saving' = [peer |-> id, key |-> key]
      /\ ReplaceKey(id, key) \/ AddKey(id, key)
  BY DEF saveSSKFor, Idle
<1>3. key \in Key
  BY <1>1 DEF RAM, Key
<1>4. id \in 1 .. 254 /\ Peer \subseteq 1 .. 254
  BY SizeAssumption DEF FREE
<1> HIDE DEF key
<1>5. CASE ReplaceKey(id, key)
  <2> DEFINE image(s) == [eeprom EXCEPT !.keys[s] = key]
  <2>1. PICK s \in Slot : eeprom.table[s].node_id = id /\ KeyPage(eeprom.table, id) = s
    BY <1>1, <1>4, <1>5, FoundInSlot DEF ReplaceKey
  <2>2. todo' = <<image(s)>>
    BY <1>1, <1>5, <2>1 DEF ReplaceKey
  <2>3. ASSUME NEW p \in Peer, p # id PROVE Found(image(s), p) = Found(eeprom, p)
    <3>1. p \in 1 .. 254 /\ eeprom.table[s].node_id # p
      BY <1>4, <2>1, <2>3
    <3> QED
      BY <1>1, <3>1, KeyPageChanges
  <2>4. Found(image(s), id) = key
    <3>1. image(s).table = eeprom.table /\ image(s).keys = [eeprom.keys EXCEPT ![s] = key]
      BY <1>1 DEF EEPROM
    <3>2. eeprom.keys \in [Slot -> Key \cup {Erased}]
      BY <1>1 DEF EEPROM
    <3>3. ssk_has_key(eeprom.table, id)
      BY <1>1, <1>5 DEF ReplaceKey
    <3> QED
      BY <2>1, <3>1, <3>2, <3>3 DEF Found
  <2> HIDE DEF image
  <2>5. OwnKeyOnly(eeprom, image(s), saving')
    BY <1>2, <2>3, <2>4 DEF OwnKeyOnly
  <2> QED
    BY <1>2, <2>2, <2>4, <2>5, OneImage
<1>6. CASE AddKey(id, key)
  <2> DEFINE s == ssk_find_free_slot(eeprom.table)
             keyed == [eeprom EXCEPT !.keys[s] = key]
             listed == [keyed EXCEPT !.table = [keyed.table EXCEPT ![s] = [node_id |-> id, key_page |-> s]]]
  <2>1. ~ssk_has_key(eeprom.table, id) /\ s \in Slot /\ eeprom.table[s].node_id = FREE
    BY <1>1, <1>6, FreeSlot DEF AddKey
  <2>2. todo' = <<keyed, listed>>
    <3>1. keyed.table = ram.table
      BY <1>1 DEF EEPROM
    <3> QED
      BY <1>1, <1>6, <3>1 DEF AddKey
  <2> HIDE DEF s
  <2>3. ASSUME NEW p \in Peer PROVE Found(keyed, p) = Found(eeprom, p)
    <3>1. p \in 1 .. 254 /\ eeprom.table[s].node_id # p
      BY <1>4, <2>1 DEF FREE
    <3> QED
      BY <1>1, <2>1, <3>1, KeyPageChanges
  <2>4. SoundImage(keyed) /\ keyed.table = eeprom.table /\ keyed.keys[s] = key
    <3>1. SoundImage(keyed)
      BY <1>1, <1>3, <2>1, KeyWrite
    <3>2. keyed.table = eeprom.table /\ keyed.keys[s] = key
      BY <1>1, <2>1 DEF EEPROM
    <3> QED
      BY <3>1, <3>2
  <2> HIDE DEF keyed
  <2>5. EntryAdded(keyed, listed, s, id)
    <3>1. /\ SoundImage(keyed) /\ s \in Slot /\ keyed.table[s].node_id = FREE /\ id \in 1 .. 254
          /\ ~ssk_has_key(keyed.table, id)
      BY <1>4, <2>1, <2>4
    <3>2. /\ listed.table = [keyed.table EXCEPT ![s] = [node_id |-> id, key_page |-> s]]
          /\ listed.keys = keyed.keys
      BY <3>1 DEF SoundImage, EEPROM
    <3> HIDE DEF listed
    <3>3. /\ listed.table[s].node_id = id /\ listed.table[s].key_page = s
          /\ \A r \in Slot \ {s} : listed.table[r] = keyed.table[r]
      BY <3>1, <3>2 DEF SoundImage, EEPROM, Table
    <3> QED
      BY <3>1, <3>2, <3>3 DEF EntryAdded
  <2> HIDE DEF listed
  <2>6. Found(listed, id) = key
    BY <1>4, <2>1, <2>4, <2>5, EntryAppears
  <2>7. OwnKeyOnly(eeprom, keyed, saving') /\ OwnKeyOnly(keyed, listed, saving')
    <3>1. OthersStay(keyed, listed, id)
      BY <1>4, <2>1, <2>5, OtherEntriesStay
    <3> QED
      BY <1>2, <1>4, <2>3, <2>6, <3>1 DEF OwnKeyOnly, OthersStay
  <2> QED
    BY <1>2, <2>2, <2>6, <2>7, TwoImages
<1> QED
  BY <1>2, <1>5, <1>6

LEMMA BootKeys == ASSUME IInv, KeysInv, Boot PROVE KeysInv'
<1> DEFINE zeroed == [eeprom EXCEPT !.table = ZeroTable]
<1>1. eeprom \in EEPROM /\ eeprom' = eeprom /\ saving' = saving /\ saving = None
      /\ (todo' = <<>> \/ todo' = <<zeroed>>)
  BY DEF IInv, TypeOK, Boot, KeysInv, Saves
<1>2. CASE todo' = <<>>
  BY <1>1, <1>2 DEF KeysInv, EachOwnKeyOnly, Saves
<1>3. CASE todo' = <<zeroed>>
  <2>1. zeroed.table = ZeroTable
    BY <1>1 DEF EEPROM
  <2>2. \A p \in Peer : Found(zeroed, p) = Erased
    BY <2>1, SizeAssumption DEF Found, ssk_has_key, EntriesOf, ZeroTable, FREE
  <2> HIDE DEF zeroed
  <2> QED
    BY <1>1, <1>3, <2>2, OneImage DEF OwnKeyOnly
<1> QED
  BY <1>1, <1>2, <1>3

LEMMA BurnKeys == ASSUME IInv, KeysInv, Burn PROVE KeysInv'
<1>1. /\ eeprom' = eeprom /\ saving' = None /\ 4 + Slots \in Nat
      /\ todo' = [n \in 1 .. 4 + Slots |-> Burnt(n)]
  BY NothingSaved, SizeAssumption DEF Burn, Idle
<1>2. Len(todo') = 4 + Slots /\ \A n \in 1 .. 4 + Slots : todo'[n] = Burnt(n)
  BY <1>1
<1>3. \A n \in 1 .. 4 + Slots : n <= 3 => Burnt(n).table = eeprom.table /\ Burnt(n).keys = eeprom.keys
  <2>1. eeprom.keys = [s \in Slot |-> eeprom.keys[s]]
    BY DEF IInv, TypeOK, EEPROM
  <2>2. \A n \in 1 .. 4 + Slots, s \in Slot : n <= 3 => ~(n > 4 + s)
    BY SizeAssumption DEF Slot
  <2> QED
    BY <1>1, <2>1, <2>2 DEF Burnt
<1>4. \A n \in 1 .. 4 + Slots : n > 3 => \A p \in Peer : Found(Burnt(n), p) = Erased
  BY SizeAssumption DEF Burnt, Found, ssk_has_key, EntriesOf, ErasedTable, UNSET
<1>5. EachOwnKeyOnly'
  <2> SUFFICES ASSUME NEW n \in 1 .. 4 + Slots PROVE OwnKeyOnly(Before(n)', Burnt(n), saving')
    BY <1>2 DEF EachOwnKeyOnly
  <2>1. CASE n > 3
    BY <1>4, <2>1 DEF OwnKeyOnly
  <2>2. CASE n <= 3
    <3>1. Before(n)'.table = eeprom.table /\ Before(n)'.keys = eeprom.keys
      BY <1>1, <1>2, <1>3, <2>2 DEF Before
    <3> QED
      BY <1>3, <2>2, <3>1, SameKeys
  <2> QED
    BY <1>1, <2>1, <2>2
<1> QED
  BY <1>1, <1>5 DEF KeysInv, Saves

LEMMA WritePageKeys == ASSUME IInv, KeysInv, WritePage PROVE KeysInv'
<1>1. /\ todo \in Seq(EEPROM) /\ todo # <<>> /\ eeprom' = todo[1] /\ todo' = Tail(todo) /\ mode' = mode
      /\ saving' = IF Len(todo) = 1 THEN None ELSE saving
  BY DEF IInv, TypeOK, WritePage
<1>2. Len(todo) \in Nat \ {0} /\ Len(Tail(todo)) = Len(todo) - 1
      /\ \A i \in 1 .. Len(todo) - 1 : Tail(todo)[i] = todo[i + 1]
  BY <1>1
<1>3. EachOwnKeyOnly'
  <2> SUFFICES ASSUME NEW i \in 1 .. Len(todo) - 1 PROVE OwnKeyOnly(Before(i)', todo'[i], saving')
    BY <1>1, <1>2 DEF EachOwnKeyOnly
  <2>1. i + 1 \in 1 .. Len(todo) /\ saving' = saving /\ i + 1 # 1 /\ (i + 1) - 1 = i
    BY <1>1, <1>2
  <2>2. OwnKeyOnly(Before(i + 1), todo[i + 1], saving)
    BY <2>1 DEF KeysInv, EachOwnKeyOnly
  <2>3. Before(i)' = todo[i]
    <3>1. CASE i = 1
      BY <1>1, <3>1 DEF Before
    <3>2. CASE i # 1
      <4>1. i - 1 \in 1 .. Len(todo) - 1 /\ (i - 1) + 1 = i
        BY <1>2, <3>2
      <4>2. Tail(todo)[i - 1] = todo[i]
        BY <1>2, <4>1
      <4> QED
        BY <1>1, <3>2, <4>2 DEF Before
    <3> QED
      BY <3>1, <3>2
  <2>4. Before(i + 1) = todo[i]
    BY <2>1 DEF Before
  <2> QED
    BY <1>1, <1>2, <2>1, <2>2, <2>3, <2>4
<1>4. Saves'
  <2>1. CASE Len(todo) = 1
    BY <1>1, <2>1 DEF Saves
  <2>2. CASE Len(todo) # 1
    <3>1. /\ Len(todo') = Len(todo) - 1 /\ Len(todo) - 1 \in 1 .. Len(todo) - 1
          /\ (Len(todo) - 1) + 1 = Len(todo)
      BY <1>1, <1>2, <2>2
    <3>2. todo'[Len(todo')] = todo[Len(todo)] /\ saving' = saving
      BY <1>1, <1>2, <2>2, <3>1
    <3>3. todo' # <<>>
      BY <3>1
    <3> QED
      BY <1>1, <3>2, <3>3 DEF KeysInv, Saves
  <2> QED
    BY <2>1, <2>2
<1> QED
  BY <1>3, <1>4 DEF KeysInv

LEMMA KeysStep == ASSUME IInv, KeysInv, [Next]_vars PROVE KeysInv'
<1>1. CASE Boot
  BY <1>1, BootKeys
<1>2. CASE Handle
  <2>1. ASSUME NEW g \in Pair, GenKeys(g) PROVE KeysInv'
    BY <2>1, GenKeysKeys
  <2>2. ASSUME NEW id \in Id, SetID(id) PROVE KeysInv'
    <3>1. CASE id # 0
      BY <2>2, <3>1, StatusKeys DEF SetID
    <3>2. CASE id = 0
      BY <2>2, <3>2 DEF SetID, Idle, KeysInv, EachOwnKeyOnly, Saves, Before
    <3> QED
      BY <3>1, <3>2
  <2>3. ASSUME NEW password \in Password, SetPassword(password) PROVE KeysInv'
    BY <2>3, StatusKeys DEF SetPassword
  <2>4. ASSUME NEW password \in Password, Auth(password) PROVE KeysInv'
    BY <2>4 DEF Auth, KeysInv, EachOwnKeyOnly, Saves, Before
  <2>5. CASE CommitConfig
    BY <2>5, StatusKeys DEF CommitConfig
  <2>6. ASSUME NEW id \in Peer, NEW public \in Public, HostKey(id, public) PROVE KeysInv'
    <3>1. id # FREE
      BY SizeAssumption DEF FREE
    <3> QED
      BY <2>6, <3>1, SaveKeys DEF HostKey
  <2>7. ASSUME NEW id \in Sender, NEW public \in Public, PubKeyPacket(id, public) PROVE KeysInv'
    BY <2>7, SaveKeys, SaveFreeKeys DEF PubKeyPacket
  <2> QED
    BY <1>2, <2>1, <2>2, <2>3, <2>4, <2>5, <2>6, <2>7 DEF Handle
<1>3. CASE Burn
  BY <1>3, BurnKeys
<1>4. CASE WritePage
  BY <1>4, WritePageKeys
<1>5. CASE Reset \/ PowerCut
  BY <1>5 DEF Reset, PowerCut, Off, KeysInv, EachOwnKeyOnly, Saves
<1>6. CASE UNCHANGED vars
  BY <1>6 DEF vars, KeysInv, EachOwnKeyOnly, Saves, Before
<1> QED
  BY <1>1, <1>2, <1>3, <1>4, <1>5, <1>6 DEF Next

LEMMA KeysAlways == Spec => [](IInv /\ KeysInv)
<1>1. Init => KeysInv
  BY DEF Init, KeysInv, EachOwnKeyOnly, Saves
<1>2. IInv /\ KeysInv /\ [Next]_vars => (IInv /\ KeysInv)'
  BY IInvIsInductive, KeysStep
<1> QED
  BY <1>1, <1>2, InitSound, PTL DEF Spec

\* Only a page write changes what the EEPROM holds.
LEMMA OnlyPagesChangeBook ==
  ASSUME IInv, [Next]_vars, ~WritePage
  PROVE  Book' = Book
<1>1. eeprom' = eeprom
  BY DEF Next, Handle, Boot, GenKeys, SetID, SetPassword, Auth, CommitConfig, StoreStatus,
         HostKey, PubKeyPacket, saveSSKFor, Burn, Reset, PowerCut, Off, vars
<1> QED
  BY <1>1 DEF Book, ssk_read_key

\* A peer's session key changes in the EEPROM only while it is being saved, or when
\* the whole table goes, whatever the page at which power is cut; or when a packet
\* comes from address 0, and then it is the key in the page of the free entries.
THEOREM OnlyOwnKeysChange == Spec => OnlyOwnKeyChanges
<1> DEFINE A == \A id \in Peer : Book'[id] # Book[id] =>
                  \/ saving = [peer |-> id, key |-> Book'[id]]
                  \/ Book' = [p \in Peer |-> Erased]
                  \/ /\ saving = [peer |-> FREE, key |-> Book'[id]]
                     /\ KeyPage(eeprom.table, id) = KeyPage(eeprom.table, FREE)
<1>1. IInv /\ KeysInv /\ [Next]_vars => A
  <2> SUFFICES ASSUME IInv, KeysInv, [Next]_vars PROVE A
    OBVIOUS
  <2>1. CASE WritePage
    <3>1. eeprom' = todo[1] /\ 1 \in 1 .. Len(todo)
      BY <2>1 DEF WritePage, IInv, TypeOK
    <3>2. OwnKeyOnly(eeprom, eeprom', saving)
      BY <3>1 DEF KeysInv, EachOwnKeyOnly, Before
    <3>3. Book = [p \in Peer |-> Found(eeprom, p)] /\ Book' = [p \in Peer |-> Found(eeprom', p)]
      BY DEF Book, Found, ssk_read_key
    <3> QED
      BY <3>2, <3>3 DEF OwnKeyOnly
  <2>2. CASE ~WritePage
    BY <2>2, OnlyPagesChangeBook
  <2> QED
    BY <2>1, <2>2
<1>2. IInv /\ KeysInv /\ [Next]_vars => [A]_vars
  BY <1>1
<1> QED
  BY <1>2, KeysAlways, PTL DEF Spec, OnlyOwnKeyChanges

\* When ssk_set_key is done, the key it was given is the one that is found.
THEOREM SavedKeysAreFound == Spec => SavedKeyIsFound
<1> DEFINE A == saving # None /\ saving' = None /\ mode' = "running" /\ saving.peer \in Peer
                  => Book'[saving.peer] = saving.key
<1>1. IInv /\ KeysInv /\ [Next]_vars => A
  <2> SUFFICES ASSUME IInv, KeysInv, [Next]_vars, saving # None, saving' = None,
                      mode' = "running", saving.peer \in Peer
               PROVE  Book'[saving.peer] = saving.key
    OBVIOUS
  <2>1. todo # <<>> /\ Found(todo[Len(todo)], saving.peer) = saving.key /\ mode = "running"
    BY DEF KeysInv, Saves
  <2>2. WritePage
    BY <2>1 DEF Next, Handle, Boot, GenKeys, SetID, SetPassword, Auth, CommitConfig, StoreStatus,
         HostKey, PubKeyPacket, Burn, Reset, PowerCut, Off, Idle, vars
  <2>3. eeprom' = todo[Len(todo)]
    BY <2>2 DEF WritePage, IInv, TypeOK
  <2>4. Book' = [p \in Peer |-> Found(eeprom', p)]
    BY DEF Book, Found, ssk_read_key
  <2> QED
    BY <2>1, <2>3, <2>4
<1>2. IInv /\ KeysInv /\ [Next]_vars => [A]_vars
  BY <1>1
<1> QED
  BY <1>2, KeysAlways, PTL DEF Spec, SavedKeyIsFound
=============================================================================
