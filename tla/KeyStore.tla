------------------------------ MODULE KeyStore -------------------------------
(***************************************************************************)
(* keys.c with its users in app/main.c.  The EEPROM keeps the status, the  *)
(* node's own key pair, a table of peers and one page for the session key  *)
(* of each; RAM keeps copies of all but the session keys.                  *)
(*                                                                         *)
(* A handler changes RAM and then the EEPROM, page by page, and power may  *)
(* go between any two pages (the write of one page is atomic).  The timer  *)
(* interrupt touches nothing of this, so a handler's changes to RAM happen *)
(* at once, and `todo' holds what the EEPROM will be after each of its     *)
(* page writes.                                                            *)
(***************************************************************************)
EXTENDS Integers, Sequences, FiniteSetsExt

CONSTANTS
  Peer,     \* addresses of the other nodes
  Sender,   \* the source addresses of public key packets
  Id,       \* the node ids the host sets
  Pair,     \* the key pairs this node may generate
  Public,   \* the public keys of others
  Password,
  Slots,    \* MAX_KEY_SLOTS
  Erased,   \* the contents of an erased page
  None

FREE  == 0   \* the node id of a free table entry
UNSET == 255 \* FLAGS_UNSET, an erased byte

Slot == 0 .. Slots - 1
\* A session key comes from this node's private key and the other's public key.
Key == [private : Pair \cup {Erased}, public : Public]

ASSUME SizeAssumption == /\ Slots \in 1 .. 60
                         /\ Peer \subseteq 1 .. 254
                         /\ Sender \subseteq 0 .. 254
                         /\ Id \subseteq 0 .. 254
ASSUME ErasedAssumption == Erased \notin Pair \cup Password \cup Key

Components == {"PRIVATE_KEY", "PUBLIC_KEY", "NODE_ID", "PASSWORD"}
Flags == Components \cup {"CONFIGURED"}  \* a flag is set when its bit is 0

Status == [node_id : 0 .. 255, password : Password \cup {Erased}, flags : SUBSET Flags]
Table == [Slot -> [node_id : 0 .. 255, key_page : Slot \cup {UNSET}]]

RAM == [status : Status, private : Pair \cup {Erased}, public : Pair \cup {Erased}, table : Table]
EEPROM == [status : Status, private : Pair \cup {Erased}, public : Pair \cup {Erased},
           table : Table, keys : [Slot -> Key \cup {Erased}]]

VARIABLES
  eeprom,
  ram,
  todo,          \* the EEPROM after each page write still to come
  mode,          \* "off", "running", or "burning" once BURN was read
  authenticated,
  saving         \* the arguments of ssk_set_key while its writes are under way

vars == <<eeprom, ram, todo, mode, authenticated, saving>>

ErasedStatus == [node_id |-> UNSET, password |-> Erased, flags |-> {}]
ErasedTable == [s \in Slot |-> [node_id |-> UNSET, key_page |-> UNSET]]
ZeroTable == [s \in Slot |-> [node_id |-> FREE, key_page |-> 0]]

Init == /\ eeprom = [status |-> ErasedStatus, private |-> Erased, public |-> Erased,
                     table |-> ErasedTable, keys |-> [s \in Slot |-> Erased]]
        /\ ram = [status |-> ErasedStatus, private |-> Erased, public |-> Erased, table |-> ErasedTable]
        /\ todo = <<>>
        /\ mode = "off"
        /\ authenticated = FALSE
        /\ saving = None

Idle == mode = "running" /\ todo = <<>>

device_configured(status) == "CONFIGURED" \in status.flags
all_components_configured(status) == Components \subseteq status.flags
WithFlag(status, flag) == [status EXCEPT !.flags = @ \cup {flag}]

EntriesOf(table, id) == {s \in Slot : table[s].node_id = id}
ssk_has_key(table, id) == EntriesOf(table, id) # {}
KeyPage(table, id) == table[Min(EntriesOf(table, id))].key_page
\* Wrong on purpose: a free slot is found, and the first one returned.
freeSlotIsFirst(table) == 0
ssk_find_free_slot(table) == Min(EntriesOf(table, FREE))

-----------------------------------------------------------------------------
(* The main loop. *)

\* Wrong on purpose: the table is loaded before it is reset.
BootStale ==
  /\ mode = "off"
  /\ mode' = "running"
  /\ ram' = [status  |-> [eeprom.status EXCEPT !.node_id = IF @ = UNSET THEN 0 ELSE @],
             private |-> eeprom.private,
             public  |-> eeprom.public,
             table   |-> eeprom.table]
  /\ todo' = IF device_configured(eeprom.status) THEN <<>> ELSE <<[eeprom EXCEPT !.table = ZeroTable]>>
  /\ UNCHANGED <<eeprom, authenticated, saving>>

\* Wrong on purpose: an unconfigured device keeps the table it finds.
BootKeepingTable ==
  /\ mode = "off"
  /\ mode' = "running"
  /\ ram' = [status  |-> [eeprom.status EXCEPT !.node_id = IF @ = UNSET THEN 0 ELSE @],
             private |-> eeprom.private,
             public  |-> eeprom.public,
             table   |-> eeprom.table]
  /\ UNCHANGED <<eeprom, todo, authenticated, saving>>

\* checkSetup.  The id of an erased status page becomes 0 in RAM only.
Boot ==
  /\ mode = "off"
  /\ mode' = "running"
  /\ LET configured == device_configured(eeprom.status)
     IN  /\ ram' = [status  |-> [eeprom.status EXCEPT !.node_id = IF @ = UNSET THEN 0 ELSE @],
                    private |-> eeprom.private,
                    public  |-> eeprom.public,
                    table   |-> IF configured THEN eeprom.table ELSE ZeroTable]
         /\ todo' = IF configured THEN <<>> ELSE <<[eeprom EXCEPT !.table = ZeroTable]>>
  /\ UNCHANGED <<eeprom, authenticated, saving>>

\* Wrong on purpose: the flags are stored before the keys.
GenKeysFlagsFirst(g) ==
  /\ Idle
  /\ LET status == [ram.status EXCEPT !.flags = @ \cup {"PRIVATE_KEY", "PUBLIC_KEY"}]
         flagged == [eeprom EXCEPT !.status = status]
         public == [flagged EXCEPT !.public = g]
     IN  /\ ram' = [ram EXCEPT !.public = g, !.private = g, !.status = status]
         /\ todo' = <<flagged, public, [public EXCEPT !.private = g]>>
  /\ UNCHANGED <<eeprom, mode, authenticated, saving>>

\* The public key and its flag, then the private key and its flag.
GenKeys(g) ==
  /\ Idle
  /\ LET withPublic == WithFlag(ram.status, "PUBLIC_KEY")
         withBoth == WithFlag(withPublic, "PRIVATE_KEY")
         public == [eeprom EXCEPT !.public = g]
         private == [public EXCEPT !.status = withPublic, !.private = g]
     IN  /\ ram' = [ram EXCEPT !.public = g, !.private = g, !.status = withBoth]
         /\ todo' = <<public, [public EXCEPT !.status = withPublic],
                      private, [private EXCEPT !.status = withBoth]>>
  /\ UNCHANGED <<eeprom, mode, authenticated, saving>>

StoreStatus(status) == /\ ram' = [ram EXCEPT !.status = status]
                       /\ todo' = <<[eeprom EXCEPT !.status = status]>>
                       /\ UNCHANGED <<eeprom, mode, authenticated, saving>>

\* An id of 0 is not stored, until another change stores the whole page.
SetID(id) ==
  /\ Idle
  /\ LET status == [ram.status EXCEPT !.node_id = id]
     IN  IF id # 0
         THEN StoreStatus(WithFlag(status, "NODE_ID"))
         ELSE /\ ram' = [ram EXCEPT !.status = status]
              /\ UNCHANGED <<eeprom, todo, mode, authenticated, saving>>

SetPassword(password) ==
  /\ Idle
  /\ StoreStatus(WithFlag([ram.status EXCEPT !.password = password], "PASSWORD"))

Auth(password) ==
  /\ Idle
  /\ device_configured(ram.status)
  /\ authenticated' = (password = ram.status.password)
  /\ UNCHANGED <<eeprom, ram, todo, mode, saving>>

CommitConfig ==
  /\ Idle
  /\ all_components_configured(ram.status)
  /\ StoreStatus(WithFlag(ram.status, "CONFIGURED"))

-----------------------------------------------------------------------------
(* ssk_set_key.  A peer without an entry is refused when no entry is free. *)

ReplaceKey(id, key) ==
  /\ ssk_has_key(ram.table, id)
  /\ KeyPage(ram.table, id) < Slots
  /\ todo' = <<[eeprom EXCEPT !.keys[KeyPage(ram.table, id)] = key]>>
  /\ UNCHANGED ram

\* Wrong on purpose: the table is stored before the key.
AddKeyTableFirst(id, key) ==
  /\ ~ssk_has_key(ram.table, id)
  /\ ssk_has_key(ram.table, FREE)
  /\ LET s == ssk_find_free_slot(ram.table)
         table == [ram.table EXCEPT ![s] = [node_id |-> id, key_page |-> s]]
         listed == [eeprom EXCEPT !.table = table]
     IN  /\ todo' = <<listed, [listed EXCEPT !.keys[s] = key]>>
         /\ ram' = [ram EXCEPT !.table = table]

\* Wrong on purpose: the entry stays in RAM.
AddKeyUnlisted(id, key) ==
  /\ ~ssk_has_key(ram.table, id)
  /\ ssk_has_key(ram.table, FREE)
  /\ LET s == ssk_find_free_slot(ram.table)
     IN  /\ todo' = <<[eeprom EXCEPT !.keys[s] = key]>>
         /\ ram' = [ram EXCEPT !.table[s] = [node_id |-> id, key_page |-> s]]

\* Wrong on purpose: the entry holds the number of the page, not of the slot.
AddKeyByPage(id, key) ==
  /\ ~ssk_has_key(ram.table, id)
  /\ ssk_has_key(ram.table, FREE)
  /\ LET s == ssk_find_free_slot(ram.table)
         table == [ram.table EXCEPT ![s] = [node_id |-> id, key_page |-> 4 + s]]
         keyed == [eeprom EXCEPT !.keys[s] = key]
     IN  /\ todo' = <<keyed, [keyed EXCEPT !.table = table]>>
         /\ ram' = [ram EXCEPT !.table = table]

\* "Store the key first", then the table.
AddKey(id, key) ==
  /\ ~ssk_has_key(ram.table, id)
  /\ ssk_has_key(ram.table, FREE)
  /\ LET s == ssk_find_free_slot(ram.table)
         table == [ram.table EXCEPT ![s] = [node_id |-> id, key_page |-> s]]
         keyed == [eeprom EXCEPT !.keys[s] = key]
     IN  /\ todo' = <<keyed, [keyed EXCEPT !.table = table]>>
         /\ ram' = [ram EXCEPT !.table = table]

saveSSKFor(id, public) ==
  LET key == [private |-> ram.private, public |-> public]
  IN  /\ ReplaceKey(id, key) \/ AddKey(id, key)
      /\ saving' = [peer |-> id, key |-> key]
      /\ UNCHANGED <<eeprom, mode, authenticated>>

\* The host names a peer and its public key (address 0 is turned down).
HostKey(id, public) ==
  Idle /\ authenticated /\ device_configured(ram.status) /\ saveSSKFor(id, public)

\* A node sends its public key; main asks neither for a password nor for its id.
PubKeyPacket(id, public) == Idle /\ saveSSKFor(id, public)

-----------------------------------------------------------------------------
\* burn_memory erases the pages in order; Burnt(n) is what the first n leave.
Burnt(n) ==
  [status  |-> IF n > 0 THEN ErasedStatus ELSE eeprom.status,
   private |-> IF n > 1 THEN Erased ELSE eeprom.private,
   public  |-> IF n > 2 THEN Erased ELSE eeprom.public,
   table   |-> IF n > 3 THEN ErasedTable ELSE eeprom.table,
   keys    |-> [s \in Slot |-> IF n > 4 + s THEN Erased ELSE eeprom.keys[s]]]

Burn == /\ Idle
        /\ mode' = "burning"
        /\ todo' = [n \in 1 .. 4 + Slots |-> Burnt(n)]
        /\ UNCHANGED <<eeprom, ram, authenticated, saving>>

\* The next page write of the handler at work.
WritePage == /\ todo # <<>>
             /\ eeprom' = Head(todo)
             /\ todo' = Tail(todo)
             /\ saving' = IF Len(todo) = 1 THEN None ELSE saving
             /\ UNCHANGED <<ram, mode, authenticated>>

Off == /\ mode' = "off"
       /\ ram' = [status |-> ErasedStatus, private |-> Erased, public |-> Erased, table |-> ErasedTable]
       /\ todo' = <<>>
       /\ authenticated' = FALSE
       /\ saving' = None
       /\ UNCHANGED eeprom

\* The software reset after the last page is erased.
Reset == mode = "burning" /\ todo = <<>> /\ Off

PowerCut == mode # "off" /\ Off

Handle == \/ \E g \in Pair : GenKeys(g)
          \/ \E id \in Id : SetID(id)
          \/ \E password \in Password : SetPassword(password) \/ Auth(password)
          \/ CommitConfig
          \/ \E id \in Peer, public \in Public : HostKey(id, public)
          \/ \E id \in Sender, public \in Public : PubKeyPacket(id, public)

Next == Boot \/ Handle \/ Burn \/ WritePage \/ Reset \/ PowerCut

Spec == Init /\ [][Next]_vars

-----------------------------------------------------------------------------
TypeOK == /\ eeprom \in EEPROM
          /\ ram \in RAM
          /\ todo \in Seq(EEPROM)
          /\ mode \in {"off", "running", "burning"}
          /\ authenticated \in BOOLEAN
          /\ saving \in [peer : Peer \cup Sender, key : Key] \cup {None}

\* A flag in the EEPROM vouches for what it names, wherever power was cut, also
\* in the middle of burn_memory: the page is written before the flag and erased
\* after it.
Vouched(e) ==
  LET set == e.status.flags
  IN  /\ "PRIVATE_KEY" \in set => e.private # Erased
      /\ "PUBLIC_KEY" \in set => e.public # Erased
      /\ "PASSWORD" \in set => e.status.password # Erased
      /\ "NODE_ID" \in set => e.status.node_id # UNSET
FlagsMeanStored == Vouched(eeprom)

\* A device that starts as configured has every component and a table that was
\* reset before: checkSetup takes it as it is, without looking at them.
Complete(e) ==
  device_configured(e.status) => all_components_configured(e.status) /\ e.table # ErasedTable
ConfiguredIsComplete == Complete(eeprom)

\* An entry of the stored table leads to a stored key, in the page of its own
\* slot, and no peer has two: ssk_read_key never hands out an erased page.
Listed(e) == {s \in Slot : e.table[s].node_id \notin {FREE, UNSET}}
Keyed(e) ==
  /\ \A s \in Listed(e) : e.table[s].key_page = s /\ e.keys[s] # Erased
  /\ \A s, r \in Listed(e) : e.table[s].node_id = e.table[r].node_id => s = r
EntriesHaveKeys == Keyed(eeprom)

\* Session keys are made of the private key in RAM, and ssk_set_key writes the
\* table in RAM back whole: between handlers, both are what the EEPROM holds,
\* wherever power was cut before, or an entry would come back or be lost.  (The
\* node id is another matter: keys.h:66 has every setter back its change by the
\* EEPROM, and set_node_id(0) does not.)
CacheIsCurrent ==
  Idle => /\ ram.private = eeprom.private /\ ram.public = eeprom.public
          /\ ram.table = eeprom.table

\* The session key each peer has in the EEPROM.
ssk_read_key(page) == eeprom.keys[page]
Book == [id \in Peer |-> IF ssk_has_key(eeprom.table, id) THEN ssk_read_key(KeyPage(eeprom.table, id)) ELSE Erased]

\* Whose key a call of ssk_set_key changes.  A peer's key changes by a call for
\* that peer, or when all entries go at once (a reset of the table); and by a
\* packet from address 0, which a node without an id sends and nobody turns down:
\* a free entry is one of node id 0, so the key lands in the page that free
\* entries name, and the peer with that page loses its own.
OnlyOwnKeyChanges ==
  [][\A id \in Peer : Book'[id] # Book[id] =>
        \/ saving = [peer |-> id, key |-> Book'[id]]
        \/ Book' = [p \in Peer |-> Erased]
        \/ /\ saving = [peer |-> FREE, key |-> Book'[id]]
           /\ KeyPage(eeprom.table, id) = KeyPage(eeprom.table, FREE)]_vars

\* When ssk_set_key has done its writes, its key is the one that is found.
SavedKeyIsFound ==
  [][saving # None /\ saving' = None /\ mode' = "running" /\ saving.peer \in Peer
       => Book'[saving.peer] = saving.key]_vars
=============================================================================
