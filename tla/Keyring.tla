------------------------------ MODULE Keyring -------------------------------
(***************************************************************************)
(* A node's keyring as a value, and what AddKey, UseKey and RemoveKey make *)
(* of it.  The keys are a set: AddKey keeps the slice free of duplicates,  *)
(* and the order, the primary key first, only decides which key is tried   *)
(* first.  Each operation holds the keyring's lock from start to end.      *)
(***************************************************************************)
CONSTANTS
  Key,             \* keys of a valid size
  NoKey            \* a nil primaryKey; no encryption

ASSUME KeyAssumption == NoKey \notin Key

AddKey(r, k) == [primaryKey |-> r.primaryKey, keys |-> r.keys \cup {k}]

\* A key that is not in the keyring is refused.
UseKey(r, k) == IF k \in r.keys THEN [primaryKey |-> k, keys |-> r.keys] ELSE r

\* Slip of RemoveKey: the primary key is removed like any other.
RemoveKeyUnchecked(r, k) == [primaryKey |-> r.primaryKey, keys |-> r.keys \ {k}]

\* The primary key is refused.
RemoveKey(r, k) == IF k = r.primaryKey THEN r ELSE [primaryKey |-> r.primaryKey, keys |-> r.keys \ {k}]

\* m.keyring is nil, or a new one is still empty.
NoKeyring == [primaryKey |-> NoKey, keys |-> {}]

\* The primary key first, then the other keys.
NewKeyring(keys, primaryKey) ==
  LET r == UseKey(AddKey(NoKeyring, primaryKey), primaryKey)
  IN  [primaryKey |-> r.primaryKey, keys |-> r.keys \cup keys]

\* A keyring without a primary key has nothing to decrypt with.
GetKeys(r) == IF r.primaryKey = NoKey THEN {} ELSE r.keys \cup {r.primaryKey}

EncryptionEnabled(r) == GetKeys(r) # {}

GetPrimaryKey(r) == r.primaryKey

\* A message on the wire: the key it is encrypted with, and what it carries.
encrypt(key, msg) == [key |-> key, msg |-> msg]

\* One of the keys opens what was encrypted with it and with the same label; what
\* was not encrypted none opens.
decryptWithKeys(keys, p) == p.key \in keys

\* On a stream the type and the size come first and are authenticated with the rest.
encryptTcp(key, msg) == encrypt(key, msg)
decryptTcp(keys, p) == decryptWithKeys(keys, p)

\* Compression and checksum are undone exactly by unpackPacket and unpackStream.
packUdp(r, msg) == encrypt(IF EncryptionEnabled(r) THEN GetPrimaryKey(r) ELSE NoKey, msg)
packTcp(r, msg) == encryptTcp(IF EncryptionEnabled(r) THEN GetPrimaryKey(r) ELSE NoKey, msg)

\* Whether a packet is read.  Without encryption, what another node encrypted does
\* not start with hasCrcMsg.
unpackPacket(r, p) == IF EncryptionEnabled(r) THEN decryptWithKeys(GetKeys(r), p) ELSE p.key = NoKey

\* Whether a stream is read.  encryptMsg, its first byte, says if it is encrypted.
unpackStream(r, p) ==
  LET encrypted == p.key # NoKey
  IN  /\ EncryptionEnabled(r) <=> encrypted
      /\ encrypted => decryptTcp(GetKeys(r), p)
=============================================================================
