------------------------------- MODULE Cipher -------------------------------
(***************************************************************************)
(* The client-side cipher (client/src/cipher.rs): names become chained     *)
(* pseudonyms, values are sealed with their target and device tag as       *)
(* associated data, and whatever the relay hands back must open to a       *)
(* mutation some device sealed.  HKDF, HMAC and the AEAD are ideal: a      *)
(* derived key or a tag is the tuple of what it was derived from.          *)
(*                                                                         *)
(* The machine has a device that seals up to MaxSealed mutations of one    *)
(* space and a relay that delivers an entry as sealed, or with one of its  *)
(* fields taken from another sealed entry.                                 *)
(***************************************************************************)
EXTENDS KeyRanges, SequencesExt, Integers

CONSTANTS NameKeys,  \* name keys, one space each
          Epochs,    \* cipher epochs; V1_CIPHER_EPOCH is 0
          CipherKeys, PlainValues, \* user keys and user values (byte sequences)
          Sequences_of_device,     \* device sequences a tag may carry
          MaxSealed

VARIABLES envelope, sealed, delivered

cipherVars == <<envelope, sealed, delivered>>

V1_CIPHER_EPOCH == 0

SetFrameV1 == 1

derive_space_id(name_key) == <<"space-id", name_key>>

(***************************************************************************)
(* Names.  A path key is the name key followed by the components below it. *)
(***************************************************************************)
component_pseudonym(path_key, component) == [mac |-> path_key, component |-> component]

child_name_key(path_key, component) == Append(path_key, component)

encode_name_key(name_key, key) ==
  FoldLeft(LAMBDA acc, component :
             [out |-> Append(acc.out, component_pseudonym(acc.path, component)),
              path |-> child_name_key(acc.path, component)],
           [out |-> <<>>, path |-> <<name_key>>], key).out

(***************************************************************************)
(* Envelopes and ciphers.                                                  *)
(***************************************************************************)
EncryptedEnvelope(name_key, epochs) ==
  [kind |-> "Encrypted", name_key |-> name_key, space_keys |-> epochs, space |-> derive_space_id(name_key)]

PlaintextEnvelope(name_key) ==
  [kind |-> "Plaintext", name_key |-> name_key, space_keys |-> {}, space |-> derive_space_id(name_key)]

\* A space's value keys by epoch; a key is known only through its envelope.
open_expected(env, expected) ==
  /\ env.space = expected
  /\ env.kind = "Encrypted" => V1_CIPHER_EPOCH \in env.space_keys

encode_key(env, key) == IF env.kind = "Plaintext" THEN key ELSE encode_name_key(env.name_key, key)

encode_range(env, range) == IF range = Full THEN Full ELSE encode_key(env, range)

\* seal_aad: scheme, operation kind, tag and encoded target.
seal_aad_without_kind(target, kind, tag) == [target |-> target, kind |-> "", tag |-> tag]

seal_aad(target, kind, tag) == [target |-> target, kind |-> kind, tag |-> tag]

EmptySeal == [nonce |-> 0, aead |-> <<>>]

\* Under one key and nonce the AEAD keystream hides the plaintext and the tag binds
\* key, nonce, associated data and ciphertext.
Aead(env, tag, nonce, aad, text) == <<env.name_key, tag.epoch, nonce, aad, text>>

seal_detached(env, target, kind, plaintext, tag, nonce) ==
  IF env.kind = "Plaintext" THEN [seal |-> EmptySeal, text |-> plaintext]
  ELSE [seal |-> [nonce |-> nonce,
                  aead |-> Aead(env, tag, nonce, seal_aad(target, kind, tag), plaintext)],
        text |-> plaintext]

open_detached(env, target, kind, text, seal, tag) ==
  IF env.kind = "Plaintext" THEN <<text>>
  ELSE IF /\ tag.epoch \in env.space_keys
          /\ seal.aead = Aead(env, tag, seal.nonce, seal_aad(target, kind, tag), text)
       THEN <<text>> ELSE <<>>

encode_device_entry(env, m, tag, nonce) ==
  LET framed == IF m.kind = "Set" /\ env.kind = "Encrypted" THEN <<SetFrameV1>> \o m.value ELSE m.value
      done   == seal_detached(env, m.target, m.kind, framed, tag, nonce)
  IN  [kind |-> m.kind, target |-> m.target, value |-> done.text, tag |-> tag, seal |-> done.seal]

open_admitted_entry(env, entry) ==
  LET mutation(value) == [kind |-> entry.kind, target |-> entry.target, value |-> value]
      plain == open_detached(env, entry.target, entry.kind,
                             IF entry.kind = "Set" THEN entry.value ELSE <<>>, entry.seal, entry.tag)
  IN  IF env.kind = "Plaintext" THEN <<mutation(entry.value)>>
      ELSE IF plain = <<>> THEN <<>>
      ELSE IF entry.kind = "Set"
           THEN IF plain[1] /= <<>> /\ Head(plain[1]) = SetFrameV1 THEN <<mutation(Tail(plain[1]))>> ELSE <<>>
      ELSE IF plain[1] = <<>> THEN <<mutation(<<>>)>> ELSE <<>>

(***************************************************************************)
(* The machine.                                                            *)
(***************************************************************************)
Mutations(env) ==
  [kind : {"Set"}, target : {encode_key(env, key) : key \in CipherKeys}, value : PlainValues]
  \cup [kind : {"Delete"}, target : {encode_key(env, key) : key \in CipherKeys}, value : {<<>>}]
  \cup [kind : {"DeleteRange"}, target : {encode_range(env, r) : r \in CipherKeys \cup {Full}}, value : {<<>>}]

CipherInit ==
  /\ envelope \in {EncryptedEnvelope(k, e) : k \in NameKeys, e \in SUBSET Epochs}
                  \cup {PlaintextEnvelope(k) : k \in NameKeys}
  /\ open_expected(envelope, envelope.space)
  /\ sealed = <<>> /\ delivered = <<>>

\* A device seals a mutation under a fresh nonce; a missing epoch key refuses it.
SealEntry(m, seq, epoch) ==
  LET tag == [epoch |-> epoch, seq |-> seq]
      nonce == Len(sealed) + 1
  IN  /\ Len(sealed) < MaxSealed /\ delivered = <<>>
      /\ envelope.kind = "Encrypted" => epoch \in envelope.space_keys
      /\ sealed' = Append(sealed, [plain |-> m, entry |-> encode_device_entry(envelope, m, tag, nonce)])
      /\ UNCHANGED <<envelope, delivered>>

EntryFields == {"kind", "target", "value", "tag", "seal"}

\* The relay returns an entry, possibly with some fields of another one.
Deliver(i, j, fields) ==
  /\ delivered = <<>>
  /\ delivered' = <<[field \in EntryFields |->
                      IF field \in fields THEN sealed[j].entry[field] ELSE sealed[i].entry[field]]>>
  /\ UNCHANGED <<envelope, sealed>>

CipherNext ==
  \/ \E m \in Mutations(envelope), seq \in Sequences_of_device, epoch \in Epochs : SealEntry(m, seq, epoch)
  \/ \E i, j \in DOMAIN sealed : \E fields \in SUBSET EntryFields : Deliver(i, j, fields)

(***************************************************************************)
(* Properties.                                                             *)
(***************************************************************************)

\* open_admitted_entry accepts, in an encrypted space, only what some device sealed:
\* its kind, target and user value are those of one sealed mutation, under that
\* mutation's own device tag.  No field of another entry can be substituted.
OnlySealedOpens ==
  delivered /= <<>> /\ envelope.kind = "Encrypted" =>
    LET opened == open_admitted_entry(envelope, delivered[1])
    IN  opened /= <<>> => \E i \in DOMAIN sealed :
          sealed[i].plain = opened[1] /\ sealed[i].entry.tag = delivered[1].tag

\* An entry that was relayed unchanged opens to exactly the mutation that was sealed,
\* an empty set included, in both modes.
SealedEntriesOpen ==
  \A i \in DOMAIN sealed : open_admitted_entry(envelope, sealed[i].entry) = <<sealed[i].plain>>

\* Pseudonyms keep the prefix structure every range operation relies on and nothing
\* more: an encoded key lies below an encoded prefix exactly when the key lies below
\* the prefix, distinct keys stay distinct, and one component has the same pseudonym
\* only under the same parent.
PseudonymsKeepPrefixes ==
  sealed = <<>> => \A a, b \in CipherKeys :
    LET x == encode_key(envelope, a)  y == encode_key(envelope, b)
    IN  /\ starts_with(x, y) <=> starts_with(a, b)
        /\ envelope.kind = "Encrypted" =>
             \A i \in DOMAIN x, j \in DOMAIN y : x[i] = y[j] => SubSeq(a, 1, i) = SubSeq(b, 1, j)

\* What was sealed opens, what opens was sealed, and hidden names keep their place.
SealingIsExact == OnlySealedOpens /\ SealedEntriesOpen /\ PseudonymsKeepPrefixes
=============================================================================
