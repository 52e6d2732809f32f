------------------------------ MODULE AuditLog ------------------------------
(***************************************************************************)
(* The device-local audit log (lp-vault/src/audit.rs and the row codec of  *)
(* account.rs): the kinds of record, the columns a record is spread over,  *)
(* the canonical bytes its successor hashes, and the walk that verifies    *)
(* the chain.  Bytes, ids and counters are naturals, a string is a         *)
(* sequence of bytes, a hash is the sequence it was taken over: BLAKE3 is  *)
(* external and taken to be injective.                                     *)
(***************************************************************************)
EXTENDS Integers, Sequences, FiniteSets

CONSTANT Null           \* SQL NULL and Rust's None

\* NULL is no value a column holds
ASSUME ValueAssumption == Null \notin Nat /\ Null \notin Seq(Nat)

-----------------------------------------------------------------------------
(* Kinds and sources.                                                      *)

\* AuditKind::code: the wire byte of each kind
Code == [unlock_success |-> 1, unlock_failure |-> 2, item_secret_read |-> 3,
         item_create |-> 4, item_update |-> 5, item_delete |-> 6, item_restore |-> 7,
         export |-> 8, vault_share |-> 9, device_trust |-> 10,
         pairing_mode_enabled |-> 11, pairing_mode_disabled |-> 12, access_denied |-> 13,
         agent_fill_mode_enabled |-> 14, agent_fill_mode_disabled |-> 15,
         nearby_listen_enabled |-> 16, nearby_listen_disabled |-> 17, nearby_sync |-> 18]

Label == DOMAIN Code

ItemChange == {"item_create", "item_update", "item_delete", "item_restore"}

\* the data a kind carries
KindFields(label) ==
  CASE label = "item_secret_read" -> {"item_id", "vault_id", "field"}
    [] label \in ItemChange       -> {"item_id", "vault_id"}
    [] label = "export"           -> {"format", "item_count"}
    [] label = "vault_share"      -> {"vault_id", "peer_device_id"}
    [] label \in {"device_trust", "nearby_sync"} -> {"peer_device_id"}
    [] label = "access_denied"    -> {"deny_reason"}
    [] OTHER                      -> {}

\* AuditSource::code / from_code: an unknown byte reads as Unknown
SourceCode == [unknown |-> 0, cli |-> 1, gui |-> 2, mcp |-> 3, native_host |-> 4,
               ssh_agent |-> 5, daemon |-> 6]

\* AuditOrigin: who caused a record, as far as it identified itself
OptStr == Seq(Nat) \cup {Null}
AuditOrigin == [source : DOMAIN SourceCode, process : OptStr, pid : Nat \cup {Null}]

\* no attribution at all is told from one of unknown parts
ASSUME OriginAssumption == Null \notin AuditOrigin

SourceFromCode(c) ==
  IF \E s \in DOMAIN SourceCode : SourceCode[s] = c
    THEN CHOOSE s \in DOMAIN SourceCode : SourceCode[s] = c
    ELSE "unknown"

\* AuditOrigin::is_empty: nothing identified itself
EmptyOrigin(o) == o.source = "unknown" /\ o.process = Null /\ o.pid = Null

\* current_origin: the origin scoped to the request, else the process's own, else empty
CurrentOrigin(scoped, process) ==
  IF scoped # Null THEN scoped
  ELSE IF process # Null THEN process
  ELSE [source |-> "unknown", process |-> Null, pid |-> Null]

-----------------------------------------------------------------------------
(* Columns.                                                                *)

KindColumns == {"item_id", "vault_id", "peer_device_id", "field", "format",
                "item_count", "deny_reason"}

\* insert_audit_record: a column its kind does not use is NULL, the count is 0
RowOf(r) ==
  [seq |-> r.seq, prev_hash |-> r.prev_hash, detail |-> r.detail, kind |-> Code[r.kind.label],
   cols |-> [c \in KindColumns |->
               IF c \in KindFields(r.kind.label) THEN r.kind.data[c]
               ELSE IF c = "item_count" THEN 0 ELSE Null],
   origin_source  |-> IF r.origin = Null THEN Null ELSE SourceCode[r.origin.source],
   origin_process |-> IF r.origin = Null THEN Null ELSE r.origin.process,
   origin_pid     |-> IF r.origin = Null THEN Null ELSE r.origin.pid]

\* kind_from_row fails on an unknown code, and on a column the kind needs that is NULL
\* (only the field of a secret read is optional)
Decodes(row) ==
  \E l \in Label : /\ Code[l] = row.kind
                  /\ \A c \in KindFields(l) \ {"field"} : row.cols[c] # Null

\* kind_from_row, on a row that decodes: the label of the code and its columns
KindFromRow(row) ==
  LET l == CHOOSE x \in Label : Code[x] = row.kind IN
  [label |-> l, data |-> [c \in KindFields(l) |-> row.cols[c]]]

\* audit_record_from_columns, on a row that decodes
RecordFromRow(row) ==
  [seq |-> row.seq, prev_hash |-> row.prev_hash, kind |-> KindFromRow(row),
   detail |-> row.detail,
   origin |-> IF row.origin_source = Null /\ row.origin_process = Null /\ row.origin_pid = Null
                THEN Null
                ELSE [source |-> IF row.origin_source = Null THEN "unknown"
                                 ELSE SourceFromCode(row.origin_source),
                      process |-> row.origin_process, pid |-> row.origin_pid]]

-----------------------------------------------------------------------------
(* Canonical bytes and the chain.                                          *)

\* push_str: the length, then the bytes
PushStr(s) == <<Len(s)>> \o s

\* a plausible slip: the presence byte forgotten
PushOptStrBare(s) == IF s = Null THEN <<>> ELSE PushStr(s)

\* push_opt_str: a presence byte before the string
PushOptStr(s) == IF s = Null THEN <<0>> ELSE <<1>> \o PushStr(s)

\* canonical_bytes, the kind: its ids, counters and strings
KindBytes(kind) ==
  LET d == kind.data IN
  CASE kind.label = "item_secret_read" -> <<d.item_id, d.vault_id>> \o PushOptStr(d.field)
    [] kind.label \in ItemChange       -> <<d.item_id, d.vault_id>>
    [] kind.label = "export"           -> PushStr(d.format) \o <<d.item_count>>
    [] kind.label = "vault_share"      -> <<d.vault_id, d.peer_device_id>>
    [] kind.label \in {"device_trust", "nearby_sync"} -> <<d.peer_device_id>>
    [] kind.label = "access_denied"    -> <<d.deny_reason>>
    [] OTHER                           -> <<>>

\* canonical_bytes, the attribution: appended only when there is one
OriginBytes(origin) ==
  IF origin = Null THEN <<>>
  ELSE <<1, SourceCode[origin.source]>> \o PushOptStr(origin.process)
         \o (IF origin.pid = Null THEN <<0>> ELSE <<1, origin.pid>>)

\* canonical_bytes
CanonicalBytes(r) ==
  <<r.seq, r.prev_hash, Code[r.kind.label]>>
    \o (KindBytes(r.kind) \o (PushOptStr(r.detail) \o OriginBytes(r.origin)))

\* chain_hash and genesis_hash
ChainHash(r) == CanonicalBytes(r)
GenesisHash == <<>>

\* append_audit_record, on the rows its transaction reads: the next number, the
\* hash of the last record, and the origin unless it is empty
NextRow(rows, kind, detail, origin) ==
  LET last == RecordFromRow(rows[Len(rows)]) IN
  RowOf([seq |-> Len(rows) + 1,
         prev_hash |-> IF rows = <<>> THEN GenesisHash ELSE ChainHash(last),
         kind |-> kind, detail |-> detail,
         origin |-> IF EmptyOrigin(origin) THEN Null ELSE origin])

\* verify_audit_chain: every row decodes, numbers run from 1, each names its predecessor
VerifyAuditChain(rows) ==
  \A i \in 1..Len(rows) :
    /\ Decodes(rows[i])
    /\ rows[i].seq = i
    /\ rows[i].prev_hash = IF i = 1 THEN GenesisHash
                           ELSE ChainHash(RecordFromRow(rows[i - 1]))
=============================================================================
