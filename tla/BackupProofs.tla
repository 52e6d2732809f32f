---------------------------- MODULE BackupProofs ----------------------------
(***************************************************************************)
(* Theorems about the profile of Backup: the audit chain, what it records, *)
(* backups made beside working processes, and restores that fail or die.   *)
(*                                                                         *)
(* A row's canonical bytes determine the row (BytesDetermineRow), so a     *)
(* chain that verifies has no other row in any place but the last.  The    *)
(* inductive invariant ProfileInv says of every store, live, copied or     *)
(* moved aside, that its log verifies and speaks of registered vaults      *)
(* only; of a backup being made, how far the live profile is ahead of it;  *)
(* and of a restore, where each of the files it replaces is.               *)
(***************************************************************************)
EXTENDS Backup, SequenceTheorems, TLAPS

-----------------------------------------------------------------------------
(* Well-formed rows and records.                                           *)

\* the values of a column that its kind uses
ColumnType(c) ==
  CASE c = "field"  -> OptStr
    [] c = "format" -> Seq(Nat)
    [] OTHER        -> Nat

\* a kind as a caller of record_audit builds it
GoodKind(k) ==
  /\ k.label \in Label
  /\ \A c \in KindFields(k.label) : k.data[c] \in ColumnType(c)

\* a row as insert_audit_record writes it
GoodRow(row) ==
  /\ row = [seq |-> row.seq, prev_hash |-> row.prev_hash, detail |-> row.detail,
            kind |-> row.kind, cols |-> row.cols, origin_source |-> row.origin_source,
            origin_process |-> row.origin_process, origin_pid |-> row.origin_pid]
  /\ row.cols = [c \in KindColumns |-> row.cols[c]]
  /\ \E l \in Label :
       /\ row.kind = Code[l]
       /\ \A c \in KindColumns :
            IF c \in KindFields(l) THEN row.cols[c] \in ColumnType(c)
            ELSE row.cols[c] = IF c = "item_count" THEN 0 ELSE Null
  /\ row.detail \in OptStr
  /\ \/ row.origin_source = Null /\ row.origin_process = Null /\ row.origin_pid = Null
     \/ /\ \E s \in DOMAIN SourceCode : row.origin_source = SourceCode[s]
        /\ row.origin_process \in OptStr
        /\ row.origin_pid \in Nat \cup {Null}

\* a sequence, of whatever elements
IsSeq(s) == s \in Seq({s[i] : i \in DOMAIN s})

-----------------------------------------------------------------------------
(* The inductive invariant.                                                *)

\* every item record is about a registered vault
RecordsRegistered(a) ==
  \A i \in 1..Len(a.audit) :
    a.audit[i].cols.item_id # Null =>
      /\ a.audit[i].cols.vault_id \in Vault
      /\ a.reg[a.audit[i].cols.vault_id] # Unregistered

\* an account store: its shape, its registry rows, its log, and an envelope that some
\* password opens under the stored salt
GoodStore(a) ==
  /\ a = [salt |-> a.salt, envelope |-> a.envelope, reg |-> a.reg, peers |-> a.peers,
          audit |-> a.audit]
  /\ a.reg = [v \in Vault |-> a.reg[v]] /\ a.peers \subseteq Peer
  /\ \A v \in Vault :
       a.reg[v] # Unregistered =>
         /\ a.reg[v] = [name |-> a.reg[v].name, deleted |-> a.reg[v].deleted]
         /\ a.reg[v].deleted \in BOOLEAN
  /\ IsSeq(a.audit)
  /\ \A i \in 1..Len(a.audit) : GoodRow(a.audit[i])
  /\ VerifyAuditChain(a.audit)
  /\ RecordsRegistered(a)
  /\ a # NoStore => a.salt \in Nat /\ \E w \in Password : a.envelope = Muk(w, a.salt)

VaultFiles == [Vault -> Nat \cup {Null}]

\* no record names a mutation that the vault files have not seen
Bounded(a, files) ==
  \A i \in 1..Len(a.audit) :
    LET c == a.audit[i].cols IN
    c.item_id # Null /\ files[c.vault_id] # Null => c.item_id <= files[c.vault_id]

GoodFiles(f) ==
  /\ f = [acct |-> f.acct, vaults |-> f.vaults]
  /\ GoodStore(f.acct) /\ f.vaults \in VaultFiles
  /\ Bounded(f.acct, f.vaults)

\* a backup directory: what its manifest lists is there, unless rotation emptied it
GoodBackup(b) ==
  /\ b = [files |-> b.files, manifest |-> b.manifest]
  /\ GoodFiles(b.files)
  /\ b.manifest # Null => GoodFiles(b.manifest) /\ b.files \in {b.manifest, NoFiles}

\* registry rows are never removed and deleted vaults stay deleted: b is a later a
Advances(a, b) ==
  \A v \in Vault : a.reg[v] # Unregistered =>
    /\ b.reg[v] # Unregistered
    /\ v \in LiveVaults(b) => v \in LiveVaults(a)

\* what processes at work may make of a store a and vault files f: registered vaults
\* stay, their mutations are not undone, and their lost files do not come back empty
Grows(a, f, b, g) ==
  /\ a # NoStore => b # NoStore
  /\ Advances(a, b)
  /\ \A v \in Vault :
       /\ f[v] # Null => g[v] # Null /\ f[v] <= g[v]
       /\ f[v] = Null /\ a.reg[v] # Unregistered => g[v] = Null

\* the live profile
LiveInv ==
  /\ GoodStore(acct) /\ vaultFile \in VaultFiles
  /\ Settled => Bounded(acct, vaultFile)

\* what a process carries from one step of its command to the next; a record it is
\* about to append names a registered vault and a mutation that vault has seen
GoodProc(x, a, files) ==
  /\ x = [session |-> x.session, pc |-> x.pc, data |-> x.data]
  /\ x.pc = "rekey" => x.data.new \in Password
  /\ x.pc \in {"register", "adopt"} => x.data.vault \in Vault
  /\ x.pc \in {"audit", "append"} =>
       LET k == x.data.kind IN
       /\ GoodKind(k)
       /\ "item_id" \in KindFields(k.label) =>
            LET v == k.data["vault_id"] IN
            /\ v \in Vault /\ a.reg[v] # Unregistered
            /\ files[v] # Null => k.data["item_id"] <= files[v]

ProcInv ==
  /\ proc = [p \in Proc |-> proc[p]]
  /\ \A p \in Proc : GoodProc(proc[p], acct, vaultFile)

BackupsInv ==
  /\ backups = [t \in Time |-> backups[t]]
  /\ \A t \in Time : backups[t] # Null => GoodBackup(backups[t])
  /\ Settled => acct # NoStore \/ \A t \in Time : backups[t] = Null

\* a backup under way: the live profile is at or past what was copied of it
CreateInv ==
  job # Null /\ job.op = "create" =>
    LET b == backups[job.dir] IN
    /\ job = [op |-> "create", dir |-> job.dir, step |-> job.step, todo |-> job.todo]
    /\ job.dir \in Time /\ job.todo \subseteq Vault /\ pre = NoAside /\ acct # NoStore
    /\ job.step \in {"account", "list", "vaults", "prune"}
    /\ GoodBackup(b)
    /\ job.step # "prune" => b.manifest = Null
    /\ job.step = "account" => b.files = NoFiles
    /\ job.step \in {"list", "vaults"} =>
         b.files.acct # NoStore /\ Advances(b.files.acct, acct) /\ Bounded(b.files.acct, vaultFile)
    /\ job.step = "vaults" =>
         \A v \in LiveVaults(b.files.acct) \cap LiveVaults(acct) :
           vaultFile[v] # Null => v \in job.todo \/ b.files.vaults[v] # Null

\* where the files a restore replaces are, at each of its steps
RestoreStep ==
  \/ /\ job.step = "move_account"
     /\ aside = NoAside /\ Live = pre
  \/ /\ job.step = "move_vaults"
     /\ aside = [acct |-> pre.acct, vaults |-> Null] /\ acct = NoStore /\ vaultFile = pre.vaults
  \/ /\ job.step = "install" /\ job.todo \subseteq Vault
     /\ aside = pre
     /\ acct \in {NoStore, backups[job.dir].manifest.acct}
     /\ vaultFile = [v \in Vault |-> IF v \in job.todo THEN Null
                                     ELSE backups[job.dir].manifest.vaults[v]]

\* and where they are after it died or stopped
RestoreFiles ==
  \/ aside = NoAside /\ Live = pre
  \/ aside = [acct |-> pre.acct, vaults |-> Null] /\ vaultFile = pre.vaults
  \/ aside = pre

RestoreInv ==
  IF pre = NoAside THEN job = Null \/ job.op = "create"
  ELSE /\ GoodFiles(pre) /\ pre.acct # NoStore
       /\ \A p \in Proc : proc[p] = Idle
       /\ RestoreFiles
       /\ job # Null =>
            /\ job = [op |-> "restore", dir |-> job.dir, step |-> job.step, todo |-> job.todo]
            /\ job.dir \in Time
            /\ GoodBackup(backups[job.dir]) /\ backups[job.dir].manifest # Null
            /\ RestoreStep

ProfileInv == LiveInv /\ ProcInv /\ BackupsInv /\ CreateInv /\ RestoreInv

-----------------------------------------------------------------------------
(* Sequences and canonical bytes.                                          *)

\* Concatenations that agree, of prefixes of one length, agree part by part.
LEMMA ConcatSplit ==
    ASSUME NEW S, NEW s \in Seq(S), NEW t \in Seq(S), NEW x \in Seq(S), NEW y \in Seq(S),
           Len(s) = Len(t), s \o x = t \o y
    PROVE  s = t /\ x = y
<1>0. Len(s) \in Nat /\ Len(t) \in Nat /\ Len(x) \in Nat /\ Len(y) \in Nat
  BY LenProperties
<1>a. /\ Len(s \o x) = Len(s) + Len(x)
      /\ \A i \in 1..(Len(s) + Len(x)) :
           (s \o x)[i] = IF i <= Len(s) THEN s[i] ELSE x[i - Len(s)]
  BY ConcatProperties
<1>b. /\ Len(t \o y) = Len(t) + Len(y)
      /\ \A i \in 1..(Len(t) + Len(y)) :
           (t \o y)[i] = IF i <= Len(t) THEN t[i] ELSE y[i - Len(t)]
  BY ConcatProperties
<1>1. Len(x) = Len(y)
  BY <1>0, <1>a, <1>b
<1>2. \A i \in 1..Len(s) : s[i] = t[i]
  BY <1>0, <1>1, <1>a, <1>b
<1>3. ASSUME NEW i \in 1..Len(x)
      PROVE  x[i] = y[i]
  <2>1. PICK j \in 1..(Len(s) + Len(x)) : ~(j <= Len(s)) /\ j - Len(s) = i
    <3>1. Len(s) + i \in 1..(Len(s) + Len(x)) /\ ~(Len(s) + i <= Len(s))
          /\ Len(s) + i - Len(s) = i
      BY <1>0
    <3> QED
      BY <3>1
  <2>2. (s \o x)[j] = x[i]
    BY <2>1, <1>a
  <2>3. (t \o y)[j] = y[i]
    BY <2>1, <1>1, <1>b
  <2> QED
    BY <2>2, <2>3
<1>4. s = t
  BY <1>2, SeqEqual
<1>5. x = y
  BY <1>1, <1>3, SeqEqual
<1> QED
  BY <1>4, <1>5

\* A length-prefixed string delimits itself.
LEMMA PushStrSplit ==
    ASSUME NEW a \in Seq(Nat), NEW b \in Seq(Nat), NEW x \in Seq(Nat), NEW y \in Seq(Nat),
           PushStr(a) \o x = PushStr(b) \o y
    PROVE  a = b /\ x = y
<1>1. PushStr(a) \in Seq(Nat) /\ PushStr(b) \in Seq(Nat) /\ Len(PushStr(a)) = Len(a) + 1
      /\ Len(PushStr(b)) = Len(b) + 1 /\ PushStr(a)[1] = Len(a) /\ PushStr(b)[1] = Len(b)
  BY DEF PushStr
<1>2. (PushStr(a) \o x)[1] = Len(a) /\ (PushStr(b) \o y)[1] = Len(b)
  BY <1>1
<1>3. Len(a) = Len(b)
  BY <1>2
<1>4. PushStr(a) = PushStr(b) /\ x = y
  <2>1. Len(PushStr(a)) = Len(PushStr(b))
    BY <1>1, <1>3
  <2> HIDE DEF PushStr
  <2> QED
    BY <1>1, <2>1, ConcatSplit
<1>5. <<Len(a)>> \in Seq(Nat) /\ <<Len(b)>> \in Seq(Nat) /\ Len(<<Len(a)>>) = Len(<<Len(b)>>)
  OBVIOUS
<1>6. a = b
  BY <1>4, <1>5, ConcatSplit DEF PushStr
<1> QED
  BY <1>4, <1>6

LEMMA PushStrType ==
    ASSUME NEW a \in Seq(Nat)
    PROVE  PushStr(a) \in Seq(Nat)
BY DEF PushStr

LEMMA PushOptStrType ==
    ASSUME NEW a \in OptStr
    PROVE  PushOptStr(a) \in Seq(Nat)
<1>1. CASE a = Null
  BY <1>1 DEF PushOptStr
<1>2. CASE a # Null
  <2>1. PushStr(a) \in Seq(Nat)
    BY <1>2, PushStrType DEF OptStr
  <2> QED
    BY <1>2, <2>1 DEF PushOptStr
<1> QED
  BY <1>1, <1>2

\* So does an optional one: the presence byte tells NULL from a string.
LEMMA PushOptStrSplit ==
    ASSUME NEW a \in OptStr, NEW b \in OptStr, NEW x \in Seq(Nat), NEW y \in Seq(Nat),
           PushOptStr(a) \o x = PushOptStr(b) \o y
    PROVE  a = b /\ x = y
<1>1. ASSUME NEW c \in OptStr, NEW z \in Seq(Nat)
      PROVE  (PushOptStr(c) \o z)[1] = IF c = Null THEN 0 ELSE 1
  <2>1. CASE c = Null
    BY <2>1 DEF PushOptStr
  <2>2. CASE c # Null
    <3>1. PushStr(c) \in Seq(Nat)
      BY <2>2, PushStrType DEF OptStr
    <3>2. PushOptStr(c) = << 1 >> \o PushStr(c)
      BY <2>2 DEF PushOptStr
    <3>3. << 1 >> \o PushStr(c) \in Seq(Nat) /\ Len(<< 1 >> \o PushStr(c)) > 0
          /\ (<< 1 >> \o PushStr(c))[1] = 1
      BY <3>1
    <3> QED
      BY <3>2, <3>3, <2>2
  <2> QED
    BY <2>1, <2>2
<1>2. a = Null <=> b = Null
  BY <1>1
<1>3. CASE a = Null
  <2>1. PushOptStr(a) = << 0 >> /\ PushOptStr(b) = << 0 >>
    BY <1>2, <1>3 DEF PushOptStr
  <2>2. << 0 >> \in Seq(Nat)
    OBVIOUS
  <2>3. x = y
    BY <2>1, <2>2, ConcatSplit
  <2> QED
    BY <2>3, <1>2, <1>3
<1>4. CASE a # Null
  <2>1. a \in Seq(Nat) /\ b \in Seq(Nat)
    BY <1>2, <1>4 DEF OptStr
  <2>2. PushStr(a) \in Seq(Nat) /\ PushStr(b) \in Seq(Nat)
    BY <2>1, PushStrType
  <2>3. PushOptStr(a) = << 1 >> \o PushStr(a) /\ PushOptStr(b) = << 1 >> \o PushStr(b)
    BY <1>2, <1>4 DEF PushOptStr
  <2>4. PushOptStr(a) \o x = << 1 >> \o (PushStr(a) \o x)
        /\ PushOptStr(b) \o y = << 1 >> \o (PushStr(b) \o y)
    <3>1. << 1 >> \in Seq(Nat)
      OBVIOUS
    <3>2. (<< 1 >> \o PushStr(a)) \o x = << 1 >> \o (PushStr(a) \o x)
      BY <2>2, <3>1, ConcatAssociative
    <3>3. (<< 1 >> \o PushStr(b)) \o y = << 1 >> \o (PushStr(b) \o y)
      BY <2>2, <3>1, ConcatAssociative
    <3> QED
      BY <2>3, <3>2, <3>3
  <2>5. PushStr(a) \o x \in Seq(Nat) /\ PushStr(b) \o y \in Seq(Nat) /\ << 1 >> \in Seq(Nat)
    BY <2>2
  <2>6. PushStr(a) \o x = PushStr(b) \o y
    <3>1. Len(<< 1 >>) = Len(<< 1 >>)
      OBVIOUS
    <3>2. << 1 >> \o (PushStr(a) \o x) = << 1 >> \o (PushStr(b) \o y)
      BY <2>4
    <3> QED
      BY <3>1, <3>2, <2>5, ConcatSplit
  <2> DEFINE Same(c, d, u, w) == PushStr(c) \o u = PushStr(d) \o w
  <2>7. \A c, d, u, w \in Seq(Nat) : Same(c, d, u, w) => c = d /\ u = w
    BY PushStrSplit
  <2>8. Same(a, b, x, y)
    BY <2>6
  <2> HIDE DEF Same
  <2> QED
    BY <2>1, <2>7, <2>8
<1> QED
  BY <1>3, <1>4

\* The same facts about Cat, an opaque name for concatenation.
Cat(s, t) == s \o t
Two(a, b) == <<a, b>>

LEMMA CatType ==
    ASSUME NEW s \in Seq(Nat), NEW t \in Seq(Nat)
    PROVE  Cat(s, t) \in Seq(Nat)
BY ConcatProperties DEF Cat

LEMMA CatLen ==
    ASSUME NEW s \in Seq(Nat), NEW t \in Seq(Nat)
    PROVE  Len(Cat(s, t)) = Len(s) + Len(t)
BY ConcatProperties DEF Cat

LEMMA CatAssociative ==
    ASSUME NEW s \in Seq(Nat), NEW t \in Seq(Nat), NEW u \in Seq(Nat)
    PROVE  Cat(Cat(s, t), u) = Cat(s, Cat(t, u))
BY ConcatAssociative DEF Cat

LEMMA CatStr ==
    ASSUME NEW a \in Seq(Nat), NEW b \in Seq(Nat), NEW x \in Seq(Nat), NEW y \in Seq(Nat),
           Cat(PushStr(a), x) = Cat(PushStr(b), y)
    PROVE  a = b /\ x = y
<1> DEFINE Same(c, d, u, w) == PushStr(c) \o u = PushStr(d) \o w
<1>1. \A c, d, u, w \in Seq(Nat) : Same(c, d, u, w) => c = d /\ u = w
  BY PushStrSplit
<1>2. Same(a, b, x, y)
  BY DEF Cat
<1> HIDE DEF Same
<1> QED
  BY <1>1, <1>2

LEMMA CatOptStr ==
    ASSUME NEW a \in OptStr, NEW b \in OptStr, NEW x \in Seq(Nat), NEW y \in Seq(Nat),
           Cat(PushOptStr(a), x) = Cat(PushOptStr(b), y)
    PROVE  a = b /\ x = y
<1> DEFINE Same(c, d, u, w) == PushOptStr(c) \o u = PushOptStr(d) \o w
<1>1. \A c, d \in OptStr, u, w \in Seq(Nat) : Same(c, d, u, w) => c = d /\ u = w
  BY PushOptStrSplit
<1>2. Same(a, b, x, y)
  BY DEF Cat
<1> HIDE DEF Same
<1> QED
  BY <1>1, <1>2

LEMMA CatOne ==
    ASSUME NEW a \in Nat, NEW b \in Nat, NEW x \in Seq(Nat), NEW y \in Seq(Nat),
           Cat(<<a>>, x) = Cat(<<b>>, y)
    PROVE  a = b /\ x = y
<1>1. <<a>> \in Seq(Nat) /\ <<b>> \in Seq(Nat) /\ Len(<<a>>) = Len(<<b>>)
  OBVIOUS
<1>2. <<a>> = <<b>> /\ x = y
  BY <1>1, ConcatSplit DEF Cat
<1> QED
  BY <1>2

LEMMA CatTwo ==
    ASSUME NEW a \in Nat, NEW b \in Nat, NEW c \in Nat, NEW d \in Nat,
           NEW x \in Seq(Nat), NEW y \in Seq(Nat),
           Cat(Two(a, b), x) = Cat(Two(c, d), y)
    PROVE  a = c /\ b = d /\ x = y
<1>1. <<a, b>> \in Seq(Nat) /\ <<c, d>> \in Seq(Nat) /\ Len(<<a, b>>) = Len(<<c, d>>)
  OBVIOUS
<1>2. <<a, b>> = <<c, d>> /\ x = y
  BY <1>1, ConcatSplit DEF Cat, Two
<1> QED
  BY <1>2

\* The kinds, by the data they carry.
LEMMA LabelCases ==
    ASSUME NEW l \in Label
    PROVE  \/ l = "item_secret_read" /\ KindFields(l) = {"item_id", "vault_id", "field"}
           \/ l \in ItemChange /\ KindFields(l) = {"item_id", "vault_id"}
           \/ l = "export" /\ KindFields(l) = {"format", "item_count"}
           \/ l = "vault_share" /\ KindFields(l) = {"vault_id", "peer_device_id"}
           \/ l \in {"device_trust", "nearby_sync"} /\ KindFields(l) = {"peer_device_id"}
           \/ l = "access_denied" /\ KindFields(l) = {"deny_reason"}
           \/ /\ l \notin ItemChange /\ KindFields(l) = {}
              /\ l \notin {"item_secret_read", "export", "vault_share", "device_trust",
                           "nearby_sync", "access_denied"}
BY DEF KindFields, ItemChange

LEMMA FieldsAreColumns ==
    ASSUME NEW l \in Label
    PROVE  KindFields(l) \subseteq KindColumns
BY LabelCases DEF KindColumns

\* No two kinds, and no two sources, share a code.
LEMMA CodeInjective ==
    ASSUME NEW l \in Label, NEW m \in Label, Code[l] = Code[m]
    PROVE  l = m
BY DEF Label, Code

LEMMA SourceInjective ==
    ASSUME NEW s \in DOMAIN SourceCode, NEW t \in DOMAIN SourceCode, SourceCode[s] = SourceCode[t]
    PROVE  s = t
BY DEF SourceCode

LEMMA SourceCodeType ==
    ASSUME NEW s \in DOMAIN SourceCode
    PROVE  SourceCode[s] \in Nat
BY DEF SourceCode

\* The bytes of a kind are naturals, and delimit themselves once the label is known.
LEMMA KindBytesType ==
    ASSUME NEW k, GoodKind(k)
    PROVE  KindBytes(k) \in Seq(Nat)
<1>0. k.label \in Label /\ \A c \in KindFields(k.label) : k.data[c] \in ColumnType(c)
  BY DEF GoodKind
<1>1. CASE k.label = "item_secret_read" /\ KindFields(k.label) = {"item_id", "vault_id", "field"}
  <2>1. k.data.item_id \in Nat /\ k.data.vault_id \in Nat /\ k.data.field \in OptStr
    BY <1>0, <1>1 DEF ColumnType
  <2>2. KindBytes(k) = <<k.data.item_id, k.data.vault_id>> \o PushOptStr(k.data.field)
    BY <1>1 DEF KindBytes, ItemChange
  <2>3. PushOptStr(k.data.field) \in Seq(Nat)
    BY <2>1, PushOptStrType
  <2>4. <<k.data.item_id, k.data.vault_id>> \in Seq(Nat)
    BY <2>1
  <2> QED
    BY <2>2, <2>3, <2>4, ConcatProperties
<1>2. CASE k.label \in ItemChange /\ KindFields(k.label) = {"item_id", "vault_id"}
  <2>1. k.data.item_id \in Nat /\ k.data.vault_id \in Nat
    BY <1>0, <1>2 DEF ColumnType
  <2>2. KindBytes(k) = <<k.data.item_id, k.data.vault_id>>
    BY <1>2 DEF KindBytes, ItemChange
  <2> QED
    BY <2>1, <2>2
<1>3. CASE k.label = "export" /\ KindFields(k.label) = {"format", "item_count"}
  <2>1. k.data.format \in Seq(Nat) /\ k.data.item_count \in Nat
    BY <1>0, <1>3 DEF ColumnType
  <2>2. KindBytes(k) = PushStr(k.data.format) \o <<k.data.item_count>>
    BY <1>3 DEF KindBytes, ItemChange
  <2>3. PushStr(k.data.format) \in Seq(Nat) /\ <<k.data.item_count>> \in Seq(Nat)
    BY <2>1, PushStrType
  <2> QED
    BY <2>2, <2>3, ConcatProperties
<1>4. CASE k.label = "vault_share" /\ KindFields(k.label) = {"vault_id", "peer_device_id"}
  <2>1. k.data.vault_id \in Nat /\ k.data.peer_device_id \in Nat
    BY <1>0, <1>4 DEF ColumnType
  <2>2. KindBytes(k) = <<k.data.vault_id, k.data.peer_device_id>>
    BY <1>4 DEF KindBytes, ItemChange
  <2> QED
    BY <2>1, <2>2
<1>5. CASE k.label \in {"device_trust", "nearby_sync"} /\ KindFields(k.label) = {"peer_device_id"}
  <2>1. k.data.peer_device_id \in Nat
    BY <1>0, <1>5 DEF ColumnType
  <2>2. KindBytes(k) = <<k.data.peer_device_id>>
    BY <1>5 DEF KindBytes, ItemChange
  <2> QED
    BY <2>1, <2>2
<1>6. CASE k.label = "access_denied" /\ KindFields(k.label) = {"deny_reason"}
  <2>1. k.data.deny_reason \in Nat
    BY <1>0, <1>6 DEF ColumnType
  <2>2. KindBytes(k) = <<k.data.deny_reason>>
    BY <1>6 DEF KindBytes, ItemChange
  <2> QED
    BY <2>1, <2>2
<1>7. CASE /\ k.label \notin ItemChange /\ KindFields(k.label) = {}
           /\ k.label \notin {"item_secret_read", "export", "vault_share", "device_trust",
                              "nearby_sync", "access_denied"}
  <2>1. KindBytes(k) = <<>>
    BY <1>7 DEF KindBytes
  <2> QED
    BY <2>1
<1> QED
  BY <1>0, <1>1, <1>2, <1>3, <1>4, <1>5, <1>6, <1>7, LabelCases

LEMMA KindBytesSplit ==
    ASSUME NEW k, NEW m, GoodKind(k), GoodKind(m), k.label = m.label,
           NEW x \in Seq(Nat), NEW y \in Seq(Nat),
           Cat(KindBytes(k), x) = Cat(KindBytes(m), y)
    PROVE  x = y /\ \A c \in KindFields(k.label) : k.data[c] = m.data[c]
<1>0. /\ k.label \in Label
      /\ \A c \in KindFields(k.label) : k.data[c] \in ColumnType(c) /\ m.data[c] \in ColumnType(c)
  BY DEF GoodKind
<1>a. KindBytes(k) \in Seq(Nat) /\ KindBytes(m) \in Seq(Nat)
  BY KindBytesType
<1>d. Cat(KindBytes(k), x) = Cat(KindBytes(m), y)
  OBVIOUS
<1>1. CASE k.label = "item_secret_read" /\ KindFields(k.label) = {"item_id", "vault_id", "field"}
  <2>1. /\ k.data.item_id \in Nat /\ k.data.vault_id \in Nat /\ k.data.field \in OptStr
        /\ m.data.item_id \in Nat /\ m.data.vault_id \in Nat /\ m.data.field \in OptStr
    BY <1>0, <1>1 DEF ColumnType
  <2> DEFINE P == PushOptStr(k.data.field)
             Q == PushOptStr(m.data.field)
             H == Two(k.data.item_id, k.data.vault_id)
             J == Two(m.data.item_id, m.data.vault_id)
  <2>2. KindBytes(k) = Cat(H, P) /\ KindBytes(m) = Cat(J, Q)
    BY <1>1 DEF KindBytes, ItemChange, Cat, Two
  <2>3. P \in Seq(Nat) /\ Q \in Seq(Nat)
    BY <2>1, PushOptStrType
  <2>4. H \in Seq(Nat) /\ J \in Seq(Nat)
    BY <2>1 DEF Two
  <2>5. Cat(P, x) \in Seq(Nat) /\ Cat(Q, y) \in Seq(Nat)
    BY <2>3, CatType
  <2>6. Cat(H, Cat(P, x)) = Cat(J, Cat(Q, y))
    <3> HIDE DEF P, Q, H, J
    <3> QED
      BY <1>d, <2>2, <2>3, <2>4, CatAssociative
  <2>7. k.data.item_id = m.data.item_id /\ k.data.vault_id = m.data.vault_id /\ Cat(P, x) = Cat(Q, y)
    <3> HIDE DEF P, Q
    <3> QED
      <4>1. PICK a \in Nat, b \in Nat, c \in Nat, d \in Nat :
              /\ a = k.data.item_id /\ b = k.data.vault_id
              /\ c = m.data.item_id /\ d = m.data.vault_id
        BY <2>1
      <4>2. PICK u \in Seq(Nat), w \in Seq(Nat) : u = Cat(P, x) /\ w = Cat(Q, y)
        BY <2>5
      <4>3. Cat(Two(a, b), u) = Cat(Two(c, d), w)
        BY <2>6, <4>1, <4>2
      <4>4. a = c /\ b = d /\ u = w
        BY <4>3, CatTwo
      <4> QED
        BY <4>1, <4>2, <4>4
  <2>8. k.data.field = m.data.field /\ x = y
    BY <2>1, <2>7, CatOptStr
  <2> QED
    BY <2>7, <2>8, <1>1
<1>2. CASE k.label \in ItemChange /\ KindFields(k.label) = {"item_id", "vault_id"}
  <2>1. /\ k.data.item_id \in Nat /\ k.data.vault_id \in Nat
        /\ m.data.item_id \in Nat /\ m.data.vault_id \in Nat
    BY <1>0, <1>2 DEF ColumnType
  <2>2. /\ KindBytes(k) = Two(k.data.item_id, k.data.vault_id)
        /\ KindBytes(m) = Two(m.data.item_id, m.data.vault_id)
    BY <1>2 DEF KindBytes, ItemChange, Two
  <2>3. /\ k.data.item_id = m.data.item_id /\ k.data.vault_id = m.data.vault_id
        /\ x = y
    <3>1. PICK a \in Nat, b \in Nat, c \in Nat, d \in Nat :
            /\ a = k.data.item_id /\ b = k.data.vault_id
            /\ c = m.data.item_id /\ d = m.data.vault_id
      BY <2>1
    <3>2. Cat(Two(a, b), x) = Cat(Two(c, d), y)
      BY <2>2, <1>d, <3>1
    <3>3. a = c /\ b = d /\ x = y
      BY <3>2, CatTwo
    <3> QED
      BY <3>1, <3>3
  <2> QED
    BY <2>3, <1>2
<1>3. CASE k.label = "export" /\ KindFields(k.label) = {"format", "item_count"}
  <2>1. /\ k.data.format \in Seq(Nat) /\ k.data.item_count \in Nat
        /\ m.data.format \in Seq(Nat) /\ m.data.item_count \in Nat
    BY <1>0, <1>3 DEF ColumnType
  <2> DEFINE P == PushStr(k.data.format)
             Q == PushStr(m.data.format)
             H == <<k.data.item_count>>
             J == <<m.data.item_count>>
  <2>2. KindBytes(k) = Cat(P, H) /\ KindBytes(m) = Cat(Q, J)
    BY <1>3 DEF KindBytes, ItemChange, Cat
  <2>3. P \in Seq(Nat) /\ Q \in Seq(Nat)
    BY <2>1, PushStrType
  <2>4. H \in Seq(Nat) /\ J \in Seq(Nat)
    BY <2>1
  <2>5. Cat(H, x) \in Seq(Nat) /\ Cat(J, y) \in Seq(Nat)
    BY <2>4, CatType
  <2>6. Cat(P, Cat(H, x)) = Cat(Q, Cat(J, y))
    <3> HIDE DEF P, Q, H, J
    <3> QED
      BY <1>d, <2>2, <2>3, <2>4, CatAssociative
  <2>7. k.data.format = m.data.format /\ Cat(H, x) = Cat(J, y)
    <3> HIDE DEF H, J
    <3> QED
      BY <2>1, <2>5, <2>6, CatStr
  <2>8. k.data.item_count = m.data.item_count /\ x = y
    BY <2>1, <2>7, CatOne
  <2> QED
    BY <2>7, <2>8, <1>3
<1>4. CASE k.label = "vault_share" /\ KindFields(k.label) = {"vault_id", "peer_device_id"}
  <2>1. /\ k.data.vault_id \in Nat /\ k.data.peer_device_id \in Nat
        /\ m.data.vault_id \in Nat /\ m.data.peer_device_id \in Nat
    BY <1>0, <1>4 DEF ColumnType
  <2>2. /\ KindBytes(k) = Two(k.data.vault_id, k.data.peer_device_id)
        /\ KindBytes(m) = Two(m.data.vault_id, m.data.peer_device_id)
    BY <1>4 DEF KindBytes, ItemChange, Two
  <2>3. /\ k.data.vault_id = m.data.vault_id /\ k.data.peer_device_id = m.data.peer_device_id
        /\ x = y
    <3>1. PICK a \in Nat, b \in Nat, c \in Nat, d \in Nat :
            /\ a = k.data.vault_id /\ b = k.data.peer_device_id
            /\ c = m.data.vault_id /\ d = m.data.peer_device_id
      BY <2>1
    <3>2. Cat(Two(a, b), x) = Cat(Two(c, d), y)
      BY <2>2, <1>d, <3>1
    <3>3. a = c /\ b = d /\ x = y
      BY <3>2, CatTwo
    <3> QED
      BY <3>1, <3>3
  <2> QED
    BY <2>3, <1>4
<1>5. CASE k.label \in {"device_trust", "nearby_sync"} /\ KindFields(k.label) = {"peer_device_id"}
  <2>1. k.data.peer_device_id \in Nat /\ m.data.peer_device_id \in Nat
    BY <1>0, <1>5 DEF ColumnType
  <2>2. KindBytes(k) = <<k.data.peer_device_id>> /\ KindBytes(m) = <<m.data.peer_device_id>>
    BY <1>5 DEF KindBytes, ItemChange
  <2>3. k.data.peer_device_id = m.data.peer_device_id /\ x = y
    BY <2>1, <2>2, <1>d, CatOne
  <2> QED
    BY <2>3, <1>5
<1>6. CASE k.label = "access_denied" /\ KindFields(k.label) = {"deny_reason"}
  <2>1. k.data.deny_reason \in Nat /\ m.data.deny_reason \in Nat
    BY <1>0, <1>6 DEF ColumnType
  <2>2. KindBytes(k) = <<k.data.deny_reason>> /\ KindBytes(m) = <<m.data.deny_reason>>
    BY <1>6 DEF KindBytes, ItemChange
  <2>3. k.data.deny_reason = m.data.deny_reason /\ x = y
    BY <2>1, <2>2, <1>d, CatOne
  <2> QED
    BY <2>3, <1>6
<1>7. CASE /\ k.label \notin ItemChange /\ KindFields(k.label) = {}
           /\ k.label \notin {"item_secret_read", "export", "vault_share", "device_trust",
                              "nearby_sync", "access_denied"}
  <2>1. KindBytes(k) = <<>> /\ KindBytes(m) = <<>>
    BY <1>7 DEF KindBytes
  <2>2. <<>> \o x = x /\ <<>> \o y = y
    BY ConcatEmptySeq
  <2> QED
    BY <2>1, <2>2, <1>7, <1>d DEF Cat
<1> QED
  BY <1>0, <1>1, <1>2, <1>3, <1>4, <1>5, <1>6, <1>7, LabelCases

\* The attribution is the last part of the bytes, and can be read back from them.
LEMMA OriginBytesOf ==
    ASSUME NEW o \in AuditOrigin
    PROVE  \E tail \in Seq(Nat) :
             /\ tail = IF o.pid = Null THEN << 0 >> ELSE <<1, o.pid>>
             /\ Cat(PushOptStr(o.process), tail) \in Seq(Nat)
             /\ SourceCode[o.source] \in Nat
             /\ OriginBytes(o) = Cat(Two(1, SourceCode[o.source]), Cat(PushOptStr(o.process), tail))
             /\ OriginBytes(o) \in Seq(Nat) /\ Len(OriginBytes(o)) # 0
<1> DEFINE tail == IF o.pid = Null THEN << 0 >> ELSE <<1, o.pid>>
           P == PushOptStr(o.process)
           H == Two(1, SourceCode[o.source])
<1>0. o # Null /\ o.process \in OptStr /\ o.pid \in Nat \cup {Null} /\ o.source \in DOMAIN SourceCode
  BY OriginAssumption DEF AuditOrigin
<1>1. tail \in Seq(Nat)
  BY <1>0
<1>2. P \in Seq(Nat)
  BY <1>0, PushOptStrType
<1>3. SourceCode[o.source] \in Nat
  BY <1>0, SourceCodeType
<1>4. H \in Seq(Nat) /\ Len(H) = 2
  BY <1>3 DEF Two
<1>5. OriginBytes(o) = Cat(Cat(H, P), tail)
  BY <1>0 DEF OriginBytes, Cat, Two
<1> HIDE DEF tail, P, H
<1>6. OriginBytes(o) = Cat(H, Cat(P, tail))
  BY <1>1, <1>2, <1>4, <1>5, CatAssociative
<1>7. Cat(P, tail) \in Seq(Nat)
  BY <1>1, <1>2, CatType
<1>8. OriginBytes(o) \in Seq(Nat) /\ Len(OriginBytes(o)) = 2 + Len(Cat(P, tail))
  BY <1>4, <1>6, <1>7, CatType, CatLen
<1>9. Len(Cat(P, tail)) \in Nat
  BY <1>7, LenProperties
<1>10. Len(OriginBytes(o)) # 0
  BY <1>8, <1>9
<1>11. tail = IF o.pid = Null THEN << 0 >> ELSE <<1, o.pid>>
  BY DEF tail
<1>12. Cat(PushOptStr(o.process), tail) \in Seq(Nat)
       /\ OriginBytes(o) = Cat(Two(1, SourceCode[o.source]), Cat(PushOptStr(o.process), tail))
  BY <1>6, <1>7 DEF P, H
<1> QED
  BY <1>1, <1>3, <1>8, <1>10, <1>11, <1>12

LEMMA OriginBytesType ==
    ASSUME NEW o \in AuditOrigin \cup {Null}
    PROVE  OriginBytes(o) \in Seq(Nat)
<1>1. CASE o = Null
  BY <1>1 DEF OriginBytes
<1>2. CASE o # Null
  BY <1>2, OriginBytesOf
<1> QED
  BY <1>1, <1>2

LEMMA OriginBytesDetermine ==
    ASSUME NEW o \in AuditOrigin \cup {Null}, NEW q \in AuditOrigin \cup {Null},
           OriginBytes(o) = OriginBytes(q)
    PROVE  o = q
<1>1. Null \notin AuditOrigin
  BY OriginAssumption
<1>2. OriginBytes(Null) = <<>> /\ Len(<<>>) = 0
  BY DEF OriginBytes
<1>3. CASE o = Null \/ q = Null
  BY <1>2, <1>3, OriginBytesOf
<1>4. CASE o # Null /\ q # Null
  <2>0. o \in AuditOrigin /\ q \in AuditOrigin
    BY <1>4
  <2>1. PICK t \in Seq(Nat) :
           /\ t = IF o.pid = Null THEN << 0 >> ELSE <<1, o.pid>>
           /\ Cat(PushOptStr(o.process), t) \in Seq(Nat)
           /\ SourceCode[o.source] \in Nat
           /\ OriginBytes(o) = Cat(Two(1, SourceCode[o.source]), Cat(PushOptStr(o.process), t))
    BY <2>0, OriginBytesOf
  <2>2. PICK u \in Seq(Nat) :
           /\ u = IF q.pid = Null THEN << 0 >> ELSE <<1, q.pid>>
           /\ Cat(PushOptStr(q.process), u) \in Seq(Nat)
           /\ SourceCode[q.source] \in Nat
           /\ OriginBytes(q) = Cat(Two(1, SourceCode[q.source]), Cat(PushOptStr(q.process), u))
    BY <2>0, OriginBytesOf
  <2>3. SourceCode[o.source] = SourceCode[q.source]
        /\ Cat(PushOptStr(o.process), t) = Cat(PushOptStr(q.process), u)
    <3>1. PICK a \in Nat, c \in Nat, v \in Seq(Nat), w \in Seq(Nat) :
            /\ a = SourceCode[o.source] /\ c = SourceCode[q.source]
            /\ v = Cat(PushOptStr(o.process), t) /\ w = Cat(PushOptStr(q.process), u)
      BY <2>1, <2>2
    <3>2. Cat(Two(1, a), v) = Cat(Two(1, c), w) /\ 1 \in Nat
      BY <2>1, <2>2, <3>1
    <3>3. a = c /\ v = w
      BY <3>2, CatTwo
    <3> QED
      BY <3>1, <3>3
  <2>4. /\ o.source \in DOMAIN SourceCode /\ o.process \in OptStr /\ o.pid \in Nat \cup {Null}
        /\ q.source \in DOMAIN SourceCode /\ q.process \in OptStr /\ q.pid \in Nat \cup {Null}
    BY <2>0 DEF AuditOrigin
  <2>5. o.source = q.source
    BY <2>3, <2>4, SourceInjective
  <2>6. o.process = q.process /\ t = u
    BY <2>3, <2>4, CatOptStr
  <2>7. o.pid = q.pid
    <3>1. Len(<< 0 >>) = 1 /\ Len(<<1, o.pid>>) = 2 /\ Len(<<1, q.pid>>) = 2
          /\ <<1, o.pid>>[2] = o.pid /\ <<1, q.pid>>[2] = q.pid
      OBVIOUS
    <3> QED
      BY <3>1, <2>1, <2>2, <2>6
  <2> QED
    BY <2>0, <2>5, <2>6, <2>7 DEF AuditOrigin
<1> QED
  BY <1>3, <1>4

\* A row that insert_audit_record writes decodes, to the kind it was written for.
LEMMA RowKind ==
    ASSUME NEW row, GoodRow(row)
    PROVE  \E l \in Label :
             /\ row.kind = Code[l]
             /\ KindFromRow(row) = [label |-> l, data |-> [c \in KindFields(l) |-> row.cols[c]]]
             /\ \A c \in KindFields(l) : row.cols[c] \in ColumnType(c)
             /\ \A c \in KindColumns \ KindFields(l) :
                  row.cols[c] = IF c = "item_count" THEN 0 ELSE Null
             /\ GoodKind(KindFromRow(row))
             /\ Decodes(row)
<1>1. PICK l \in Label :
        /\ row.kind = Code[l]
        /\ \A c \in KindColumns :
             IF c \in KindFields(l) THEN row.cols[c] \in ColumnType(c)
             ELSE row.cols[c] = IF c = "item_count" THEN 0 ELSE Null
  BY DEF GoodRow
<1>2. (CHOOSE x \in Label : Code[x] = row.kind) = l
  BY <1>1, CodeInjective
<1>3. KindFromRow(row) = [label |-> l, data |-> [c \in KindFields(l) |-> row.cols[c]]]
  BY <1>2 DEF KindFromRow
<1>4. \A c \in KindFields(l) : row.cols[c] \in ColumnType(c)
  BY <1>1, FieldsAreColumns
<1>5. GoodKind(KindFromRow(row))
  BY <1>3, <1>4 DEF GoodKind
<1>6. \A c \in KindFields(l) \ {"field"} : row.cols[c] # Null
  BY <1>4, ValueAssumption DEF ColumnType
<1>7. Decodes(row)
  BY <1>1, <1>6 DEF Decodes
<1> QED
  BY <1>1, <1>3, <1>4, <1>5, <1>7

\* Its attribution decodes, too.
LEMMA RowOrigin ==
    ASSUME NEW row, GoodRow(row)
    PROVE  LET o == RecordFromRow(row).origin IN
           /\ o \in AuditOrigin \cup {Null}
           /\ o = Null => row.origin_source = Null /\ row.origin_process = Null /\ row.origin_pid = Null
           /\ o # Null => /\ row.origin_source = SourceCode[o.source]
                         /\ row.origin_process = o.process /\ row.origin_pid = o.pid
<1> DEFINE o == RecordFromRow(row).origin
<1>1. CASE row.origin_source = Null /\ row.origin_process = Null /\ row.origin_pid = Null
  <2>1. o = Null
    BY <1>1 DEF RecordFromRow
  <2> QED
    BY <2>1, <1>1
<1>2. CASE ~(row.origin_source = Null /\ row.origin_process = Null /\ row.origin_pid = Null)
  <2>1. /\ row.origin_process \in OptStr /\ row.origin_pid \in Nat \cup {Null}
        /\ \E s \in DOMAIN SourceCode : row.origin_source = SourceCode[s]
    BY <1>2 DEF GoodRow
  <2>2. PICK s \in DOMAIN SourceCode : row.origin_source = SourceCode[s]
    BY <2>1
  <2>3. row.origin_source # Null
    BY <2>2, SourceCodeType, ValueAssumption
  <2>4. SourceFromCode(row.origin_source) = s
    <3>1. (CHOOSE x \in DOMAIN SourceCode : SourceCode[x] = row.origin_source) = s
      BY <2>2, SourceInjective
    <3> QED
      BY <2>2, <3>1 DEF SourceFromCode
  <2>5. o = [source |-> s, process |-> row.origin_process, pid |-> row.origin_pid]
    BY <1>2, <2>3, <2>4 DEF RecordFromRow
  <2>6. o \in AuditOrigin
    BY <2>1, <2>5 DEF AuditOrigin
  <2> QED
    BY <2>2, <2>5, <2>6, OriginAssumption
<1> QED
  BY <1>1, <1>2

\* canonical_bytes determines the row: no two rows that insert_audit_record writes hash
\* alike (with an injective hash), whatever their kinds, details and attributions.
LEMMA BytesDetermineRow ==
    ASSUME NEW r1, NEW r2, GoodRow(r1), GoodRow(r2),
           ChainHash(RecordFromRow(r1)) = ChainHash(RecordFromRow(r2))
    PROVE  r1 = r2
<1> DEFINE a == RecordFromRow(r1)
           b == RecordFromRow(r2)
<1>1. PICK k \in Label :
        /\ r1.kind = Code[k]
        /\ KindFromRow(r1) = [label |-> k, data |-> [c \in KindFields(k) |-> r1.cols[c]]]
        /\ \A c \in KindColumns \ KindFields(k) : r1.cols[c] = IF c = "item_count" THEN 0 ELSE Null
        /\ GoodKind(KindFromRow(r1))
  BY RowKind
<1>2. PICK m \in Label :
        /\ r2.kind = Code[m]
        /\ KindFromRow(r2) = [label |-> m, data |-> [c \in KindFields(m) |-> r2.cols[c]]]
        /\ \A c \in KindColumns \ KindFields(m) : r2.cols[c] = IF c = "item_count" THEN 0 ELSE Null
        /\ GoodKind(KindFromRow(r2))
  BY RowKind
<1>3. /\ a.seq = r1.seq /\ a.prev_hash = r1.prev_hash /\ a.detail = r1.detail /\ a.kind = KindFromRow(r1)
      /\ b.seq = r2.seq /\ b.prev_hash = r2.prev_hash /\ b.detail = r2.detail /\ b.kind = KindFromRow(r2)
  BY DEF RecordFromRow
<1>4. r1.detail \in OptStr /\ r2.detail \in OptStr
  BY DEF GoodRow
<1>5. a.origin \in AuditOrigin \cup {Null} /\ b.origin \in AuditOrigin \cup {Null}
  BY RowOrigin
<1> DEFINE OA == OriginBytes(a.origin)
           OB == OriginBytes(b.origin)
           DA == Cat(PushOptStr(r1.detail), OA)
           DB == Cat(PushOptStr(r2.detail), OB)
           KA == KindBytes(KindFromRow(r1))
           KB == KindBytes(KindFromRow(r2))
<1>6. OA \in Seq(Nat) /\ OB \in Seq(Nat)
  BY <1>5, OriginBytesType
<1>7. DA \in Seq(Nat) /\ DB \in Seq(Nat)
  BY <1>4, <1>6, PushOptStrType, CatType
<1>8. KA \in Seq(Nat) /\ KB \in Seq(Nat)
  BY <1>1, <1>2, KindBytesType
<1>9. Cat(KA, DA) \in Seq(Nat) /\ Cat(KB, DB) \in Seq(Nat)
  <2> HIDE DEF KA, KB, DA, DB
  <2> QED
    BY <1>7, <1>8, CatType
<1>10. /\ ChainHash(a) = <<r1.seq, r1.prev_hash, Code[k]>> \o Cat(KA, DA)
       /\ ChainHash(b) = <<r2.seq, r2.prev_hash, Code[m]>> \o Cat(KB, DB)
  BY <1>1, <1>2, <1>3 DEF ChainHash, CanonicalBytes, Cat
<1>11. <<r1.seq, r1.prev_hash, Code[k]>> = <<r2.seq, r2.prev_hash, Code[m]>>
       /\ Cat(KA, DA) = Cat(KB, DB)
  <2> DEFINE S == Nat \cup {r1.seq, r1.prev_hash, Code[k], r2.seq, r2.prev_hash, Code[m]}
             H == <<r1.seq, r1.prev_hash, Code[k]>>
             J == <<r2.seq, r2.prev_hash, Code[m]>>
             X == Cat(KA, DA)
             Y == Cat(KB, DB)
  <2>1. H \in Seq(S) /\ J \in Seq(S) /\ Len(H) = Len(J)
    OBVIOUS
  <2>2. X \in Seq(S) /\ Y \in Seq(S)
    <3>1. Nat \subseteq S
      OBVIOUS
    <3> HIDE DEF S, X, Y
    <3>2. X \in Seq(Nat) /\ Y \in Seq(Nat)
      BY <1>9 DEF X, Y
    <3> QED
      BY <3>1, <3>2, SeqMonotonic
  <2>3. H \o X = J \o Y
    BY <1>10
  <2> HIDE DEF S, H, J, X, Y
  <2>4. H = J /\ X = Y
    BY <2>1, <2>2, <2>3, ConcatSplit
  <2> QED
    BY <2>4 DEF H, J, X, Y
<1>12. r1.seq = r2.seq /\ r1.prev_hash = r2.prev_hash /\ k = m
  <2>1. r1.seq = r2.seq /\ r1.prev_hash = r2.prev_hash /\ Code[k] = Code[m]
    BY <1>11
  <2> QED
    BY <2>1, CodeInjective
<1>13. DA = DB /\ \A c \in KindFields(k) : r1.cols[c] = r2.cols[c]
  <2>1. KindFromRow(r1).label = k /\ KindFromRow(r2).label = k
    BY <1>1, <1>2, <1>12
  <2> HIDE DEF DA, DB
  <2>2. DA = DB /\ \A c \in KindFields(k) : KindFromRow(r1).data[c] = KindFromRow(r2).data[c]
    BY <1>1, <1>2, <1>7, <1>11, <2>1, KindBytesSplit
  <2> QED
    BY <2>2, <1>1, <1>2, <1>12
<1>14. r1.detail = r2.detail /\ OA = OB
  <2> HIDE DEF OA, OB
  <2> QED
    BY <1>4, <1>6, <1>13, CatOptStr
<1>15. a.origin = b.origin
  <2>1. PICK o \in AuditOrigin \cup {Null}, q \in AuditOrigin \cup {Null} :
          o = a.origin /\ q = b.origin
    BY <1>5
  <2>2. OriginBytes(o) = OriginBytes(q)
    BY <2>1, <1>14
  <2> QED
    BY <2>1, <2>2, OriginBytesDetermine
<1>16. /\ r1.origin_source = r2.origin_source /\ r1.origin_process = r2.origin_process
       /\ r1.origin_pid = r2.origin_pid
  BY <1>15, RowOrigin
<1>17. r1.cols = r2.cols
  <2>1. r1.cols = [c \in KindColumns |-> r1.cols[c]] /\ r2.cols = [c \in KindColumns |-> r2.cols[c]]
    BY DEF GoodRow
  <2>2. \A c \in KindColumns : r1.cols[c] = r2.cols[c]
    BY <1>1, <1>2, <1>12, <1>13
  <2> QED
    BY <2>1, <2>2
<1> QED
  BY <1>1, <1>2, <1>12, <1>14, <1>16, <1>17 DEF GoodRow

-----------------------------------------------------------------------------
(* Account stores.                                                         *)

LEMMA SeqIsSeq ==
    ASSUME NEW S, NEW q \in Seq(S)
    PROVE  IsSeq(q)
<1>1. Len(q) \in Nat /\ q \in [1..Len(q) -> S] /\ DOMAIN q = 1..Len(q)
  BY LenProperties
<1>2. q \in [1..Len(q) -> {q[i] : i \in DOMAIN q}]
  BY <1>1
<1> QED
  BY <1>1, <1>2, SeqDef DEF IsSeq

LEMMA IsSeqLen ==
    ASSUME NEW q, IsSeq(q)
    PROVE  Len(q) \in Nat /\ DOMAIN q = 1..Len(q)
BY LenProperties DEF IsSeq

LEMMA AppendIsSeq ==
    ASSUME NEW q, IsSeq(q), NEW e
    PROVE  /\ IsSeq(Append(q, e)) /\ Len(Append(q, e)) = Len(q) + 1
           /\ \A i \in 1..Len(q) : Append(q, e)[i] = q[i]
           /\ Append(q, e)[Len(q) + 1] = e
<1> DEFINE T == {q[i] : i \in DOMAIN q}
           S == T \cup {e}
<1>1. T \subseteq S /\ e \in S
  OBVIOUS
<1>2. q \in Seq(T)
  BY DEF IsSeq
<1> HIDE DEF T, S
<1>3. q \in Seq(S)
  BY <1>1, <1>2, SeqMonotonic
<1>4. /\ Append(q, e) \in Seq(S) /\ Len(Append(q, e)) = Len(q) + 1
      /\ \A i \in 1..Len(q) : Append(q, e)[i] = q[i]
      /\ Append(q, e)[Len(q) + 1] = e
  BY <1>1, <1>3, AppendProperties
<1> QED
  BY <1>4, SeqIsSeq

\* insert_audit_record writes rows that decode; the item columns are those of the kind.
LEMMA RowOfGood ==
    ASSUME NEW r, GoodKind(r.kind), r.detail \in OptStr, r.origin \in AuditOrigin \cup {Null}
    PROVE  /\ GoodRow(RowOf(r)) /\ RowOf(r).seq = r.seq /\ RowOf(r).prev_hash = r.prev_hash
           /\ RowOf(r).cols["item_id"] # Null =>
                /\ "item_id" \in KindFields(r.kind.label)
                /\ RowOf(r).cols["item_id"] = r.kind.data["item_id"]
                /\ RowOf(r).cols["vault_id"] = r.kind.data["vault_id"]
<1> DEFINE row == RowOf(r)
           l == r.kind.label
<1>1. l \in Label /\ \A c \in KindFields(l) : r.kind.data[c] \in ColumnType(c)
  BY DEF GoodKind
<1>2. row.cols = [c \in KindColumns |-> IF c \in KindFields(l) THEN r.kind.data[c]
                                        ELSE IF c = "item_count" THEN 0 ELSE Null]
  BY DEF RowOf
<1>3. /\ row.seq = r.seq /\ row.prev_hash = r.prev_hash /\ row.detail = r.detail
      /\ row.kind = Code[l]
      /\ row.origin_source  = (IF r.origin = Null THEN Null ELSE SourceCode[r.origin.source])
      /\ row.origin_process = (IF r.origin = Null THEN Null ELSE r.origin.process)
      /\ row.origin_pid     = (IF r.origin = Null THEN Null ELSE r.origin.pid)
  BY DEF RowOf
<1>4. row = [seq |-> row.seq, prev_hash |-> row.prev_hash, detail |-> row.detail,
             kind |-> row.kind, cols |-> row.cols, origin_source |-> row.origin_source,
             origin_process |-> row.origin_process, origin_pid |-> row.origin_pid]
  BY DEF RowOf
<1>5. row.cols = [c \in KindColumns |-> row.cols[c]]
  BY <1>2
<1>6. \A c \in KindColumns :
         IF c \in KindFields(l) THEN row.cols[c] \in ColumnType(c)
         ELSE row.cols[c] = IF c = "item_count" THEN 0 ELSE Null
  BY <1>1, <1>2
<1>7. \/ row.origin_source = Null /\ row.origin_process = Null /\ row.origin_pid = Null
      \/ /\ \E s \in DOMAIN SourceCode : row.origin_source = SourceCode[s]
         /\ row.origin_process \in OptStr
         /\ row.origin_pid \in Nat \cup {Null}
  <2>1. CASE r.origin = Null
    BY <1>3, <2>1
  <2>2. CASE r.origin # Null
    <3>1. /\ r.origin.source \in DOMAIN SourceCode /\ r.origin.process \in OptStr
          /\ r.origin.pid \in Nat \cup {Null}
      BY <2>2 DEF AuditOrigin
    <3> QED
      BY <1>3, <2>2, <3>1
  <2> QED
    BY <2>1, <2>2
<1>8. GoodRow(row)
  <2> HIDE DEF row, l
  <2> QED
    BY <1>1, <1>3, <1>4, <1>5, <1>6, <1>7 DEF GoodRow
<1>9. ASSUME row.cols["item_id"] # Null
      PROVE  /\ "item_id" \in KindFields(l)
             /\ row.cols["item_id"] = r.kind.data["item_id"]
             /\ row.cols["vault_id"] = r.kind.data["vault_id"]
  <2>1. "item_id" \in KindColumns /\ "vault_id" \in KindColumns
    BY DEF KindColumns
  <2>2. "item_id" \in KindFields(l)
    BY <1>2, <1>9, <2>1
  <2>3. "vault_id" \in KindFields(l)
    BY <1>1, <2>2, LabelCases
  <2> QED
    BY <1>2, <2>1, <2>2, <2>3
<1> QED
  BY <1>3, <1>8, <1>9

\* append_audit_record keeps a store good: the new row verifies against the last one.
LEMMA AppendStore ==
    ASSUME NEW a, GoodStore(a), a # NoStore, NEW k, GoodKind(k),
           "item_id" \in KindFields(k.label) =>
             k.data["vault_id"] \in Vault /\ a.reg[k.data["vault_id"]] # Unregistered,
           NEW b, b = [a EXCEPT !.audit = Append(@, NextRow(a.audit, k, Null,
                                                           CurrentOrigin(Null, ThisProcess)))]
    PROVE  /\ GoodStore(b) /\ b # NoStore /\ b.reg = a.reg
           /\ \A files \in VaultFiles :
                /\ Bounded(a, files)
                /\ "item_id" \in KindFields(k.label) /\ files[k.data["vault_id"]] # Null =>
                     k.data["item_id"] <= files[k.data["vault_id"]]
                => Bounded(b, files)
<1> DEFINE rows == a.audit
           o == CurrentOrigin(Null, ThisProcess)
           r == [seq |-> Len(rows) + 1,
                 prev_hash |-> IF rows = <<>> THEN GenesisHash
                               ELSE ChainHash(RecordFromRow(rows[Len(rows)])),
                 kind |-> k, detail |-> Null,
                 origin |-> IF EmptyOrigin(o) THEN Null ELSE o]
           e == RowOf(r)
<1>1. NextRow(a.audit, k, Null, o) = e
  BY DEF NextRow
<1>2. o \in AuditOrigin
  <2>1. ThisProcess \in AuditOrigin
    BY DEF ThisProcess, AuditOrigin, SourceCode, OptStr
  <2> QED
    BY <2>1, OriginAssumption DEF CurrentOrigin
<1>3. r.kind = k /\ r.detail \in OptStr /\ r.origin \in AuditOrigin \cup {Null}
      /\ r.seq = Len(rows) + 1
      /\ r.prev_hash = IF rows = <<>> THEN GenesisHash ELSE ChainHash(RecordFromRow(rows[Len(rows)]))
  BY <1>2 DEF OptStr
<1>4. /\ GoodRow(e) /\ e.seq = Len(rows) + 1 /\ e.prev_hash = r.prev_hash
      /\ e.cols["item_id"] # Null =>
           /\ "item_id" \in KindFields(k.label)
           /\ e.cols["item_id"] = k.data["item_id"] /\ e.cols["vault_id"] = k.data["vault_id"]
  <2> HIDE DEF r
  <2> QED
    BY <1>3, RowOfGood
<1>5. a = [salt |-> a.salt, envelope |-> a.envelope, reg |-> a.reg, peers |-> a.peers,
           audit |-> a.audit]
  BY DEF GoodStore
<1>6. b = [salt |-> a.salt, envelope |-> a.envelope, reg |-> a.reg, peers |-> a.peers,
           audit |-> Append(rows, e)]
  <2>1. b = [a EXCEPT !.audit = Append(@, e)]
    BY <1>1
  <2> HIDE DEF e, rows
  <2> QED
    BY <1>5, <2>1 DEF rows
<1>7. /\ IsSeq(rows) /\ Len(rows) \in Nat /\ VerifyAuditChain(rows)
      /\ \A i \in 1..Len(rows) : GoodRow(rows[i])
  BY IsSeqLen DEF GoodStore
<1> HIDE DEF e, o
<1>8. /\ IsSeq(b.audit) /\ Len(b.audit) = Len(rows) + 1
      /\ \A i \in 1..Len(rows) : b.audit[i] = rows[i]
      /\ b.audit[Len(rows) + 1] = e
  BY <1>6, <1>7, AppendIsSeq
<1>9. \A i \in 1..Len(b.audit) : i \in 1..Len(rows) \/ i = Len(rows) + 1
  BY <1>7, <1>8
<1>10. \A i \in 1..Len(b.audit) : GoodRow(b.audit[i])
  BY <1>4, <1>7, <1>8, <1>9
<1>11. VerifyAuditChain(b.audit)
  <2> SUFFICES ASSUME NEW i \in 1..Len(b.audit)
               PROVE  /\ Decodes(b.audit[i]) /\ b.audit[i].seq = i
                      /\ b.audit[i].prev_hash = IF i = 1 THEN GenesisHash
                                                ELSE ChainHash(RecordFromRow(b.audit[i - 1]))
    BY DEF VerifyAuditChain
  <2>1. Decodes(b.audit[i])
    BY <1>10, RowKind
  <2>2. CASE i \in 1..Len(rows)
    <3>1. i = 1 \/ i - 1 \in 1..Len(rows)
      BY <2>2, <1>7
    <3>2. rows[i].seq = i /\ rows[i].prev_hash = IF i = 1 THEN GenesisHash
                                                ELSE ChainHash(RecordFromRow(rows[i - 1]))
      BY <2>2, <1>7 DEF VerifyAuditChain
    <3> QED
      BY <2>1, <2>2, <3>1, <3>2, <1>8
  <2>3. CASE i = Len(rows) + 1
    <3>1. b.audit[i] = e /\ e.seq = i
      BY <2>3, <1>4, <1>8
    <3>2. CASE rows = <<>>
      <4>1. Len(rows) = 0
        BY <3>2
      <4> QED
        BY <3>1, <3>2, <4>1, <2>1, <2>3, <1>3, <1>4
    <3>3. CASE rows # <<>>
      <4>1. Len(rows) # 0
        BY <3>3, <1>7, EmptySeq DEF IsSeq
      <4>2. i # 1 /\ i - 1 = Len(rows) /\ i - 1 \in 1..Len(rows)
        BY <4>1, <2>3, <1>7
      <4>3. b.audit[i - 1] = rows[Len(rows)]
        BY <4>2, <1>8
      <4> QED
        BY <3>1, <3>3, <4>2, <4>3, <2>1, <1>3, <1>4
    <3> QED
      BY <3>2, <3>3
  <2> QED
    BY <2>2, <2>3, <1>9
<1>12. RecordsRegistered(b)
  <2> SUFFICES ASSUME NEW i \in 1..Len(b.audit), b.audit[i].cols["item_id"] # Null
               PROVE  b.audit[i].cols["vault_id"] \in Vault
                      /\ b.reg[b.audit[i].cols["vault_id"]] # Unregistered
    BY DEF RecordsRegistered
  <2>1. CASE i \in 1..Len(rows)
    <3>1. RecordsRegistered(a)
      BY DEF GoodStore
    <3> QED
      BY <2>1, <3>1, <1>6, <1>8 DEF RecordsRegistered
  <2>2. CASE i = Len(rows) + 1
    BY <2>2, <1>4, <1>6, <1>8
  <2> QED
    BY <2>1, <2>2, <1>9
<1>13. b.salt = a.salt /\ b.envelope = a.envelope /\ b.reg = a.reg /\ b.peers = a.peers
  BY <1>6
<1>14. a.salt \in Nat /\ \E w \in Password : a.envelope = Muk(w, a.salt)
  BY DEF GoodStore
<1>15. b # NoStore
  BY <1>13, <1>14, ValueAssumption DEF NoStore
<1>16. GoodStore(b)
  <2>1. b = [salt |-> b.salt, envelope |-> b.envelope, reg |-> b.reg, peers |-> b.peers,
             audit |-> b.audit]
    BY <1>6
  <2>2. /\ b.reg = [v \in Vault |-> b.reg[v]] /\ b.peers \subseteq Peer
        /\ \A v \in Vault : b.reg[v] # Unregistered =>
             /\ b.reg[v] = [name |-> b.reg[v].name, deleted |-> b.reg[v].deleted]
             /\ b.reg[v].deleted \in BOOLEAN
    BY <1>13 DEF GoodStore
  <2> QED
    BY <2>1, <2>2, <1>8, <1>10, <1>11, <1>12, <1>13, <1>14 DEF GoodStore
<1>17. ASSUME NEW files \in VaultFiles, Bounded(a, files),
              "item_id" \in KindFields(k.label) /\ files[k.data["vault_id"]] # Null =>
                k.data["item_id"] <= files[k.data["vault_id"]]
       PROVE  Bounded(b, files)
  <2> SUFFICES ASSUME NEW i \in 1..Len(b.audit), b.audit[i].cols["item_id"] # Null,
                      files[b.audit[i].cols["vault_id"]] # Null
               PROVE  b.audit[i].cols["item_id"] <= files[b.audit[i].cols["vault_id"]]
    BY DEF Bounded
  <2>1. CASE i \in 1..Len(rows)
    BY <2>1, <1>8, <1>17 DEF Bounded
  <2>2. CASE i = Len(rows) + 1
    BY <2>2, <1>4, <1>8, <1>17
  <2> QED
    BY <2>1, <2>2, <1>9
<1> QED
  BY <1>13, <1>15, <1>16, <1>17

\* A change to a store that keeps its log and its registry rows.
LEMMA UpdateStore ==
    ASSUME NEW a, GoodStore(a),
           NEW b, b = [salt |-> b.salt, envelope |-> b.envelope, reg |-> b.reg,
                       peers |-> b.peers, audit |-> a.audit],
           b.salt \in Nat, \E w \in Password : b.envelope = Muk(w, b.salt),
           b.reg = [v \in Vault |-> b.reg[v]], b.peers \subseteq Peer,
           \A v \in Vault : b.reg[v] # Unregistered =>
             /\ b.reg[v] = [name |-> b.reg[v].name, deleted |-> b.reg[v].deleted]
             /\ b.reg[v].deleted \in BOOLEAN,
           \A v \in Vault : a.reg[v] # Unregistered => b.reg[v] # Unregistered
    PROVE  /\ GoodStore(b) /\ b # NoStore
           /\ \A files : Bounded(a, files) => Bounded(b, files)
<1>1. b.audit = a.audit
  OBVIOUS
<1>2. RecordsRegistered(b)
  BY <1>1 DEF GoodStore, RecordsRegistered
<1>3. b # NoStore
  BY ValueAssumption DEF NoStore
<1>4. IsSeq(b.audit) /\ VerifyAuditChain(b.audit) /\ \A i \in 1..Len(b.audit) : GoodRow(b.audit[i])
  BY <1>1 DEF GoodStore
<1>5. GoodStore(b)
  BY <1>1, <1>2, <1>4 DEF GoodStore
<1> QED
  BY <1>1, <1>3, <1>5 DEF Bounded

LEMMA NoStoreGood == GoodStore(NoStore) /\ \A files : Bounded(NoStore, files)
<1>1. NoStore.audit = <<>> /\ Len(<<>>) = 0
  BY DEF NoStore
<1>2. IsSeq(<<>>)
  BY SeqIsSeq, EmptySeq
<1>3. \A i \in 1..0 : FALSE
  OBVIOUS
<1>4. VerifyAuditChain(NoStore.audit)
  BY <1>1, <1>3 DEF VerifyAuditChain
<1>5. RecordsRegistered(NoStore) /\ \A files : Bounded(NoStore, files)
  BY <1>1, <1>3 DEF RecordsRegistered, Bounded
<1>6. /\ NoStore = [salt |-> NoStore.salt, envelope |-> NoStore.envelope, reg |-> NoStore.reg,
                    peers |-> NoStore.peers, audit |-> NoStore.audit]
      /\ NoStore.reg = [v \in Vault |-> Unregistered] /\ NoStore.peers = {}
  BY DEF NoStore
<1> QED
  BY <1>1, <1>2, <1>3, <1>4, <1>5, <1>6 DEF GoodStore

LEMMA NoFilesGood == GoodFiles(NoFiles) /\ NoFiles.vaults \in VaultFiles
BY NoStoreGood DEF GoodFiles, NoFiles, VaultFiles

\* Records stay within the vault files when these only grow where they are registered.
LEMMA BoundedGrows ==
    ASSUME NEW a, GoodStore(a), NEW f \in VaultFiles, NEW g \in VaultFiles, Bounded(a, f),
           \A v \in Vault : a.reg[v] # Unregistered /\ g[v] # Null => f[v] # Null /\ f[v] <= g[v]
    PROVE  Bounded(a, g)
<1> SUFFICES ASSUME NEW i \in 1..Len(a.audit), a.audit[i].cols["item_id"] # Null,
                    g[a.audit[i].cols["vault_id"]] # Null
             PROVE  a.audit[i].cols["item_id"] <= g[a.audit[i].cols["vault_id"]]
  BY DEF Bounded
<1> DEFINE c == a.audit[i].cols
<1>1. c["vault_id"] \in Vault /\ a.reg[c["vault_id"]] # Unregistered
  BY DEF GoodStore, RecordsRegistered
<1>2. c["item_id"] \in Nat
  <2>1. GoodRow(a.audit[i])
    BY DEF GoodStore
  <2>2. PICK l \in Label : \A k \in KindColumns :
          IF k \in KindFields(l) THEN c[k] \in ColumnType(k)
          ELSE c[k] = IF k = "item_count" THEN 0 ELSE Null
    BY <2>1 DEF GoodRow
  <2>3. "item_id" \in KindColumns
    BY DEF KindColumns
  <2>4. c["item_id"] \in ColumnType("item_id")
    BY <2>2, <2>3
  <2> QED
    BY <2>4 DEF ColumnType
<1>3. f[c["vault_id"]] # Null /\ f[c["vault_id"]] <= g[c["vault_id"]]
  BY <1>1
<1>4. f[c["vault_id"]] \in Nat /\ g[c["vault_id"]] \in Nat
  BY <1>1, <1>3 DEF VaultFiles
<1>5. c["item_id"] <= f[c["vault_id"]]
  BY <1>3 DEF Bounded
<1> QED
  BY <1>2, <1>3, <1>4, <1>5

LEMMA AdvancesReflexive ==
    ASSUME NEW a
    PROVE  Advances(a, a)
BY DEF Advances

LEMMA AdvancesTransitive ==
    ASSUME NEW a, NEW b, NEW c, Advances(a, b), Advances(b, c)
    PROVE  Advances(a, c)
BY DEF Advances

LEMMA SameReg ==
    ASSUME NEW a, NEW b, b.reg = a.reg
    PROVE  Advances(a, b) /\ LiveVaults(a) = LiveVaults(b)
BY DEF Advances, LiveVaults

-----------------------------------------------------------------------------
(* Processes at work.                                                      *)

\* what a step of a working process leaves
Work ==
  /\ GoodStore(acct') /\ vaultFile' \in VaultFiles /\ Bounded(acct', vaultFile')
  /\ Grows(acct, vaultFile, acct', vaultFile')

\* process p becomes x, the others stay
Becomes(p, x) ==
  /\ proc' = [q \in Proc |-> proc'[q]]
  /\ proc'[p] = x
  /\ \A q \in Proc \ {p} : proc'[q] = proc[q]

LEMMA GotoSets ==
    ASSUME ProcInv, NEW p \in Proc, NEW pc, NEW data, Goto(p, pc, data)
    PROVE  Becomes(p, [session |-> proc[p].session, pc |-> pc, data |-> data])
<1>1. proc = [q \in Proc |-> proc[q]]
      /\ proc[p] = [session |-> proc[p].session, pc |-> proc[p].pc, data |-> proc[p].data]
  BY DEF ProcInv, GoodProc
<1>2. proc' = [proc EXCEPT ![p].pc = pc, ![p].data = data]
  BY DEF Goto
<1>3. proc' = [q \in Proc |-> proc'[q]] /\ \A q \in Proc \ {p} : proc'[q] = proc[q]
  BY <1>1, <1>2
<1>4. proc'[p] = [session |-> proc[p].session, pc |-> pc, data |-> data]
  BY <1>1, <1>2
<1> QED
  BY <1>3, <1>4 DEF Becomes

LEMMA ExceptSets ==
    ASSUME ProcInv, NEW p \in Proc, NEW x, proc' = [proc EXCEPT ![p] = x]
    PROVE  Becomes(p, x)
BY DEF ProcInv, Becomes

\* What a process carries survives the work of the others.
LEMMA GoodProcGrows ==
    ASSUME NEW y, GoodProc(y, acct, vaultFile), vaultFile \in VaultFiles, Work
    PROVE  GoodProc(y, acct', vaultFile')
<1> DEFINE k == y.data.kind
           v == k.data["vault_id"]
<1>1. ASSUME y.pc \in {"audit", "append"}, "item_id" \in KindFields(k.label)
      PROVE  /\ v \in Vault /\ acct'.reg[v] # Unregistered
             /\ vaultFile'[v] # Null => k.data["item_id"] <= vaultFile'[v]
  <2>1. /\ v \in Vault /\ acct.reg[v] # Unregistered
        /\ vaultFile[v] # Null => k.data["item_id"] <= vaultFile[v]
    BY <1>1 DEF GoodProc
  <2>2. k.data["item_id"] \in Nat
    <3>1. k.data["item_id"] \in ColumnType("item_id")
      BY <1>1 DEF GoodProc, GoodKind
    <3> QED
      BY <3>1 DEF ColumnType
  <2>3. acct'.reg[v] # Unregistered
    BY <2>1 DEF Work, Grows, Advances
  <2>4. ASSUME vaultFile'[v] # Null
        PROVE  k.data["item_id"] <= vaultFile'[v]
    <3>1. vaultFile[v] # Null /\ vaultFile[v] <= vaultFile'[v]
      BY <2>1, <2>4 DEF Work, Grows
    <3>2. vaultFile[v] \in Nat /\ vaultFile'[v] \in Nat
      BY <2>1, <2>4, <3>1 DEF Work, VaultFiles
    <3> QED
      BY <2>1, <2>2, <3>1, <3>2
  <2> QED
    BY <2>1, <2>3, <2>4
<1> QED
  BY <1>1 DEF GoodProc

LEMMA ProcStep ==
    ASSUME ProcInv, vaultFile \in VaultFiles, Work,
           NEW p \in Proc, NEW x, GoodProc(x, acct', vaultFile'), Becomes(p, x)
    PROVE  ProcInv'
<1>1. proc' = [q \in Proc |-> proc'[q]] /\ proc'[p] = x /\ \A q \in Proc \ {p} : proc'[q] = proc[q]
  BY DEF Becomes
<1>2. \A q \in Proc : GoodProc(proc[q], acct', vaultFile')
  BY GoodProcGrows DEF ProcInv
<1> QED
  BY <1>1, <1>2 DEF ProcInv

LEMMA ProcStays ==
    ASSUME ProcInv, vaultFile \in VaultFiles, Work, proc' = proc
    PROVE  ProcInv'
<1>1. \A q \in Proc : GoodProc(proc[q], acct', vaultFile')
  BY GoodProcGrows DEF ProcInv
<1> QED
  BY <1>1 DEF ProcInv

\* A process ends its command, or goes on to a step that carries nothing to check.
LEMMA GotoPlain ==
    ASSUME NEW sess, NEW pc, NEW data,
           pc \notin {"rekey", "register", "adopt", "audit", "append"}
    PROVE  GoodProc([session |-> sess, pc |-> pc, data |-> data], acct', vaultFile')
BY DEF GoodProc

LEMMA GotoAudit ==
    ASSUME NEW sess, NEW pc \in {"audit", "append"}, NEW data, GoodKind(data.kind),
           "item_id" \in KindFields(data.kind.label) =>
              LET v == data.kind.data["vault_id"] IN
              /\ v \in Vault /\ acct'.reg[v] # Unregistered
              /\ vaultFile'[v] # Null => data.kind.data["item_id"] <= vaultFile'[v]
    PROVE  GoodProc([session |-> sess, pc |-> pc, data |-> data], acct', vaultFile')
BY DEF GoodProc

\* The kinds that the commands record.
LEMMA PlainGood ==
    ASSUME NEW l \in {"unlock_success", "unlock_failure"}
    PROVE  GoodKind(Plain(l)) /\ KindFields(Plain(l).label) = {} /\ Plain(l).label = l
<1>1. l \in Label /\ KindFields(l) = {}
  BY DEF Label, Code, KindFields, ItemChange
<1> QED
  BY <1>1 DEF GoodKind, Plain

LEMMA DenyGood == GoodKind(DenyKind(1)) /\ "item_id" \notin KindFields(DenyKind(1).label)
<1>1. "access_denied" \in Label /\ KindFields("access_denied") = {"deny_reason"}
  BY DEF Label, Code, KindFields, ItemChange
<1> QED
  BY <1>1 DEF GoodKind, DenyKind, ColumnType

LEMMA ItemGood ==
    ASSUME NEW l \in {"item_create", "item_update"}, NEW v \in Nat, NEW n \in Nat
    PROVE  /\ GoodKind(ItemKind(l, v, n))
           /\ ItemKind(l, v, n).data["vault_id"] = v /\ ItemKind(l, v, n).data["item_id"] = n
<1>1. l \in Label /\ KindFields(l) = {"item_id", "vault_id"}
  BY DEF Label, Code, KindFields, ItemChange
<1> QED
  BY <1>1 DEF GoodKind, ItemKind, ColumnType

LEMMA ReadGood ==
    ASSUME NEW v \in Nat, NEW n \in Nat, NEW f \in {Null, << 1 >>}
    PROVE  /\ GoodKind(ReadKind(v, n, f))
           /\ ReadKind(v, n, f).data["vault_id"] = v /\ ReadKind(v, n, f).data["item_id"] = n
<1>1. "item_secret_read" \in Label
      /\ KindFields("item_secret_read") = {"item_id", "vault_id", "field"}
  BY DEF Label, Code, KindFields, ItemChange
<1>2. f \in OptStr
  <2>1. << 1 >> \in Seq(Nat)
    OBVIOUS
  <2> QED
    BY <2>1, Zenon DEF OptStr
<1>3. /\ ReadKind(v, n, f).label = "item_secret_read"
      /\ ReadKind(v, n, f).data["vault_id"] = v /\ ReadKind(v, n, f).data["item_id"] = n
      /\ ReadKind(v, n, f).data["field"] = f
  BY DEF ReadKind
<1>4. ColumnType("vault_id") = Nat /\ ColumnType("item_id") = Nat /\ ColumnType("field") = OptStr
  BY DEF ColumnType
<1> QED
  BY <1>1, <1>2, <1>3, <1>4 DEF GoodKind

LEMMA PeerGood ==
    ASSUME NEW d \in Nat
    PROVE  GoodKind(PeerKind(d)) /\ "item_id" \notin KindFields(PeerKind(d).label)
<1>1. "device_trust" \in Label /\ KindFields("device_trust") = {"peer_device_id"}
  BY DEF Label, Code, KindFields, ItemChange
<1> QED
  BY <1>1 DEF GoodKind, PeerKind, ColumnType

LEMMA ShareGood ==
    ASSUME NEW v \in Nat, NEW d \in Nat
    PROVE  GoodKind(ShareKind(v, d)) /\ "item_id" \notin KindFields(ShareKind(v, d).label)
<1>1. "vault_share" \in Label /\ KindFields("vault_share") = {"vault_id", "peer_device_id"}
  BY DEF Label, Code, KindFields, ItemChange
<1> QED
  BY <1>1 DEF GoodKind, ShareKind, ColumnType

\* Steps that touch neither the store nor a vault file.
LEMMA QuietWork ==
    ASSUME LiveInv, Settled, UNCHANGED <<acct, vaultFile>>
    PROVE  Work
<1>1. acct' = acct /\ vaultFile' = vaultFile
  OBVIOUS
<1>2. Grows(acct, vaultFile, acct, vaultFile)
  BY AdvancesReflexive DEF Grows, LiveInv, VaultFiles
<1> QED
  BY <1>1, <1>2 DEF Work, LiveInv

\* Steps that change the store and no vault file.
LEMMA StoreWork ==
    ASSUME LiveInv, Settled, vaultFile' = vaultFile, acct # NoStore,
           GoodStore(acct'), acct' # NoStore, Advances(acct, acct'), Bounded(acct', vaultFile)
    PROVE  Work
<1>1. Grows(acct, vaultFile, acct', vaultFile)
  BY DEF Grows, LiveInv, VaultFiles
<1> QED
  BY <1>1 DEF Work, LiveInv

\* Steps that change one vault file: an unregistered one is created, or one is extended.
LEMMA FileWork ==
    ASSUME LiveInv, Settled, acct' = acct, NEW v \in Vault, NEW n \in Nat,
           vaultFile' = [vaultFile EXCEPT ![v] = n],
           vaultFile[v] = Null => acct.reg[v] = Unregistered,
           vaultFile[v] # Null => vaultFile[v] <= n
    PROVE  Work
<1>1. vaultFile \in VaultFiles /\ GoodStore(acct) /\ Bounded(acct, vaultFile)
  BY DEF LiveInv
<1>2. /\ vaultFile' \in VaultFiles /\ vaultFile'[v] = n
      /\ \A u \in Vault \ {v} : vaultFile'[u] = vaultFile[u]
  BY <1>1 DEF VaultFiles
<1>3. n # Null
  BY ValueAssumption
<1>4. \A u \in Vault :
        /\ vaultFile[u] # Null => vaultFile'[u] # Null /\ vaultFile[u] <= vaultFile'[u]
        /\ vaultFile[u] = Null /\ acct.reg[u] # Unregistered => vaultFile'[u] = Null
  <2> TAKE u \in Vault
  <2>1. CASE u = v
    BY <2>1, <1>2, <1>3
  <2>2. CASE u # v
    <3>1. vaultFile'[u] = vaultFile[u] /\ (vaultFile[u] # Null => vaultFile[u] \in Nat)
      BY <2>2, <1>1, <1>2 DEF VaultFiles
    <3> QED
      BY <3>1
  <2> QED
    BY <2>1, <2>2
<1>5. Grows(acct, vaultFile, acct, vaultFile')
  BY <1>4, AdvancesReflexive DEF Grows
<1>6. Bounded(acct, vaultFile')
  BY <1>1, <1>2, <1>4, BoundedGrows
<1> QED
  BY <1>1, <1>2, <1>5, <1>6 DEF Work

\* a step of a process at work on the profile
WorkStep(p) ==
  \/ Create(p) \/ UnlockReadKdf(p) \/ UnlockReadEnvelope(p) \/ Lock(p)
  \/ RecordAccessDenied(p) \/ ChangePasswordCheck(p) \/ ChangePasswordCommit(p)
  \/ CreateVaultFile(p) \/ InsertRegistryRow(p) \/ SoftDeleteVault(p) \/ Mutate(p)
  \/ SecretRead(p) \/ TrustPeerDevice(p) \/ ShareVaultKeyToPeer(p)
  \/ ImportSharedVaultKey(p) \/ RegisterSharedVault(p) \/ AuditRead(p)
  \/ AuditCommit(p) \/ AuditFail(p) \/ Crash(p) \/ RestoreSingleItem(p)

\* Every step of a working process: the store stays good, grows, and what the processes
\* carry stays true of it.
LEMMA WorkingStep ==
    ASSUME LiveInv, ProcInv, Settled, NEW p \in Proc, WorkStep(p)
    PROVE  Work /\ ProcInv'
<1> DEFINE At1(pc, data) == [session |-> proc[p].session, pc |-> pc, data |-> data]
<1>a. GoodStore(acct) /\ vaultFile \in VaultFiles /\ Bounded(acct, vaultFile)
  BY DEF LiveInv
<1>b. GoodProc(proc[p], acct, vaultFile)
  BY DEF ProcInv
<1>c. Vault \subseteq Nat /\ Peer \subseteq Nat /\ OwnVault \subseteq Vault /\ SharedVault \subseteq Vault
  BY AccountAssumption DEF Vault
<1>d. GoodProc(Idle, acct', vaultFile')
  BY DEF GoodProc, Idle
<1>e. /\ acct = [salt |-> acct.salt, envelope |-> acct.envelope, reg |-> acct.reg,
                 peers |-> acct.peers, audit |-> acct.audit]
      /\ acct.reg = [v \in Vault |-> acct.reg[v]] /\ acct.peers \subseteq Peer
      /\ \A v \in Vault : acct.reg[v] # Unregistered =>
           /\ acct.reg[v] = [name |-> acct.reg[v].name, deleted |-> acct.reg[v].deleted]
           /\ acct.reg[v].deleted \in BOOLEAN
      /\ acct # NoStore => acct.salt \in Nat /\ \E w \in Password : acct.envelope = Muk(w, acct.salt)
  BY <1>a DEF GoodStore
<1>31. ASSUME UNCHANGED <<acct, vaultFile>>, NEW pc, NEW data, Goto(p, pc, data),
             GoodProc(At1(pc, data), acct', vaultFile')
      PROVE  Work /\ ProcInv'
  <2>1. Work
    BY <1>31, QuietWork
  <2> HIDE DEF At1
  <2>2. Becomes(p, At1(pc, data))
    BY <1>31, GotoSets DEF At1
  <2> QED
    BY <2>1, <2>2, <1>a, <1>31, ProcStep
<1>32. ASSUME Work, NEW pc, NEW data, Goto(p, pc, data), GoodProc(At1(pc, data), acct', vaultFile')
      PROVE  ProcInv'
  <2> HIDE DEF At1
  <2>1. Becomes(p, At1(pc, data))
    BY <1>32, GotoSets DEF At1
  <2> QED
    BY <2>1, <1>a, <1>32, ProcStep
<1>h. GoodProc(At1("idle", Null), acct', vaultFile')
  BY GotoPlain
<1>1. CASE Create(p)
  <2>1. PICK w \in Password : acct' = NewAccount(w)
    BY <1>1 DEF Create
  <2>2. /\ acct' = [salt |-> acct'.salt, envelope |-> acct'.envelope, reg |-> acct'.reg,
                    peers |-> acct'.peers, audit |-> NoStore.audit]
        /\ acct'.salt = 0 /\ acct'.envelope = Muk(w, 0) /\ acct'.peers = {}
        /\ acct'.reg = [v \in Vault |-> Unregistered]
    BY <2>1 DEF NewAccount, NoStore
  <2>3. GoodStore(acct') /\ acct' # NoStore /\ \A files : Bounded(acct', files)
    <3>1. \A v \in Vault : NoStore.reg[v] = Unregistered
      BY DEF NoStore
    <3> QED
      BY <2>2, <3>1, NoStoreGood, UpdateStore
  <2>4. acct = NoStore /\ vaultFile' = vaultFile /\ proc' = proc
    BY <1>1 DEF Create
  <2>5. Advances(acct, acct')
    BY <2>4 DEF Advances, NoStore
  <2>6. Grows(acct, vaultFile, acct', vaultFile')
    BY <2>3, <2>4, <2>5, <1>a DEF Grows, VaultFiles
  <2>7. Work
    BY <2>3, <2>4, <2>6, <1>a DEF Work
  <2> QED
    BY <2>4, <2>7, <1>a, ProcStays
<1>2. CASE UnlockReadKdf(p)
  <2>1. PICK w \in Password : Goto(p, "unlock", [muk |-> Muk(w, acct.salt)])
    BY <1>2 DEF UnlockReadKdf
  <2> QED
    BY <2>1, <1>2, <1>31, GotoPlain DEF UnlockReadKdf
<1>3. CASE UnlockReadEnvelope(p)
  <2> DEFINE ok == acct.envelope = proc[p].data.muk
             l == IF ok THEN "unlock_success" ELSE "unlock_failure"
             x == [session |-> ok, pc |-> "audit", data |-> [kind |-> Plain(l)]]
  <2>1. proc' = [proc EXCEPT ![p] = x]
    BY <1>3 DEF UnlockReadEnvelope
  <2>2. Work
    BY <1>3, QuietWork DEF UnlockReadEnvelope
  <2>3. GoodProc(x, acct', vaultFile')
    BY PlainGood, GotoAudit
  <2> HIDE DEF x
  <2>4. Becomes(p, x)
    BY <2>1, ExceptSets DEF x
  <2> QED
    BY <2>2, <2>3, <2>4, <1>a, ProcStep
<1>4. CASE Lock(p) \/ Crash(p)
  <2>1. Work
    BY <1>4, QuietWork DEF Lock, Crash
  <2>2. Becomes(p, Idle)
    BY <1>4, ExceptSets DEF Lock, Crash
  <2> QED
    BY <2>1, <2>2, <1>a, <1>d, ProcStep
<1>5. CASE RecordAccessDenied(p)
  <2>1. Goto(p, "audit", [kind |-> DenyKind(1)])
    BY <1>5 DEF RecordAccessDenied, RecordAudit
  <2>2. GoodProc(At1("audit", [kind |-> DenyKind(1)]), acct', vaultFile')
    BY DenyGood, GotoAudit
  <2> QED
    BY <2>1, <2>2, <1>5, <1>31 DEF RecordAccessDenied
<1>6. CASE ChangePasswordCheck(p)
  <2>1. PICK new \in Password : Goto(p, "rekey", [new |-> new])
    BY <1>6 DEF ChangePasswordCheck
  <2>2. GoodProc(At1("rekey", [new |-> new]), acct', vaultFile')
    BY DEF GoodProc
  <2> QED
    BY <2>1, <2>2, <1>6, <1>31 DEF ChangePasswordCheck
<1>7. CASE ChangePasswordCommit(p)
  <2> DEFINE new == proc[p].data.new
  <2>1. /\ acct # NoStore /\ new \in Password /\ vaultFile' = vaultFile /\ Goto(p, "idle", Null)
        /\ acct' = [acct EXCEPT !.salt = @ + 1, !.envelope = Muk(new, acct.salt + 1)]
    BY <1>7, <1>b DEF ChangePasswordCommit, At, GoodProc, Done
  <2> HIDE DEF new
  <2>2. /\ acct' = [salt |-> acct'.salt, envelope |-> acct'.envelope, reg |-> acct'.reg,
                    peers |-> acct'.peers, audit |-> acct.audit]
        /\ acct'.salt = acct.salt + 1 /\ acct'.envelope = Muk(new, acct.salt + 1)
        /\ acct'.reg = acct.reg /\ acct'.peers = acct.peers
    BY <2>1, <1>e
  <2>3. acct'.salt \in Nat /\ \E w \in Password : acct'.envelope = Muk(w, acct'.salt)
    BY <2>1, <2>2, <1>e
  <2>4. GoodStore(acct') /\ acct' # NoStore /\ \A f : Bounded(acct, f) => Bounded(acct', f)
    BY <2>2, <2>3, <1>a, <1>e, UpdateStore
  <2>5. Advances(acct, acct')
    BY <2>2, SameReg
  <2>6. Work
    BY <2>1, <2>4, <2>5, <1>a, StoreWork
  <2> QED
    BY <2>1, <2>6, <1>32, <1>h
<1>8. CASE CreateVaultFile(p)
  <2>1. PICK v \in OwnVault, base \in Base :
          /\ acct.reg[v] = Unregistered /\ vaultFile[v] = Null
          /\ vaultFile' = [vaultFile EXCEPT ![v] = 0]
          /\ Goto(p, "register", [vault |-> v, name |-> <<base, 0>>])
    BY <1>8 DEF CreateVaultFile
  <2>2. Work
    BY <2>1, <1>8, <1>c, FileWork DEF CreateVaultFile
  <2>3. GoodProc(At1("register", [vault |-> v, name |-> <<base, 0>>]), acct', vaultFile')
    BY <1>c DEF GoodProc
  <2> QED
    BY <2>1, <2>2, <2>3, <1>a, GotoSets, ProcStep
<1>9. CASE InsertRegistryRow(p)
  <2> DEFINE v == proc[p].data.vault
             row == [name |-> proc[p].data.name, deleted |-> FALSE]
  <2>1. /\ acct # NoStore /\ v \in Vault /\ vaultFile' = vaultFile /\ Goto(p, "idle", Null)
        /\ acct' = IF acct.reg[v] # Unregistered THEN acct ELSE [acct EXCEPT !.reg[v] = row]
    BY <1>9, <1>b DEF InsertRegistryRow, At, GoodProc, Done
  <2>2. row = [name |-> row.name, deleted |-> row.deleted] /\ row.deleted \in BOOLEAN
        /\ row # Unregistered
    BY NullAssumption DEF Unregistered
  <2> HIDE DEF v, row
  <2>3. CASE acct.reg[v] # Unregistered
    BY <2>1, <2>3, <1>31, GotoPlain
  <2>4. CASE acct.reg[v] = Unregistered
    <3>1. /\ acct' = [salt |-> acct'.salt, envelope |-> acct'.envelope, reg |-> acct'.reg,
                      peers |-> acct'.peers, audit |-> acct.audit]
          /\ acct'.salt = acct.salt /\ acct'.envelope = acct.envelope
          /\ acct'.reg = [acct.reg EXCEPT ![v] = row] /\ acct'.peers = acct.peers
      BY <2>1, <2>4, <1>e
    <3>2. /\ acct'.reg = [u \in Vault |-> acct'.reg[u]] /\ acct'.reg[v] = row
          /\ \A u \in Vault \ {v} : acct'.reg[u] = acct.reg[u]
      BY <3>1, <2>1, <1>e
    <3>3. GoodStore(acct') /\ acct' # NoStore /\ \A f : Bounded(acct, f) => Bounded(acct', f)
      BY <3>1, <3>2, <2>1, <2>2, <2>4, <1>a, <1>e, UpdateStore
    <3>4. Advances(acct, acct')
      BY <3>2, <2>4, <2>1 DEF Advances, LiveVaults
    <3>5. Work
      BY <2>1, <3>3, <3>4, <1>a, StoreWork
    <3> QED
      BY <2>1, <3>5, <1>32, <1>h
  <2> QED
    BY <2>3, <2>4
<1>10. CASE SoftDeleteVault(p)
  <2>1. PICK v \in LiveVaults(acct) : acct' = [acct EXCEPT !.reg[v].deleted = TRUE]
    BY <1>10 DEF SoftDeleteVault
  <2>2. acct # NoStore /\ v \in Vault /\ acct.reg[v] # Unregistered /\ vaultFile' = vaultFile /\ proc' = proc
    BY <1>10, <2>1 DEF SoftDeleteVault, LiveVaults
  <2>3. /\ acct' = [salt |-> acct'.salt, envelope |-> acct'.envelope, reg |-> acct'.reg,
                    peers |-> acct'.peers, audit |-> acct.audit]
        /\ acct'.salt = acct.salt /\ acct'.envelope = acct.envelope
        /\ acct'.reg = [acct.reg EXCEPT ![v].deleted = TRUE] /\ acct'.peers = acct.peers
    BY <2>1, <1>e
  <2>4. /\ acct'.reg = [u \in Vault |-> acct'.reg[u]]
        /\ acct'.reg[v] = [name |-> acct.reg[v].name, deleted |-> TRUE]
        /\ \A u \in Vault \ {v} : acct'.reg[u] = acct.reg[u]
    BY <2>2, <2>3, <1>e
  <2>5. /\ acct'.reg[v] # Unregistered
        /\ acct'.reg[v] = [name |-> acct'.reg[v].name, deleted |-> acct'.reg[v].deleted]
        /\ acct'.reg[v].deleted \in BOOLEAN
    <3> DEFINE row == [name |-> acct.reg[v].name, deleted |-> TRUE]
    <3>1. row = [name |-> row.name, deleted |-> row.deleted] /\ row.deleted \in BOOLEAN
          /\ row # Unregistered
      BY NullAssumption DEF Unregistered
    <3>2. acct'.reg[v] = row
      BY <2>4
    <3> HIDE DEF row
    <3> QED
      BY <3>1, <3>2
  <2>6. GoodStore(acct') /\ acct' # NoStore /\ \A f : Bounded(acct, f) => Bounded(acct', f)
    <3>1. acct'.reg = [u \in Vault |-> acct'.reg[u]] /\ \A u \in Vault \ {v} : acct'.reg[u] = acct.reg[u]
      BY <2>4
    <3>2. \A u \in Vault : acct'.reg[u] # Unregistered =>
            /\ acct'.reg[u] = [name |-> acct'.reg[u].name, deleted |-> acct'.reg[u].deleted]
            /\ acct'.reg[u].deleted \in BOOLEAN
      <4> TAKE u \in Vault
      <4>1. CASE u = v
        BY <4>1, <2>5, Zenon
      <4>2. CASE u # v
        <5>1. acct'.reg[u] = acct.reg[u]
          BY <4>2, <3>1
        <5> QED
          BY <5>1, <1>e
      <4> QED
        BY <4>1, <4>2
    <3>3. \A u \in Vault : acct.reg[u] # Unregistered => acct'.reg[u] # Unregistered
      BY <2>5, <3>1
    <3>4. acct'.salt \in Nat /\ (\E w \in Password : acct'.envelope = Muk(w, acct'.salt))
          /\ acct'.peers \subseteq Peer
      BY <2>2, <2>3, <1>e
    <3>5. acct' = [salt |-> acct'.salt, envelope |-> acct'.envelope, reg |-> acct'.reg,
                   peers |-> acct'.peers, audit |-> acct.audit]
      BY <2>3
    <3> QED
      BY <3>1, <3>2, <3>3, <3>4, <3>5, <1>a, UpdateStore
  <2>7. Advances(acct, acct')
    BY <2>1, <2>2, <2>4, <2>5 DEF Advances, LiveVaults
  <2>8. Work
    BY <2>2, <2>6, <2>7, <1>a, StoreWork
  <2> QED
    BY <2>2, <2>8, <1>a, ProcStays
<1>11. CASE Mutate(p)
  <2>1. PICK v \in Vault :
          /\ CanOpen(v)
          /\ vaultFile' = [vaultFile EXCEPT ![v] = vaultFile[v] + 1]
          /\ Goto(p, "audit", [kind |-> ItemKind("item_update", v, vaultFile[v] + 1)])
    BY <1>11 DEF Mutate, RecordAudit
  <2> DEFINE k == ItemKind("item_update", v, vaultFile[v] + 1)
  <2>2. acct' = acct /\ acct.reg[v] # Unregistered /\ vaultFile[v] \in Nat /\ v \in Nat
    BY <2>1, <1>11, <1>a, <1>c DEF Mutate, CanOpen, LiveVaults, VaultFiles
  <2>3. Work
    <3>1. PICK n \in Nat : n = vaultFile[v] + 1
      BY <2>2
    <3>2. vaultFile[v] # Null /\ vaultFile[v] <= n /\ vaultFile' = [vaultFile EXCEPT ![v] = n]
      BY <2>1, <2>2, <3>1 DEF CanOpen
    <3> QED
      BY <2>2, <3>2, FileWork
  <2>4. vaultFile'[v] = vaultFile[v] + 1
    BY <2>1, <1>a DEF VaultFiles
  <2>5. GoodKind(k) /\ k.data["vault_id"] = v /\ k.data["item_id"] = vaultFile[v] + 1
    BY <2>2, ItemGood
  <2> HIDE DEF k
  <2>6. GoodProc(At1("audit", [kind |-> k]), acct', vaultFile')
    <3>1. /\ k.data["vault_id"] \in Vault /\ acct'.reg[k.data["vault_id"]] # Unregistered
          /\ k.data["item_id"] <= vaultFile'[k.data["vault_id"]]
      BY <2>2, <2>4, <2>5
    <3> DEFINE data == [kind |-> k]
    <3>2. data.kind = k
      OBVIOUS
    <3> HIDE DEF data
    <3>3. GoodProc([session |-> proc[p].session, pc |-> "audit", data |-> data],
                   acct', vaultFile')
      BY <2>5, <3>1, <3>2, GotoAudit
    <3> QED
      BY <3>3 DEF data
  <2> QED
    BY <2>1, <2>3, <2>6, <1>32 DEF k
<1>12. CASE SecretRead(p)
  <2>1. PICK v \in Vault, field \in {Null, << 1 >>} :
          /\ CanOpen(v)
          /\ Goto(p, "audit", [kind |-> ReadKind(v, vaultFile[v], field)])
    BY <1>12 DEF SecretRead, RecordAudit
  <2> DEFINE k == ReadKind(v, vaultFile[v], field)
  <2>2. /\ acct' = acct /\ vaultFile' = vaultFile
        /\ acct.reg[v] # Unregistered /\ vaultFile[v] \in Nat /\ v \in Nat
    BY <2>1, <1>12, <1>a, <1>c DEF SecretRead, CanOpen, LiveVaults, VaultFiles
  <2>3. GoodKind(k) /\ k.data["vault_id"] = v /\ k.data["item_id"] = vaultFile[v]
    BY <2>2, ReadGood
  <2> HIDE DEF k
  <2>4. GoodProc(At1("audit", [kind |-> k]), acct', vaultFile')
    BY <2>2, <2>3, GotoAudit
  <2> QED
    BY <2>1, <2>2, <2>4, <1>31 DEF k
<1>13. CASE TrustPeerDevice(p)
  <2>1. PICK d \in Peer :
          /\ acct' = [acct EXCEPT !.peers = @ \cup {d}]
          /\ Goto(p, "audit", [kind |-> PeerKind(d)])
    BY <1>13 DEF TrustPeerDevice, RecordAudit
  <2>2. acct # NoStore /\ vaultFile' = vaultFile
    BY <1>13 DEF TrustPeerDevice
  <2>3. /\ acct' = [salt |-> acct'.salt, envelope |-> acct'.envelope, reg |-> acct'.reg,
                    peers |-> acct'.peers, audit |-> acct.audit]
        /\ acct'.salt = acct.salt /\ acct'.envelope = acct.envelope
        /\ acct'.reg = acct.reg /\ acct'.peers = acct.peers \cup {d}
    BY <2>1, <1>e
  <2>4. GoodStore(acct') /\ acct' # NoStore /\ \A f : Bounded(acct, f) => Bounded(acct', f)
    BY <2>2, <2>3, <1>a, <1>e, UpdateStore
  <2>5. Advances(acct, acct')
    BY <2>3, SameReg
  <2>6. Work
    BY <2>2, <2>4, <2>5, <1>a, StoreWork
  <2>7. GoodProc(At1("audit", [kind |-> PeerKind(d)]), acct', vaultFile')
    BY <1>c, PeerGood, GotoAudit
  <2> QED
    BY <2>1, <2>6, <2>7, <1>32
<1>14. CASE ShareVaultKeyToPeer(p)
  <2>1. PICK v \in LiveVaults(acct), d \in acct.peers : Goto(p, "audit", [kind |-> ShareKind(v, d)])
    BY <1>14 DEF ShareVaultKeyToPeer, RecordAudit
  <2>2. v \in Nat /\ d \in Nat
    BY <2>1, <1>c, <1>e DEF LiveVaults
  <2>3. GoodProc(At1("audit", [kind |-> ShareKind(v, d)]), acct', vaultFile')
    BY <2>2, ShareGood, GotoAudit
  <2> QED
    BY <2>1, <2>3, <1>14, <1>31 DEF ShareVaultKeyToPeer
<1>15. CASE ImportSharedVaultKey(p)
  <2>0. PICK v \in SharedVault : \E name : Goto(p, "adopt", [vault |-> v, name |-> name])
    BY <1>15 DEF ImportSharedVaultKey
  <2>1. PICK name : Goto(p, "adopt", [vault |-> v, name |-> name])
    BY <2>0
  <2>2. GoodProc(At1("adopt", [vault |-> v, name |-> name]), acct', vaultFile')
    BY <1>c DEF GoodProc
  <2> QED
    BY <2>1, <2>2, <1>15, <1>31 DEF ImportSharedVaultKey
<1>16. CASE RegisterSharedVault(p)
  <2> DEFINE v == proc[p].data.vault
  <2>1. v \in Vault
    BY <1>16, <1>b DEF RegisterSharedVault, At, GoodProc
  <2>2. CASE acct.reg[v] # Unregistered
    <3>1. Goto(p, "idle", Null) /\ UNCHANGED <<acct, vaultFile>>
      BY <1>16, <2>2 DEF RegisterSharedVault, Done
    <3> QED
      BY <3>1, <1>31, <1>h
  <2>3. CASE acct.reg[v] = Unregistered
    <3>1. /\ vaultFile' = [vaultFile EXCEPT ![v] = IF @ = Null THEN 0 ELSE @]
          /\ Goto(p, "register", proc[p].data) /\ acct' = acct
      BY <1>16, <2>3 DEF RegisterSharedVault
    <3>2. PICK n \in Nat : n = IF vaultFile[v] = Null THEN 0 ELSE vaultFile[v]
      BY <1>a, <2>1 DEF VaultFiles
    <3>3. vaultFile' = [vaultFile EXCEPT ![v] = n]
      BY <3>1, <3>2
    <3>4. Work
      <4>1. vaultFile[v] # Null => vaultFile[v] <= n
        BY <3>2
      <4> HIDE DEF v
      <4> QED
        BY <3>1, <3>3, <4>1, <2>1, <2>3, FileWork
    <3>5. GoodProc(At1("register", proc[p].data), acct', vaultFile')
      BY <2>1 DEF GoodProc
    <3> QED
      BY <3>1, <3>4, <3>5, <1>32
  <2> QED
    BY <2>2, <2>3
<1>17. CASE AuditRead(p)
  <2> DEFINE data == [kind |-> proc[p].data.kind, seen |-> acct]
  <2>1. Goto(p, "append", data) /\ UNCHANGED <<acct, vaultFile>> /\ proc[p].pc = "audit"
    BY <1>17 DEF AuditRead, At
  <2>2. data.kind = proc[p].data.kind
    OBVIOUS
  <2> HIDE DEF data
  <2>3. GoodProc(At1("append", data), acct', vaultFile')
    BY <2>1, <2>2, <1>b, GotoAudit DEF GoodProc
  <2> QED
    BY <2>1, <2>3, <1>31
<1>18. CASE AuditCommit(p)
  <2> DEFINE k == proc[p].data.kind
  <2>1. /\ acct # NoStore /\ proc[p].pc = "append" /\ vaultFile' = vaultFile /\ Goto(p, "idle", Null)
        /\ proc[p].data.seen = acct
        /\ acct' = [acct EXCEPT !.audit = Append(@, NextRow(proc[p].data.seen.audit, k, Null,
                                                            CurrentOrigin(Null, ThisProcess)))]
    BY <1>18 DEF AuditCommit, At, Unchanged, Done
  <2>2. acct' = [acct EXCEPT !.audit = Append(@, NextRow(acct.audit, k, Null,
                                                         CurrentOrigin(Null, ThisProcess)))]
    BY <2>1
  <2>3. /\ GoodKind(k)
        /\ "item_id" \in KindFields(k.label) =>
             /\ k.data["vault_id"] \in Vault /\ acct.reg[k.data["vault_id"]] # Unregistered
             /\ vaultFile[k.data["vault_id"]] # Null =>
                  k.data["item_id"] <= vaultFile[k.data["vault_id"]]
    BY <2>1, <1>b DEF GoodProc
  <2> HIDE DEF k
  <2>4. GoodStore(acct') /\ acct' # NoStore /\ acct'.reg = acct.reg /\ Bounded(acct', vaultFile)
    BY <2>1, <2>2, <2>3, <1>a, AppendStore
  <2>5. Advances(acct, acct')
    BY <2>4, SameReg
  <2>6. Work
    BY <2>1, <2>4, <2>5, StoreWork
  <2> QED
    BY <2>1, <2>6, <1>32, <1>h
<1>19. CASE AuditFail(p)
  BY <1>19, <1>31, <1>h DEF AuditFail, Done
<1>20. CASE RestoreSingleItem(p)
  <2>1. PICK v \in Vault :
          /\ CanOpen(v)
          /\ vaultFile' = [vaultFile EXCEPT ![v] = vaultFile[v] + 1]
          /\ Goto(p, "audit", [kind |-> ItemKind("item_create", v, vaultFile[v] + 1)])
    BY <1>20 DEF RestoreSingleItem, RecordAudit
  <2> DEFINE k == ItemKind("item_create", v, vaultFile[v] + 1)
  <2>2. acct' = acct /\ acct.reg[v] # Unregistered /\ vaultFile[v] \in Nat /\ v \in Nat
    BY <2>1, <1>20, <1>a, <1>c DEF RestoreSingleItem, CanOpen, LiveVaults, VaultFiles
  <2>3. Work
    <3>1. PICK n \in Nat : n = vaultFile[v] + 1
      BY <2>2
    <3>2. vaultFile[v] # Null /\ vaultFile[v] <= n /\ vaultFile' = [vaultFile EXCEPT ![v] = n]
      BY <2>1, <2>2, <3>1 DEF CanOpen
    <3> QED
      BY <2>2, <3>2, FileWork
  <2>4. vaultFile'[v] = vaultFile[v] + 1
    BY <2>1, <1>a DEF VaultFiles
  <2>5. GoodKind(k) /\ k.data["vault_id"] = v /\ k.data["item_id"] = vaultFile[v] + 1
    BY <2>2, ItemGood
  <2> HIDE DEF k
  <2>6. GoodProc(At1("audit", [kind |-> k]), acct', vaultFile')
    <3>1. /\ k.data["vault_id"] \in Vault /\ acct'.reg[k.data["vault_id"]] # Unregistered
          /\ k.data["item_id"] <= vaultFile'[k.data["vault_id"]]
      BY <2>2, <2>4, <2>5
    <3> DEFINE data == [kind |-> k]
    <3>2. data.kind = k
      OBVIOUS
    <3> HIDE DEF data
    <3>3. GoodProc([session |-> proc[p].session, pc |-> "audit", data |-> data],
                   acct', vaultFile')
      BY <2>5, <3>1, <3>2, GotoAudit
    <3> QED
      BY <3>3 DEF data
  <2> QED
    BY <2>1, <2>3, <2>6, <1>32 DEF k
<1> QED
  BY <1>1, <1>2, <1>3, <1>4, <1>5, <1>6, <1>7, <1>8, <1>9, <1>10, <1>11, <1>12, <1>13, <1>14,
     <1>15, <1>16, <1>17, <1>18, <1>19, <1>20 DEF WorkStep

-----------------------------------------------------------------------------
(* The invariant.                                                          *)

\* Before anything is there, nothing is wrong.
LEMMA InitProfile == Init => ProfileInv
<1> SUFFICES ASSUME Init
             PROVE  ProfileInv
  OBVIOUS
<1>1. /\ acct = NoStore /\ vaultFile = [v \in Vault |-> Null] /\ proc = [p \in Proc |-> Idle]
      /\ backups = [t \in Time |-> Null] /\ job = Null /\ pre = NoAside
  BY DEF Init, AccountInit
<1>2. LiveInv
  BY <1>1, NoStoreGood DEF LiveInv, VaultFiles
<1>3. GoodProc(Idle, acct, vaultFile)
  BY DEF GoodProc, Idle
<1>4. ProcInv
  BY <1>1, <1>3 DEF ProcInv
<1>5. BackupsInv /\ CreateInv /\ RestoreInv
  BY <1>1 DEF BackupsInv, CreateInv, RestoreInv
<1> QED
  BY <1>2, <1>4, <1>5 DEF ProfileInv

\* Beside a backup being made, processes only move the profile further ahead of the copy:
\* no vault the copied registry lists gets a new file, or comes back from deletion.
LEMMA WorkKeepsProfile ==
    ASSUME ProfileInv, Settled, Work, ProcInv', UNCHANGED bvars
    PROVE  ProfileInv'
<1>1. backups' = backups /\ aside' = aside /\ job' = job /\ pre' = pre /\ pre = NoAside
  BY DEF bvars, Settled
<1>2. LiveInv'
  BY DEF Work, LiveInv
<1>3. BackupsInv'
  BY <1>1 DEF ProfileInv, BackupsInv, Work, Grows, Settled
<1>4. RestoreInv'
  BY <1>1 DEF ProfileInv, RestoreInv
<1>5. CreateInv'
  <2> SUFFICES ASSUME job # Null, job.op = "create"
               PROVE  CreateInv'
    BY <1>1 DEF CreateInv
  <2> DEFINE b == backups[job.dir]
             a == b.files.acct
  <2>1. /\ job = [op |-> "create", dir |-> job.dir, step |-> job.step, todo |-> job.todo]
        /\ job.dir \in Time /\ job.todo \subseteq Vault /\ acct # NoStore
        /\ job.step \in {"account", "list", "vaults", "prune"}
        /\ GoodBackup(b)
        /\ job.step # "prune" => b.manifest = Null
        /\ job.step = "account" => b.files = NoFiles
    BY DEF ProfileInv, CreateInv
  <2>2. acct' # NoStore
    BY <2>1 DEF Work, Grows
  <2>3. ASSUME job.step \in {"list", "vaults"}
        PROVE  a # NoStore /\ Advances(a, acct) /\ Bounded(a, vaultFile)
    BY <2>3 DEF ProfileInv, CreateInv
  <2>4. ASSUME job.step \in {"list", "vaults"}
        PROVE  a # NoStore /\ Advances(a, acct') /\ Bounded(a, vaultFile')
    <3>1. GoodStore(a)
      BY <2>1 DEF GoodBackup, GoodFiles
    <3>2. Advances(acct, acct') /\ vaultFile \in VaultFiles /\ vaultFile' \in VaultFiles
      BY DEF Work, Grows, ProfileInv, LiveInv
    <3> HIDE DEF a
    <3>3. Advances(a, acct')
      BY <2>3, <2>4, <3>2, AdvancesTransitive
    <3>4. \A v \in Vault : a.reg[v] # Unregistered /\ vaultFile'[v] # Null =>
                             vaultFile[v] # Null /\ vaultFile[v] <= vaultFile'[v]
      BY <2>3, <2>4 DEF Work, Grows, Advances
    <3>5. Bounded(a, vaultFile')
      BY <2>3, <2>4, <3>1, <3>2, <3>4, BoundedGrows
    <3> QED
      BY <2>3, <2>4, <3>3, <3>5
  <2>5. ASSUME job.step = "vaults", NEW v \in LiveVaults(a) \cap LiveVaults(acct'),
               vaultFile'[v] # Null
        PROVE  v \in job.todo \/ b.files.vaults[v] # Null
    <3>1. v \in Vault /\ a.reg[v] # Unregistered
      BY DEF LiveVaults
    <3>2. acct.reg[v] # Unregistered
      BY <2>3, <2>5, <3>1 DEF Advances
    <3>3. v \in LiveVaults(acct)
      BY <3>1, <3>2, <2>5 DEF Work, Grows, Advances
    <3>4. vaultFile[v] # Null
      BY <3>1, <3>2, <2>5 DEF Work, Grows
    <3> QED
      BY <3>3, <3>4, <2>5 DEF ProfileInv, CreateInv
  <2>6. b' = b /\ a' = a
    BY <1>1
  <2> HIDE DEF b, a
  <2> QED
    BY <1>1, <2>1, <2>2, <2>4, <2>5, <2>6 DEF CreateInv, b, a
<1> QED
  BY <1>2, <1>3, <1>4, <1>5 DEF ProfileInv

\* The steps of making a backup touch its directory only.
LEMMA DirStep ==
    ASSUME ProfileInv, Settled, acct # NoStore, UNCHANGED <<acct, vaultFile, proc, aside, pre>>,
           backups' = [t \in Time |-> backups'[t]],
           \A t \in Time : backups'[t] # Null => GoodBackup(backups'[t])
    PROVE  LiveInv' /\ ProcInv' /\ BackupsInv' /\ ((job' = Null \/ job'.op = "create") => RestoreInv')
<1>1. acct' = acct /\ vaultFile' = vaultFile /\ proc' = proc /\ aside' = aside /\ pre' = pre
      /\ pre = NoAside
  BY DEF Settled
<1>2. LiveInv' /\ ProcInv'
  BY <1>1 DEF ProfileInv, LiveInv, ProcInv, Settled
<1>3. BackupsInv'
  BY <1>1 DEF ProfileInv, BackupsInv
<1>4. (job' = Null \/ job'.op = "create") => RestoreInv'
  BY <1>1 DEF RestoreInv
<1> QED
  BY <1>2, <1>3, <1>4

\* One directory is written, the others stay.
LEMMA DirWrite ==
    ASSUME ProfileInv, NEW d \in Time, NEW x, x # Null => GoodBackup(x),
           backups' = [backups EXCEPT ![d] = x]
    PROVE  /\ backups' = [t \in Time |-> backups'[t]] /\ backups'[d] = x
           /\ \A t \in Time \ {d} : backups'[t] = backups[t]
           /\ \A t \in Time : backups'[t] # Null => GoodBackup(backups'[t])
<1>1. backups = [t \in Time |-> backups[t]]
      /\ \A t \in Time : backups[t] # Null => GoodBackup(backups[t])
  BY DEF ProfileInv, BackupsInv
<1>2. /\ backups' = [t \in Time |-> backups'[t]] /\ backups'[d] = x
      /\ \A t \in Time \ {d} : backups'[t] = backups[t]
  BY <1>1
<1> QED
  BY <1>1, <1>2

LEMMA CreateBackupKeeps ==
    ASSUME ProfileInv, CreateBackup
    PROVE  ProfileInv'
<1>1. PICK t \in Time :
        /\ backups' = [backups EXCEPT ![t] = [files |-> NoFiles, manifest |-> Null]]
        /\ job' = [op |-> "create", dir |-> t, step |-> "account", todo |-> {}]
  BY DEF CreateBackup
<1> DEFINE x == [files |-> NoFiles, manifest |-> Null]
<1>2. GoodBackup(x) /\ x.files = NoFiles /\ x.manifest = Null
  BY NoFilesGood DEF GoodBackup
<1>3. /\ Settled /\ pre' = NoAside /\ acct # NoStore /\ acct' = acct
      /\ UNCHANGED <<acct, vaultFile, proc, aside, pre>>
  BY DEF CreateBackup, Settled
<1>4. backups' = [backups EXCEPT ![t] = x]
  BY <1>1
<1> HIDE DEF x
<1>5. /\ backups' = [u \in Time |-> backups'[u]] /\ backups'[t] = x
      /\ \A u \in Time : backups'[u] # Null => GoodBackup(backups'[u])
  BY <1>2, <1>4, DirWrite
<1>6. job'.op = "create" /\ job'.dir = t /\ job'.step = "account" /\ job'.todo = {}
  BY <1>1
<1>7. LiveInv' /\ ProcInv' /\ BackupsInv' /\ RestoreInv'
  BY <1>3, <1>5, <1>6, DirStep
<1>8. CreateInv'
  BY <1>1, <1>2, <1>3, <1>5, <1>6 DEF CreateInv
<1> QED
  BY <1>7, <1>8 DEF ProfileInv

\* What CreateInv says while a backup is made.
LEMMA CreateFacts ==
    ASSUME ProfileInv, job # Null, job.op = "create"
    PROVE  LET b == backups[job.dir] IN
           /\ job = [op |-> "create", dir |-> job.dir, step |-> job.step, todo |-> job.todo]
           /\ job.dir \in Time /\ job.todo \subseteq Vault /\ Settled /\ acct # NoStore
           /\ GoodBackup(b) /\ b = [files |-> b.files, manifest |-> b.manifest]
           /\ GoodFiles(b.files) /\ b.files = [acct |-> b.files.acct, vaults |-> b.files.vaults]
           /\ GoodStore(b.files.acct) /\ b.files.vaults \in VaultFiles
           /\ Bounded(b.files.acct, b.files.vaults)
           /\ GoodStore(acct) /\ vaultFile \in VaultFiles /\ Bounded(acct, vaultFile)
           /\ backups = [t \in Time |-> backups[t]]
           /\ \A t \in Time : backups[t] # Null => GoodBackup(backups[t])
<1>1. /\ job = [op |-> "create", dir |-> job.dir, step |-> job.step, todo |-> job.todo]
      /\ job.dir \in Time /\ job.todo \subseteq Vault /\ pre = NoAside /\ acct # NoStore
      /\ GoodBackup(backups[job.dir])
  BY DEF ProfileInv, CreateInv
<1>2. GoodStore(acct) /\ vaultFile \in VaultFiles /\ Bounded(acct, vaultFile)
  BY <1>1 DEF ProfileInv, LiveInv, Settled
<1>3. backups = [t \in Time |-> backups[t]]
      /\ \A t \in Time : backups[t] # Null => GoodBackup(backups[t])
  BY DEF ProfileInv, BackupsInv
<1> QED
  BY <1>1, <1>2, <1>3 DEF GoodBackup, GoodFiles, Settled

LEMMA SnapshotAccountKeeps ==
    ASSUME ProfileInv, SnapshotAccount
    PROVE  ProfileInv'
<1> DEFINE d == job.dir
           b == backups[d]
           g == [acct |-> acct, vaults |-> NoFiles.vaults]
           x == [files |-> g, manifest |-> Null]
<1>1. /\ job # Null /\ job.op = "create" /\ job.step = "account"
      /\ backups' = [backups EXCEPT ![job.dir].files.acct = acct]
      /\ job' = [job EXCEPT !.step = "list"]
      /\ UNCHANGED <<acct, vaultFile, proc, aside, pre>>
  BY DEF SnapshotAccount, In
<1>2. b.files = NoFiles /\ b.manifest = Null
  BY <1>1 DEF ProfileInv, CreateInv
<1>3. /\ job = [op |-> "create", dir |-> d, step |-> job.step, todo |-> job.todo]
      /\ d \in Time /\ job.todo \subseteq Vault /\ Settled /\ acct # NoStore
      /\ b = [files |-> b.files, manifest |-> b.manifest]
      /\ GoodStore(acct) /\ vaultFile \in VaultFiles /\ Bounded(acct, vaultFile)
      /\ backups = [t \in Time |-> backups[t]]
  BY <1>1, CreateFacts
<1>4. backups' = [backups EXCEPT ![d] = x]
  <2>1. NoFiles = [acct |-> NoFiles.acct, vaults |-> NoFiles.vaults]
    BY DEF NoFiles
  <2>2. b = [files |-> [acct |-> NoFiles.acct, vaults |-> NoFiles.vaults], manifest |-> Null]
    BY <1>2, <1>3, <2>1
  <2>3. [b EXCEPT !.files.acct = acct] = x
    BY <2>2
  <2> QED
    BY <1>1, <1>3, <2>3
<1>5. Bounded(acct, NoFiles.vaults)
  <2>1. RecordsRegistered(acct) /\ \A v \in Vault : NoFiles.vaults[v] = Null
    BY <1>3 DEF GoodStore, NoFiles
  <2> QED
    BY <2>1 DEF Bounded, RecordsRegistered
<1>6. GoodBackup(x) /\ x.files = g /\ x.manifest = Null /\ g.acct = acct
  <2>1. GoodFiles(g)
    BY <1>3, <1>5, NoFilesGood DEF GoodFiles
  <2> QED
    BY <2>1 DEF GoodBackup
<1>7. job' = [op |-> "create", dir |-> d, step |-> "list", todo |-> job.todo]
  <2> HIDE DEF d
  <2> QED
    BY <1>1, <1>3
<1> HIDE DEF x, g
<1>8. /\ backups' = [u \in Time |-> backups'[u]] /\ backups'[d] = x
      /\ \A u \in Time : backups'[u] # Null => GoodBackup(backups'[u])
  BY <1>3, <1>4, <1>6, DirWrite
<1>9. job'.op = "create" /\ job'.dir = d /\ job'.step = "list" /\ job'.todo = job.todo
  BY <1>7
<1>10. LiveInv' /\ ProcInv' /\ BackupsInv' /\ RestoreInv'
  BY <1>1, <1>3, <1>8, <1>9, DirStep
<1>11. CreateInv'
  <2>1. Advances(acct, acct)
    BY AdvancesReflexive
  <2>2. pre' = NoAside /\ acct' = acct /\ vaultFile' = vaultFile
    BY <1>1, <1>3 DEF Settled
  <2> QED
    BY <2>1, <2>2, <1>3, <1>6, <1>7, <1>8, <1>9 DEF CreateInv
<1> QED
  BY <1>10, <1>11 DEF ProfileInv

LEMMA ListLiveVaultsKeeps ==
    ASSUME ProfileInv, ListLiveVaults
    PROVE  ProfileInv'
<1>1. /\ job # Null /\ job.op = "create" /\ job.step = "list" /\ backups' = backups
      /\ job' = [job EXCEPT !.step = "vaults", !.todo = LiveVaults(acct)]
      /\ UNCHANGED <<acct, vaultFile, proc, aside, pre>>
  BY DEF ListLiveVaults, In
<1>2. /\ job = [op |-> "create", dir |-> job.dir, step |-> job.step, todo |-> job.todo]
      /\ job.dir \in Time /\ Settled /\ acct # NoStore /\ GoodBackup(backups[job.dir])
      /\ backups = [t \in Time |-> backups[t]]
      /\ \A t \in Time : backups[t] # Null => GoodBackup(backups[t])
  BY <1>1, CreateFacts
<1>3. job' = [op |-> "create", dir |-> job.dir, step |-> "vaults", todo |-> LiveVaults(acct)]
  BY <1>1, <1>2
<1>4. job'.op = "create" /\ job'.dir = job.dir /\ job'.step = "vaults" /\ job'.todo = LiveVaults(acct)
  BY <1>3
<1>5. LiveInv' /\ ProcInv' /\ BackupsInv' /\ RestoreInv'
  BY <1>1, <1>2, <1>4, DirStep
<1>6. CreateInv'
  <2>1. /\ backups[job.dir].manifest = Null /\ backups[job.dir].files.acct # NoStore
        /\ Advances(backups[job.dir].files.acct, acct)
        /\ Bounded(backups[job.dir].files.acct, vaultFile)
    BY <1>1 DEF ProfileInv, CreateInv
  <2>2. /\ pre' = NoAside /\ acct' = acct /\ vaultFile' = vaultFile
        /\ LiveVaults(acct) \subseteq Vault
    BY <1>1, <1>2 DEF Settled, LiveVaults
  <2> QED
    BY <1>1, <1>2, <1>3, <1>4, <2>1, <2>2 DEF CreateInv
<1> QED
  BY <1>5, <1>6 DEF ProfileInv

LEMMA SnapshotVaultKeeps ==
    ASSUME ProfileInv, SnapshotVault
    PROVE  ProfileInv'
<1>1. PICK v \in job.todo :
        /\ backups' = [backups EXCEPT ![job.dir].files.vaults[v] = vaultFile[v]]
        /\ job' = [job EXCEPT !.todo = @ \ {v}]
  BY DEF SnapshotVault
<1>2. /\ job # Null /\ job.op = "create" /\ job.step = "vaults"
      /\ UNCHANGED <<acct, vaultFile, proc, aside, pre>>
  BY DEF SnapshotVault, In
<1> DEFINE d == job.dir
           b == backups[d]
           a == b.files.acct
           f == [b.files.vaults EXCEPT ![v] = vaultFile[v]]
           g == [acct |-> a, vaults |-> f]
           x == [files |-> g, manifest |-> Null]
<1>3. /\ job = [op |-> "create", dir |-> d, step |-> job.step, todo |-> job.todo]
      /\ d \in Time /\ job.todo \subseteq Vault /\ Settled /\ acct # NoStore
      /\ b = [files |-> b.files, manifest |-> b.manifest]
      /\ b.files = [acct |-> a, vaults |-> b.files.vaults]
      /\ GoodStore(a) /\ b.files.vaults \in VaultFiles /\ Bounded(a, b.files.vaults)
      /\ vaultFile \in VaultFiles
      /\ backups = [t \in Time |-> backups[t]]
  BY <1>2, CreateFacts
<1>4. /\ b.manifest = Null /\ a # NoStore /\ Advances(a, acct) /\ Bounded(a, vaultFile)
      /\ \A u \in LiveVaults(a) \cap LiveVaults(acct) :
           vaultFile[u] # Null => u \in job.todo \/ b.files.vaults[u] # Null
  BY <1>2 DEF ProfileInv, CreateInv
<1>5. v \in Vault
  BY <1>3
<1>6. backups' = [backups EXCEPT ![d] = x]
  <2>1. b = [files |-> [acct |-> a, vaults |-> b.files.vaults], manifest |-> Null]
    BY <1>3, <1>4
  <2>2. [b EXCEPT !.files.vaults[v] = vaultFile[v]] = x
    <3> DEFINE h == b.files.vaults
    <3>1. b = [files |-> [acct |-> a, vaults |-> h], manifest |-> Null]
      BY <2>1
    <3> HIDE DEF h, a, b
    <3>2. [b EXCEPT !.files.vaults[v] = vaultFile[v]]
            = [files |-> [acct |-> a, vaults |-> [h EXCEPT ![v] = vaultFile[v]]], manifest |-> Null]
      BY <3>1
    <3> QED
      BY <3>2 DEF h
  <2> QED
    BY <1>1, <1>3, <2>2
<1>7. /\ f \in VaultFiles /\ f[v] = vaultFile[v]
      /\ \A u \in Vault \ {v} : f[u] = b.files.vaults[u]
  BY <1>3, <1>5 DEF VaultFiles
<1> HIDE DEF f
<1>8. Bounded(a, f)
  <2> SUFFICES ASSUME NEW i \in 1..Len(a.audit), a.audit[i].cols["item_id"] # Null,
                      f[a.audit[i].cols["vault_id"]] # Null
               PROVE  a.audit[i].cols["item_id"] <= f[a.audit[i].cols["vault_id"]]
    BY DEF Bounded
  <2>1. a.audit[i].cols["vault_id"] \in Vault
    BY <1>3 DEF GoodStore, RecordsRegistered
  <2>2. CASE a.audit[i].cols["vault_id"] = v
    BY <2>2, <1>4, <1>7 DEF Bounded
  <2>3. CASE a.audit[i].cols["vault_id"] # v
    BY <2>1, <2>3, <1>3, <1>7 DEF Bounded
  <2> QED
    BY <2>2, <2>3
<1>9. GoodBackup(x) /\ x.files = g /\ x.manifest = Null /\ g.acct = a /\ g.vaults = f
  <2>1. GoodFiles(g)
    BY <1>3, <1>7, <1>8 DEF GoodFiles
  <2> QED
    BY <2>1 DEF GoodBackup
<1>10. /\ job' = [op |-> "create", dir |-> d, step |-> "vaults", todo |-> job.todo \ {v}]
  <2> HIDE DEF d
  <2> QED
    BY <1>1, <1>2, <1>3
<1> HIDE DEF x, g, a
<1>11. /\ backups' = [u \in Time |-> backups'[u]] /\ backups'[d] = x
       /\ \A u \in Time : backups'[u] # Null => GoodBackup(backups'[u])
  BY <1>3, <1>6, <1>9, DirWrite
<1>12. job'.op = "create" /\ job'.dir = d /\ job'.step = "vaults" /\ job'.todo = job.todo \ {v}
  BY <1>10
<1>13. LiveInv' /\ ProcInv' /\ BackupsInv' /\ RestoreInv'
  BY <1>2, <1>3, <1>11, <1>12, DirStep
<1>14. CreateInv'
  <2>1. pre' = NoAside /\ acct' = acct /\ vaultFile' = vaultFile
    BY <1>2, <1>3 DEF Settled
  <2>2. \A u \in LiveVaults(a) \cap LiveVaults(acct) :
          vaultFile[u] # Null => u \in job.todo \ {v} \/ f[u] # Null
    <3> TAKE u \in LiveVaults(a) \cap LiveVaults(acct)
    <3>1. u \in Vault
      BY DEF LiveVaults
    <3> QED
      BY <3>1, <1>4, <1>7
  <2> QED
    BY <2>1, <2>2, <1>3, <1>4, <1>9, <1>10, <1>11, <1>12 DEF CreateInv
<1> QED
  BY <1>13, <1>14 DEF ProfileInv

LEMMA WriteManifestKeeps ==
    ASSUME ProfileInv, WriteManifest
    PROVE  ProfileInv' /\ backups'[job.dir] = [files |-> backups[job.dir].files,
                                               manifest |-> backups[job.dir].files]
           /\ \A t \in Time \ {job.dir} : backups'[t] = backups[t]
<1> DEFINE d == job.dir
           b == backups[d]
           x == [files |-> b.files, manifest |-> b.files]
<1>1. /\ job # Null /\ job.op = "create" /\ job.step = "vaults"
      /\ backups' = [backups EXCEPT ![job.dir].manifest = backups[job.dir].files]
      /\ job' = [job EXCEPT !.step = "prune"]
      /\ UNCHANGED <<acct, vaultFile, proc, aside, pre>>
  BY DEF WriteManifest, In
<1>2. /\ job = [op |-> "create", dir |-> d, step |-> job.step, todo |-> job.todo]
      /\ d \in Time /\ job.todo \subseteq Vault /\ Settled /\ acct # NoStore
      /\ b = [files |-> b.files, manifest |-> b.manifest] /\ GoodFiles(b.files)
      /\ backups = [t \in Time |-> backups[t]]
  BY <1>1, CreateFacts
<1>3. backups' = [backups EXCEPT ![d] = x]
  <2>1. [b EXCEPT !.manifest = b.files] = x
    BY <1>2
  <2> QED
    BY <1>1, <1>2, <2>1
<1>4. GoodBackup(x)
  BY <1>2 DEF GoodBackup
<1>5. job' = [op |-> "create", dir |-> d, step |-> "prune", todo |-> job.todo]
  <2> HIDE DEF d
  <2> QED
    BY <1>1, <1>2
<1>6. job'.op = "create" /\ job'.dir = d /\ job'.step = "prune" /\ job'.todo = job.todo
  BY <1>5
<1> HIDE DEF x
<1>7. /\ backups' = [u \in Time |-> backups'[u]] /\ backups'[d] = x
      /\ \A u \in Time \ {d} : backups'[u] = backups[u]
      /\ \A u \in Time : backups'[u] # Null => GoodBackup(backups'[u])
  BY <1>2, <1>3, <1>4, DirWrite
<1>8. LiveInv' /\ ProcInv' /\ BackupsInv' /\ RestoreInv'
  BY <1>1, <1>2, <1>6, <1>7, DirStep
<1>9. CreateInv'
  <2>1. pre' = NoAside /\ acct' = acct
    BY <1>1, <1>2 DEF Settled
  <2> QED
    BY <2>1, <1>2, <1>4, <1>5, <1>6, <1>7 DEF CreateInv
<1> QED
  BY <1>7, <1>8, <1>9 DEF ProfileInv, x

\* Rotation, failures and a process that dies while it makes or rotates backups: the
\* command ends, and the directories that remain are as good as they were.
LEMMA CreateEndsKeeps ==
    ASSUME ProfileInv, PruneOld \/ CreateBackupFails \/ KillPrune
    PROVE  /\ ProfileInv' /\ backups' = [t \in Time |-> backups'[t]]
           /\ \A t \in Time : backups'[t] # Null /\ backups'[t].manifest # Null => t \in Listed
<1>1. /\ job # Null /\ job.op = "create" /\ job' = Null
      /\ UNCHANGED <<acct, vaultFile, proc, aside, pre>>
  BY DEF PruneOld, CreateBackupFails, KillPrune, In, Clear
<1>2. /\ job.dir \in Time /\ Settled /\ acct # NoStore
      /\ backups = [t \in Time |-> backups[t]]
      /\ \A t \in Time : backups[t] # Null => GoodBackup(backups[t])
  BY <1>1, CreateFacts
<1>3. /\ backups' = [t \in Time |-> backups'[t]]
      /\ \A t \in Time : backups'[t] # Null => GoodBackup(backups'[t])
      /\ \A t \in Time : backups'[t] # Null /\ backups'[t].manifest # Null => t \in Listed
  <2>1. CASE PruneOld
    <3>1. backups' = [t \in Time |-> IF t \in Prunable THEN Null ELSE backups[t]]
      BY <2>1 DEF PruneOld
    <3> QED
      BY <3>1, <1>2 DEF Listed
  <2>2. CASE CreateBackupFails
    <3>1. backups' = [backups EXCEPT ![job.dir] = Null]
      BY <2>2 DEF CreateBackupFails
    <3> QED
      BY <3>1, <1>2 DEF Listed
  <2>3. CASE KillPrune
    <3>1. PICK t \in Prunable, left \in BOOLEAN :
            backups' = [backups EXCEPT ![t].files = NoFiles,
                                       ![t].manifest = IF left THEN @ ELSE Null]
      BY <2>3 DEF KillPrune
    <3>2. t \in Time /\ backups[t] # Null /\ backups[t].manifest # Null
      BY <3>1 DEF Prunable, Listed
    <3> DEFINE m == backups[t].manifest
               n == IF left THEN m ELSE Null
               x == [files |-> NoFiles, manifest |-> n]
    <3>3. backups[t] = [files |-> backups[t].files, manifest |-> m] /\ GoodFiles(m)
      BY <1>2, <3>2 DEF GoodBackup
    <3>4. backups' = [backups EXCEPT ![t] = x]
      <4>1. backups'[t] = x
        BY <3>1, <3>2, <3>3, <1>2
      <4>2. /\ backups' = [u \in Time |-> backups'[u]]
            /\ \A u \in Time \ {t} : backups'[u] = backups[u]
        BY <3>1, <1>2
      <4> HIDE DEF x
      <4> QED
        BY <3>2, <4>1, <4>2, <1>2
    <3>5. GoodBackup(x)
      <4>1. n # Null => GoodFiles(n)
        BY <3>3
      <4> HIDE DEF n
      <4> QED
        BY <4>1, NoFilesGood DEF GoodBackup
    <3> HIDE DEF x
    <3>6. /\ backups' = [u \in Time |-> backups'[u]]
          /\ \A u \in Time \ {t} : backups'[u] = backups[u]
          /\ \A u \in Time : backups'[u] # Null => GoodBackup(backups'[u])
      BY <3>2, <3>4, <3>5, DirWrite
    <3> QED
      BY <3>2, <3>6 DEF Listed
  <2> QED
    BY <2>1, <2>2, <2>3
<1>4. LiveInv' /\ ProcInv' /\ BackupsInv' /\ RestoreInv'
  BY <1>1, <1>2, <1>3, DirStep
<1>5. CreateInv'
  BY <1>1 DEF CreateInv
<1> QED
  BY <1>3, <1>4, <1>5 DEF ProfileInv

\* The steps of a restore find every process idle and leave the backups alone.
LEMMA IdleStep ==
    ASSUME ProfileInv, pre # NoAside, UNCHANGED <<proc, backups>>,
           GoodStore(acct'), vaultFile' \in VaultFiles,
           pre' = NoAside => acct' # NoStore /\ Bounded(acct', vaultFile'),
           job' = Null \/ job'.op = "restore"
    PROVE  LiveInv' /\ ProcInv' /\ BackupsInv' /\ CreateInv'
<1>1. proc' = proc /\ backups' = backups /\ \A p \in Proc : proc[p] = Idle
  BY DEF ProfileInv, RestoreInv
<1>2. LiveInv'
  BY DEF LiveInv, Settled
<1>3. ProcInv'
  <2>1. GoodProc(Idle, acct', vaultFile')
    BY DEF GoodProc, Idle
  <2> QED
    BY <1>1, <2>1 DEF ProfileInv, ProcInv
<1>4. BackupsInv'
  BY <1>1 DEF ProfileInv, BackupsInv, Settled
<1>5. CreateInv'
  BY DEF CreateInv
<1> QED
  BY <1>2, <1>3, <1>4, <1>5

LEMMA RestoreBackupKeeps ==
    ASSUME ProfileInv, RestoreBackup
    PROVE  ProfileInv'
<1>1. PICK t \in Listed :
        job' = [op |-> "restore", dir |-> t, step |-> "move_account", todo |-> {}]
  BY DEF RestoreBackup
<1>2. /\ pre = NoAside /\ aside = NoAside /\ pre' = Live /\ \A p \in Proc : proc[p] = Idle
      /\ acct' = acct /\ vaultFile' = vaultFile /\ proc' = proc /\ backups' = backups /\ aside' = aside
  BY DEF RestoreBackup, NobodyOnProfile
<1>3. GoodStore(acct) /\ vaultFile \in VaultFiles /\ Bounded(acct, vaultFile)
  BY <1>2 DEF ProfileInv, LiveInv, Settled
<1>4. t \in Time /\ backups[t] # Null /\ backups[t].manifest # Null
  BY <1>1 DEF Listed
<1>5. acct # NoStore /\ GoodBackup(backups[t])
  BY <1>2, <1>4 DEF ProfileInv, BackupsInv, Settled
<1>6. GoodFiles(Live) /\ Live.acct # NoStore /\ Live # NoAside
  <2>1. vaultFile # Null
    BY <1>3, NullAssumption DEF VaultFiles
  <2> QED
    BY <2>1, <1>3, <1>5 DEF GoodFiles, Live, NoAside
<1>7. job'.op = "restore" /\ job'.dir = t /\ job'.step = "move_account" /\ job'.todo = {}
  BY <1>1
<1>8. Live' = Live
  BY <1>2 DEF Live
<1>9. LiveInv' /\ ProcInv' /\ CreateInv'
  BY <1>2, <1>6, <1>7 DEF ProfileInv, LiveInv, ProcInv, CreateInv, Settled
<1>10. BackupsInv'
  BY <1>2, <1>5 DEF ProfileInv, BackupsInv
<1>11. RestoreInv'
  <2>1. RestoreStep' /\ RestoreFiles'
    BY <1>2, <1>7, <1>8 DEF RestoreStep, RestoreFiles
  <2> QED
    BY <2>1, <1>1, <1>2, <1>4, <1>5, <1>6, <1>7 DEF RestoreInv
<1> QED
  BY <1>9, <1>10, <1>11 DEF ProfileInv

\* What RestoreInv says while a restore is under way.
LEMMA RestoreFacts ==
    ASSUME ProfileInv, job # Null, job.op = "restore"
    PROVE  /\ pre # NoAside /\ GoodFiles(pre) /\ pre.acct # NoStore
           /\ pre = [acct |-> pre.acct, vaults |-> pre.vaults]
           /\ GoodStore(pre.acct) /\ pre.vaults \in VaultFiles /\ Bounded(pre.acct, pre.vaults)
           /\ job = [op |-> "restore", dir |-> job.dir, step |-> job.step, todo |-> job.todo]
           /\ job.dir \in Time
           /\ LET m == backups[job.dir].manifest IN
              /\ GoodBackup(backups[job.dir]) /\ m # Null
              /\ m = [acct |-> m.acct, vaults |-> m.vaults]
              /\ GoodStore(m.acct) /\ m.vaults \in VaultFiles /\ Bounded(m.acct, m.vaults)
              /\ backups[job.dir].files \in {m, NoFiles}
           /\ RestoreStep
           /\ GoodStore(acct) /\ vaultFile \in VaultFiles
           /\ \A p \in Proc : proc[p] = Idle
<1>1. pre # NoAside
  BY DEF ProfileInv, RestoreInv
<1>2. /\ GoodFiles(pre) /\ pre.acct # NoStore
      /\ job = [op |-> "restore", dir |-> job.dir, step |-> job.step, todo |-> job.todo]
      /\ job.dir \in Time
      /\ GoodBackup(backups[job.dir]) /\ backups[job.dir].manifest # Null
      /\ RestoreStep
      /\ \A p \in Proc : proc[p] = Idle
  BY <1>1 DEF ProfileInv, RestoreInv
<1>3. GoodStore(acct) /\ vaultFile \in VaultFiles
  BY DEF ProfileInv, LiveInv
<1> QED
  BY <1>1, <1>2, <1>3 DEF GoodBackup, GoodFiles

\* A step of a restore that goes on.
LEMMA RestoreGoesOn ==
    ASSUME ProfileInv, job # Null, job.op = "restore", UNCHANGED <<proc, backups, pre>>,
           GoodStore(acct'), vaultFile' \in VaultFiles,
           NEW step, NEW todo,
           job' = [op |-> "restore", dir |-> job.dir, step |-> step, todo |-> todo],
           RestoreStep', RestoreFiles'
    PROVE  ProfileInv'
<1>1. /\ pre # NoAside /\ pre' # NoAside /\ proc' = proc /\ backups' = backups /\ pre' = pre
  BY RestoreFacts
<1>2. job'.op = "restore" /\ job'.dir = job.dir /\ job'.step = step /\ job'.todo = todo
  OBVIOUS
<1>3. LiveInv' /\ ProcInv' /\ BackupsInv' /\ CreateInv'
  BY <1>1, <1>2, IdleStep
<1>4. RestoreInv'
  BY <1>1, <1>2, RestoreFacts DEF RestoreInv
<1> QED
  BY <1>3, <1>4 DEF ProfileInv

LEMMA MoveAccountAsideKeeps ==
    ASSUME ProfileInv, MoveAccountAside
    PROVE  ProfileInv' /\ pre' = pre /\ aside'.acct = pre.acct /\ vaultFile' = pre.vaults
<1>1. /\ job # Null /\ job.op = "restore" /\ job.step = "move_account"
      /\ acct' = NoStore /\ aside' = [aside EXCEPT !.acct = acct]
      /\ job' = [job EXCEPT !.step = "move_vaults"]
      /\ vaultFile' = vaultFile /\ proc' = proc /\ backups' = backups /\ pre' = pre
  BY DEF MoveAccountAside, In
<1>2. aside = NoAside /\ acct = pre.acct /\ vaultFile = pre.vaults
  BY <1>1, RestoreFacts DEF RestoreStep, Live
<1>3. aside' = [acct |-> pre.acct, vaults |-> Null]
  BY <1>1, <1>2 DEF NoAside
<1>4. job' = [op |-> "restore", dir |-> job.dir, step |-> "move_vaults", todo |-> job.todo]
  BY <1>1, RestoreFacts
<1>5. RestoreStep' /\ RestoreFiles'
  BY <1>1, <1>2, <1>3, <1>4 DEF RestoreStep, RestoreFiles
<1>6. vaultFile' \in VaultFiles
  BY <1>1, RestoreFacts
<1> QED
  BY <1>1, <1>2, <1>3, <1>4, <1>5, <1>6, NoStoreGood, RestoreGoesOn

LEMMA MoveVaultsAsideKeeps ==
    ASSUME ProfileInv, MoveVaultsAside
    PROVE  ProfileInv' /\ pre' = pre /\ aside' = pre
<1> DEFINE m == backups[job.dir].manifest
           todo == {v \in Vault : m.vaults[v] # Null}
<1>1. /\ job # Null /\ job.op = "restore" /\ job.step = "move_vaults"
      /\ vaultFile' = NoFiles.vaults /\ aside' = [aside EXCEPT !.vaults = vaultFile]
      /\ job' = [job EXCEPT !.step = "install", !.todo = todo]
      /\ acct' = acct /\ proc' = proc /\ backups' = backups /\ pre' = pre
  BY DEF MoveVaultsAside, In
<1>2. aside = [acct |-> pre.acct, vaults |-> Null] /\ acct = NoStore /\ vaultFile = pre.vaults
  BY <1>1, RestoreFacts DEF RestoreStep
<1>3. aside' = pre
  BY <1>1, <1>2, RestoreFacts
<1>4. /\ job' = [op |-> "restore", dir |-> job.dir, step |-> "install", todo |-> todo]
  <2> HIDE DEF todo
  <2> QED
    BY <1>1, RestoreFacts
<1>5. job'.dir = job.dir /\ job'.step = "install" /\ job'.todo = todo
  BY <1>4
<1>6. vaultFile' = [v \in Vault |-> IF v \in todo THEN Null ELSE m.vaults[v]]
  <2>1. \A v \in Vault : (IF v \in todo THEN Null ELSE m.vaults[v]) = Null
    OBVIOUS
  <2> QED
    BY <2>1, <1>1 DEF NoFiles
<1>7. RestoreStep' /\ RestoreFiles'
  BY <1>1, <1>2, <1>3, <1>5, <1>6 DEF RestoreStep, RestoreFiles
<1>8. vaultFile' \in VaultFiles /\ GoodStore(acct')
  BY <1>1, <1>2, NoStoreGood, NoFilesGood
<1> HIDE DEF todo
<1> QED
  BY <1>1, <1>3, <1>4, <1>7, <1>8, RestoreGoesOn

LEMMA InstallAccountKeeps ==
    ASSUME ProfileInv, InstallAccount
    PROVE  ProfileInv' /\ pre' = pre /\ aside' = pre
<1> DEFINE b == backups[job.dir]
<1>1. /\ job # Null /\ job.op = "restore" /\ job.step = "install"
      /\ b.files.acct # NoStore /\ acct' = b.files.acct
      /\ vaultFile' = vaultFile /\ proc' = proc /\ backups' = backups /\ aside' = aside
      /\ job' = job /\ pre' = pre
  BY DEF InstallAccount, In
<1>2. /\ aside = pre /\ job.todo \subseteq Vault
      /\ vaultFile = [v \in Vault |-> IF v \in job.todo THEN Null ELSE b.manifest.vaults[v]]
  BY <1>1, RestoreFacts DEF RestoreStep
<1>3. acct' = b.manifest.acct
  <2>1. b.files \in {b.manifest, NoFiles}
    BY <1>1, RestoreFacts
  <2> QED
    BY <1>1, <2>1 DEF NoFiles
<1>4. RestoreStep' /\ RestoreFiles'
  BY <1>1, <1>2, <1>3 DEF RestoreStep, RestoreFiles
<1>5. /\ GoodStore(acct') /\ vaultFile' \in VaultFiles
      /\ job' = [op |-> "restore", dir |-> job.dir, step |-> job.step, todo |-> job.todo]
  BY <1>1, <1>3, RestoreFacts
<1> QED
  BY <1>1, <1>2, <1>4, <1>5, RestoreGoesOn

LEMMA InstallVaultKeeps ==
    ASSUME ProfileInv, InstallVault
    PROVE  ProfileInv' /\ pre' = pre /\ aside' = pre
<1> DEFINE b == backups[job.dir]
           m == b.manifest
<1>1. PICK v \in job.todo :
        /\ b.files.vaults[v] # Null
        /\ vaultFile' = [vaultFile EXCEPT ![v] = b.files.vaults[v]]
        /\ job' = [job EXCEPT !.todo = @ \ {v}]
  BY DEF InstallVault
<1>2. /\ job # Null /\ job.op = "restore" /\ job.step = "install"
      /\ acct' = acct /\ proc' = proc /\ backups' = backups /\ aside' = aside /\ pre' = pre
  BY DEF InstallVault, In
<1>3. /\ aside = pre /\ job.todo \subseteq Vault /\ acct \in {NoStore, m.acct}
      /\ vaultFile = [u \in Vault |-> IF u \in job.todo THEN Null ELSE m.vaults[u]]
  BY <1>2, RestoreFacts DEF RestoreStep
<1>4. b.files.vaults[v] = m.vaults[v]
  <2>1. b.files \in {m, NoFiles}
    BY <1>2, RestoreFacts
  <2>2. NoFiles.vaults[v] = Null
    BY <1>3 DEF NoFiles
  <2> QED
    BY <1>1, <2>1, <2>2
<1>5. job' = [op |-> "restore", dir |-> job.dir, step |-> "install", todo |-> job.todo \ {v}]
  BY <1>1, <1>2, RestoreFacts
<1>6. job'.dir = job.dir /\ job'.step = "install" /\ job'.todo = job.todo \ {v}
  BY <1>5
<1>7. vaultFile' = [u \in Vault |-> IF u \in job.todo \ {v} THEN Null ELSE m.vaults[u]]
  <2> HIDE DEF m, b
  <2> QED
    BY <1>1, <1>3, <1>4
<1>8. m.vaults \in VaultFiles /\ GoodStore(acct')
  BY <1>2, RestoreFacts
<1>9. vaultFile' \in VaultFiles
  BY <1>7, <1>8 DEF VaultFiles
<1>10. RestoreStep' /\ RestoreFiles'
  <2> HIDE DEF b
  <2> QED
    BY <1>2, <1>3, <1>6, <1>7 DEF RestoreStep, RestoreFiles, b
<1> QED
  BY <1>2, <1>3, <1>5, <1>8, <1>9, <1>10, RestoreGoesOn

LEMMA JobKinds ==
    ASSUME ProfileInv, job # Null
    PROVE  job.op \in {"create", "restore"}
<1>1. CASE pre = NoAside
  BY <1>1 DEF ProfileInv, RestoreInv
<1>2. CASE pre # NoAside
  BY <1>2 DEF ProfileInv, RestoreInv
<1> QED
  BY <1>1, <1>2

\* A restore that ends, whole or not at all: a complete profile is live.
LEMMA RestoreEnds ==
    ASSUME ProfileInv, pre # NoAside, UNCHANGED <<proc, backups>>, job' = Null, pre' = NoAside,
           acct' # NoStore, GoodStore(acct'), vaultFile' \in VaultFiles, Bounded(acct', vaultFile')
    PROVE  ProfileInv'
<1>1. LiveInv' /\ ProcInv' /\ BackupsInv' /\ CreateInv'
  BY IdleStep
<1>2. RestoreInv'
  BY DEF RestoreInv
<1> QED
  BY <1>1, <1>2 DEF ProfileInv

LEMMA RestoreSucceedsKeeps ==
    ASSUME ProfileInv, RestoreSucceeds
    PROVE  ProfileInv' /\ pre' = NoAside /\ job # Null /\ Live' = backups[job.dir].manifest
<1> DEFINE m == backups[job.dir].manifest
<1>1. /\ job # Null /\ job.op = "restore" /\ job.step = "install" /\ acct # NoStore /\ job.todo = {}
      /\ job' = Null /\ pre' = NoAside
      /\ acct' = acct /\ vaultFile' = vaultFile /\ proc' = proc /\ backups' = backups
  BY DEF RestoreSucceeds, In, Clear
<1>2. acct = m.acct /\ vaultFile = [v \in Vault |-> m.vaults[v]]
  BY <1>1, RestoreFacts DEF RestoreStep
<1>3. /\ m = [acct |-> m.acct, vaults |-> m.vaults] /\ m.vaults \in VaultFiles
      /\ GoodStore(m.acct) /\ Bounded(m.acct, m.vaults) /\ pre # NoAside
  BY <1>1, RestoreFacts
<1>4. vaultFile = m.vaults
  BY <1>2, <1>3 DEF VaultFiles
<1>5. Live' = m
  BY <1>1, <1>2, <1>3, <1>4 DEF Live
<1> QED
  BY <1>1, <1>2, <1>3, <1>4, <1>5, RestoreEnds

LEMMA RollBackKeeps ==
    ASSUME ProfileInv, RollBack
    PROVE  ProfileInv' /\ pre # NoAside /\ pre' = NoAside /\ Live' = pre
<1>1. /\ job # Null /\ job.op = "restore" /\ job.step = "install" /\ job' = Null /\ pre' = NoAside
      /\ acct' = aside.acct /\ vaultFile' = aside.vaults /\ proc' = proc /\ backups' = backups
  BY DEF RollBack, In, Clear
<1>2. aside = pre
  BY <1>1, RestoreFacts DEF RestoreStep
<1>3. Live' = pre
  BY <1>1, <1>2, RestoreFacts DEF Live
<1> QED
  BY <1>1, <1>2, <1>3, RestoreFacts, RestoreEnds

\* The command stops or dies during a restore: before anything moved it is as if it had
\* not begun; later the replaced files are where RestoreFiles says.
LEMMA RestoreStops ==
    ASSUME ProfileInv, job # Null, job.op = "restore", job' = Null,
           pre' = IF job.step = "move_account" THEN NoAside ELSE pre,
           UNCHANGED <<acct, vaultFile, proc, backups, aside>>
    PROVE  /\ ProfileInv'
           /\ \/ pre' = NoAside /\ Live' = pre
              \/ /\ pre' = pre /\ aside'.acct = pre.acct
                 /\ aside'.vaults = pre.vaults \/ vaultFile' = pre.vaults
<1>1. acct' = acct /\ vaultFile' = vaultFile /\ proc' = proc /\ backups' = backups /\ aside' = aside
  OBVIOUS
<1>2. CASE job.step = "move_account"
  <2>1. Live = pre
    BY <1>2, RestoreFacts DEF RestoreStep
  <2>2. acct = pre.acct /\ vaultFile = pre.vaults /\ Live' = pre
    BY <1>1, <2>1 DEF Live
  <2>3. ProfileInv'
    BY <1>1, <1>2, <2>2, RestoreFacts, RestoreEnds
  <2> QED
    BY <1>2, <2>2, <2>3
<1>3. CASE job.step # "move_account"
  <2>1. pre' = pre /\ pre # NoAside
    BY <1>3, RestoreFacts
  <2>2. \/ aside = [acct |-> pre.acct, vaults |-> Null] /\ vaultFile = pre.vaults
        \/ aside = pre
    BY <1>3, RestoreFacts DEF RestoreStep
  <2>3. LiveInv' /\ ProcInv' /\ BackupsInv' /\ CreateInv'
    BY <1>1, <2>1, RestoreFacts, IdleStep
  <2>4. RestoreFiles'
    BY <1>1, <2>1, <2>2 DEF RestoreFiles
  <2>5. RestoreInv'
    BY <1>1, <2>1, <2>4, RestoreFacts DEF RestoreInv
  <2> QED
    BY <1>1, <2>1, <2>2, <2>3, <2>5 DEF ProfileInv
<1> QED
  BY <1>2, <1>3

\* The command dies while it makes a backup: the directory stays without a manifest.
LEMMA CreateKilledKeeps ==
    ASSUME ProfileInv, job # Null, job.op = "create", job' = Null, pre' = NoAside,
           UNCHANGED <<acct, vaultFile, proc, backups, aside>>
    PROVE  ProfileInv'
<1>1. /\ Settled /\ acct # NoStore /\ backups = [t \in Time |-> backups[t]]
      /\ \A t \in Time : backups[t] # Null => GoodBackup(backups[t])
  BY CreateFacts
<1>2. UNCHANGED <<acct, vaultFile, proc, aside, pre>> /\ backups' = backups
  BY <1>1 DEF Settled
<1>3. LiveInv' /\ ProcInv' /\ BackupsInv' /\ RestoreInv'
  BY <1>1, <1>2, DirStep
<1>4. CreateInv'
  BY DEF CreateInv
<1> QED
  BY <1>3, <1>4 DEF ProfileInv

LEMMA PutBackKeeps ==
    ASSUME ProfileInv, PutBack
    PROVE  ProfileInv' /\ pre' = NoAside /\ Live' = pre
<1>1. /\ job = Null /\ pre # NoAside /\ job' = job /\ proc' = proc /\ backups' = backups
      /\ acct' = IF aside.acct # NoStore THEN aside.acct ELSE acct
      /\ vaultFile' = IF aside.vaults # Null THEN aside.vaults ELSE vaultFile
      /\ pre' = NoAside
  BY DEF PutBack
<1>2. GoodFiles(pre) /\ pre.acct # NoStore /\ RestoreFiles
  BY <1>1 DEF ProfileInv, RestoreInv
<1>3. /\ pre = [acct |-> pre.acct, vaults |-> pre.vaults] /\ GoodStore(pre.acct)
      /\ pre.vaults \in VaultFiles /\ Bounded(pre.acct, pre.vaults)
  BY <1>2 DEF GoodFiles
<1>4. pre.vaults # Null
  BY <1>3, NullAssumption DEF VaultFiles
<1>5. acct' = pre.acct /\ vaultFile' = pre.vaults
  <2>1. CASE aside = NoAside /\ Live = pre
    BY <2>1, <1>1 DEF Live, NoAside
  <2>2. CASE aside = [acct |-> pre.acct, vaults |-> Null] /\ vaultFile = pre.vaults
    BY <2>2, <1>1, <1>2
  <2>3. CASE aside = pre
    BY <2>3, <1>1, <1>2, <1>4
  <2> QED
    BY <2>1, <2>2, <2>3, <1>2 DEF RestoreFiles
<1>6. Live' = pre
  BY <1>3, <1>5 DEF Live
<1> QED
  BY <1>1, <1>2, <1>3, <1>5, <1>6, RestoreEnds

LEMMA DiscardAsideKeeps ==
    ASSUME ProfileInv, DiscardAside
    PROVE  ProfileInv'
<1>1. /\ job = Null /\ pre = NoAside /\ acct' = acct /\ vaultFile' = vaultFile /\ proc' = proc
      /\ backups' = backups /\ job' = job /\ pre' = pre
  BY DEF DiscardAside
<1> QED
  BY <1>1 DEF ProfileInv, LiveInv, ProcInv, BackupsInv, CreateInv, RestoreInv, Settled

\* such a step as one of the profile's, restore_item's included
BesideStep(p) ==
  \/ Beside(Create(p)) \/ Beside(UnlockReadKdf(p)) \/ Beside(UnlockReadEnvelope(p))
  \/ Beside(Lock(p)) \/ Beside(RecordAccessDenied(p))
  \/ Beside(ChangePasswordCheck(p)) \/ Beside(ChangePasswordCommit(p))
  \/ Beside(CreateVaultFile(p)) \/ Beside(InsertRegistryRow(p))
  \/ Beside(SoftDeleteVault(p)) \/ Beside(Mutate(p)) \/ Beside(SecretRead(p))
  \/ Beside(TrustPeerDevice(p)) \/ Beside(ShareVaultKeyToPeer(p))
  \/ Beside(ImportSharedVaultKey(p)) \/ Beside(RegisterSharedVault(p))
  \/ Beside(AuditRead(p)) \/ Beside(AuditCommit(p)) \/ Beside(AuditFail(p))
  \/ Beside(Crash(p)) \/ RestoreSingleItem(p)

\* A working process, beside a backup or not.
LEMMA BesideKeeps ==
    ASSUME ProfileInv, NEW p \in Proc, BesideStep(p)
    PROVE  ProfileInv' /\ Settled /\ UNCHANGED bvars
<1>1. Settled /\ UNCHANGED bvars
  BY DEF BesideStep, Beside, RestoreSingleItem, bvars
<1>2. LiveInv /\ ProcInv
  BY DEF ProfileInv
<1>3. Work /\ ProcInv'
  BY <1>1, <1>2, WorkingStep DEF WorkStep, BesideStep, Beside
<1> QED
  BY <1>1, <1>3, WorkKeepsProfile

\* The invariant of the profile, kept by every step of every process and of the backup
\* commands, with a crash possible between any two of them.
LEMMA NextKeepsProfile == ProfileInv /\ [Next]_vars => ProfileInv'
<1> SUFFICES ASSUME ProfileInv, [Next]_vars
             PROVE  ProfileInv'
  OBVIOUS
<1>1. ASSUME NEW p \in Proc, BesideStep(p)
      PROVE  ProfileInv'
  BY <1>1, BesideKeeps
<1>2. CASE CreateBackup
  BY <1>2, CreateBackupKeeps
<1>3. CASE SnapshotAccount
  BY <1>3, SnapshotAccountKeeps
<1>4. CASE ListLiveVaults
  BY <1>4, ListLiveVaultsKeeps
<1>5. CASE SnapshotVault
  BY <1>5, SnapshotVaultKeeps
<1>6. CASE WriteManifest
  BY <1>6, WriteManifestKeeps
<1>7. CASE PruneOld \/ CreateBackupFails \/ KillPrune
  BY <1>7, CreateEndsKeeps
<1>8. CASE RestoreBackup
  BY <1>8, RestoreBackupKeeps
<1>9. CASE MoveAccountAside
  BY <1>9, MoveAccountAsideKeeps
<1>10. CASE MoveVaultsAside
  BY <1>10, MoveVaultsAsideKeeps
<1>11. CASE MoveAsideFails
  BY <1>11, RestoreStops DEF MoveAsideFails, In, Clear
<1>12. CASE InstallAccount
  BY <1>12, InstallAccountKeeps
<1>13. CASE InstallVault
  BY <1>13, InstallVaultKeeps
<1>14. CASE RestoreSucceeds
  BY <1>14, RestoreSucceedsKeeps
<1>15. CASE RollBack
  BY <1>15, RollBackKeeps
<1>16. CASE KillJob
  <2>1. /\ job # Null /\ job' = Null /\ pre' = IF job.step = "move_account" THEN NoAside ELSE pre
        /\ UNCHANGED <<acct, vaultFile, proc, backups, aside>>
    BY <1>16 DEF KillJob, Clear
  <2>2. CASE job.op = "create"
    BY <2>1, <2>2, CreateFacts, CreateKilledKeeps DEF Settled
  <2>3. CASE job.op = "restore"
    BY <2>1, <2>3, RestoreStops
  <2> QED
    BY <2>1, <2>2, <2>3, JobKinds
<1>17. CASE PutBack
  BY <1>17, PutBackKeeps
<1>18. CASE DiscardAside
  BY <1>18, DiscardAsideKeeps
<1>19. CASE UNCHANGED vars
  BY <1>19 DEF vars, ProfileInv, LiveInv, ProcInv, BackupsInv, CreateInv, RestoreInv, RestoreStep,
               RestoreFiles, Settled, Live
<1> QED
  BY <1>1, <1>2, <1>3, <1>4, <1>5, <1>6, <1>7, <1>8, <1>9, <1>10, <1>11, <1>12, <1>13, <1>14,
     <1>15, <1>16, <1>17, <1>18, <1>19 DEF Next, Alone, BesideStep

\* ProfileInv holds at all times: of the live profile, of every backup directory, of what
\* the processes carry and of a backup or restore under way.
THEOREM ProfileInvariance == Spec => []ProfileInv
BY InitProfile, NextKeepsProfile, PTL DEF Spec

-----------------------------------------------------------------------------
(* The properties.                                                         *)

\* verify_audit_chain accepts the log of the live store and of every complete backup at
\* all times, whatever append_audit_record calls interleave, fail or die.
THEOREM ChainAlwaysHolds == Spec => []ChainHolds
<1>1. ASSUME ProfileInv
      PROVE  ChainHolds
  <2> SUFFICES ASSUME NEW s \in Stores
               PROVE  VerifyAuditChain(s.acct.audit)
    BY DEF ChainHolds
  <2>1. CASE s = Live
    BY <1>1, <2>1 DEF Live, ProfileInv, LiveInv, GoodStore
  <2>2. CASE s \in {backups[t].files : t \in Listed}
    <3>1. PICK t \in Listed : s = backups[t].files
      BY <2>2
    <3>2. GoodBackup(backups[t])
      BY <1>1, <3>1 DEF Listed, ProfileInv, BackupsInv
    <3> QED
      BY <3>1, <3>2 DEF GoodBackup, GoodFiles, GoodStore
  <2> QED
    BY <2>1, <2>2 DEF Stores
<1> QED
  BY <1>1, ProfileInvariance, PTL

\* No audit record, live or in a complete backup, names an item mutation that the vault
\* beside it has not seen: record_mutation runs after the commit, create_inner copies the
\* account store before the vaults.
THEOREM AuditedAlwaysStored == Spec => []AuditedIsStored
<1>1. ASSUME ProfileInv
      PROVE  AuditedIsStored
  <2> SUFFICES ASSUME Settled, NEW s \in Stores
               PROVE  Bounded(s.acct, s.vaults)
    BY DEF AuditedIsStored, Bounded
  <2>1. CASE s = Live
    BY <1>1, <2>1 DEF Live, ProfileInv, LiveInv
  <2>2. CASE s \in {backups[t].files : t \in Listed}
    <3>1. PICK t \in Listed : s = backups[t].files
      BY <2>2
    <3>2. GoodBackup(backups[t])
      BY <1>1, <3>1 DEF Listed, ProfileInv, BackupsInv
    <3> QED
      BY <3>1, <3>2 DEF GoodBackup, GoodFiles
  <2> QED
    BY <2>1, <2>2 DEF Stores
<1> QED
  BY <1>1, ProfileInvariance, PTL

\* move_live_aside, install_backup_files and move_aside_back: a restore that fails leaves
\* the profile it found, one that succeeds leaves the backup's, and one that stops or
\* dies halfway still has every file it replaced.
THEOREM RestoresAtomic == Spec => RestoreIsAtomic
<1> DEFINE Atomic ==
             \/ /\ pre' = pre
                /\ pre.acct \in {acct', aside'.acct} /\ pre.vaults \in {vaultFile', aside'.vaults}
             \/ /\ pre' = NoAside
                /\ Live' = pre \/ (job # Null /\ Live' = backups[job.dir].manifest)
<1>1. ASSUME ProfileInv, Next, pre # NoAside
      PROVE  Atomic
  <2>1. ~Settled /\ (job # Null => job.op = "restore")
    BY <1>1, JobKinds DEF Settled, ProfileInv, RestoreInv
  <2>2. ~CreateBackup /\ ~RestoreBackup /\ ~DiscardAside
    BY <1>1 DEF CreateBackup, RestoreBackup, DiscardAside
  <2>3. /\ ~SnapshotAccount /\ ~ListLiveVaults /\ ~SnapshotVault /\ ~WriteManifest /\ ~PruneOld
        /\ ~CreateBackupFails /\ ~KillPrune
    BY <2>1 DEF SnapshotAccount, ListLiveVaults, SnapshotVault, WriteManifest, PruneOld,
                CreateBackupFails, KillPrune, In
  <2>4. \A p \in Proc : ~RestoreSingleItem(p)
    BY <2>1 DEF RestoreSingleItem
  <2>5. CASE MoveAccountAside
    BY <1>1, <2>5, MoveAccountAsideKeeps
  <2>6. CASE MoveVaultsAside
    BY <1>1, <2>6, MoveVaultsAsideKeeps
  <2>7. CASE MoveAsideFails
    BY <1>1, <2>7, RestoreStops DEF MoveAsideFails, In, Clear
  <2>8. CASE InstallAccount
    BY <1>1, <2>8, InstallAccountKeeps
  <2>9. CASE InstallVault
    BY <1>1, <2>9, InstallVaultKeeps
  <2>10. CASE RestoreSucceeds
    BY <1>1, <2>10, RestoreSucceedsKeeps
  <2>11. CASE RollBack
    BY <1>1, <2>11, RollBackKeeps
  <2>12. CASE KillJob
    BY <1>1, <2>1, <2>12, RestoreStops DEF KillJob, Clear
  <2>13. CASE PutBack
    BY <1>1, <2>13, PutBackKeeps
  <2> QED
    BY <1>1, <2>1, <2>2, <2>3, <2>4, <2>5, <2>6, <2>7, <2>8, <2>9, <2>10, <2>11, <2>12, <2>13
       DEF Next, Alone, Beside
<1>2. ProfileInv /\ [Next]_vars => [pre # NoAside => Atomic]_vars
  <2> HIDE DEF Atomic
  <2> QED
    BY <1>1
<1> QED
  BY <1>2, ProfileInvariance, PTL DEF Spec, RestoreIsAtomic

\* A backup whose manifest is written opens: the copied envelope belongs to the copied
\* salt, and each vault the copied registry lists is beside it, unless the vault was
\* deleted while the backup was made or its file was gone from the profile.
THEOREM BackupsRecoverable == Spec => BackupIsRecoverable
<1> DEFINE Opens(t) ==
             LET b == backups'[t] IN
             /\ FilesIntact(b)
             /\ \E w \in Password :
                  Recoverable([b EXCEPT !.files.acct.reg =
                                 [v \in Vault |-> IF CanOpen(v) THEN @[v] ELSE Unregistered]], w)
<1>1. ASSUME ProfileInv, WriteManifest, NEW t \in Time, t \in Listed' \ Listed
      PROVE  Opens(t)
  <2> DEFINE f == backups[job.dir].files
             a == f.acct
             reg == [v \in Vault |-> IF CanOpen(v) THEN a.reg[v] ELSE Unregistered]
             c == [salt |-> a.salt, envelope |-> a.envelope, reg |-> reg, peers |-> a.peers,
                   audit |-> a.audit]
             m == [files |-> [acct |-> c, vaults |-> f.vaults], manifest |-> f]
  <2>1. /\ backups'[job.dir] = [files |-> f, manifest |-> f]
        /\ \A u \in Time \ {job.dir} : backups'[u] = backups[u]
    BY <1>1, WriteManifestKeeps
  <2>2. t = job.dir
    BY <1>1, <2>1 DEF Listed
  <2>3. job # Null /\ job.op = "create" /\ job.step = "vaults" /\ job.todo = {}
    BY <1>1 DEF WriteManifest, In
  <2>4. /\ f = [acct |-> a, vaults |-> f.vaults]
        /\ GoodStore(a) /\ f.vaults \in VaultFiles
    BY <1>1, <2>3, CreateFacts
  <2>5. /\ a # NoStore
        /\ \A v \in LiveVaults(a) \cap LiveVaults(acct) : vaultFile[v] # Null => f.vaults[v] # Null
    BY <1>1, <2>3 DEF ProfileInv, CreateInv
  <2>6. /\ a = [salt |-> a.salt, envelope |-> a.envelope, reg |-> a.reg, peers |-> a.peers,
                audit |-> a.audit]
        /\ a.salt \in Nat /\ \E w \in Password : a.envelope = Muk(w, a.salt)
    BY <2>4, <2>5 DEF GoodStore
  <2>7. FilesIntact(backups'[t])
    <3>1. backups'[t].manifest # Null
      BY <1>1 DEF Listed
    <3>2. backups'[t].manifest = f /\ backups'[t].files = f
      BY <2>1, <2>2
    <3> QED
      BY <3>1, <3>2 DEF FilesIntact
  <2>8. [backups'[t] EXCEPT !.files.acct.reg =
           [v \in Vault |-> IF CanOpen(v) THEN @[v] ELSE Unregistered]] = m
    <3>1. backups'[t] = [files |-> [acct |-> [salt |-> a.salt, envelope |-> a.envelope,
                                              reg |-> a.reg, peers |-> a.peers,
                                              audit |-> a.audit],
                                    vaults |-> f.vaults], manifest |-> f]
      BY <2>1, <2>2, <2>4, <2>6
    <3>2. PICK b : b = backups'[t]
      OBVIOUS
    <3> DEFINE seen == [v \in Vault |-> IF CanOpen(v) THEN b.files.acct.reg[v] ELSE Unregistered]
    <3>3. b.files.acct.reg = a.reg
      BY <3>1, <3>2
    <3>4. seen = reg
      BY <3>3
    <3> HIDE DEF a, f, reg, seen
    <3>5. [b EXCEPT !.files.acct.reg = reg] = m
      BY <3>1, <3>2
    <3>6. [b EXCEPT !.files.acct.reg = seen] = m
      BY <3>4, <3>5
    <3> QED
      BY <3>2, <3>6 DEF seen
  <2>9. \E w \in Password : Recoverable(m, w)
    <3>1. PICK w \in Password : a.envelope = Muk(w, a.salt)
      BY <2>6
    <3>2. m.files.acct = c /\ m.files.vaults = f.vaults
      OBVIOUS
    <3>3. c.salt = a.salt /\ c.envelope = a.envelope /\ c.reg = reg
      OBVIOUS
    <3>4. c # NoStore
      BY <3>3, <2>6, ValueAssumption DEF NoStore
    <3>5. ASSUME NEW v \in LiveVaults(c)
          PROVE  f.vaults[v] # Null
      <4>1. v \in Vault /\ reg[v] # Unregistered /\ ~reg[v].deleted
        BY <3>3 DEF LiveVaults
      <4>2. CanOpen(v) /\ reg[v] = a.reg[v]
        BY <4>1
      <4>3. v \in LiveVaults(a)
        BY <4>1, <4>2 DEF LiveVaults
      <4> QED
        BY <4>2, <4>3, <2>5 DEF CanOpen
    <3> HIDE DEF m, c
    <3> QED
      BY <3>1, <3>2, <3>3, <3>4, <3>5 DEF Recoverable
  <2> QED
    BY <2>7, <2>8, <2>9
<1>2. ASSUME ProfileInv, Next, NEW t \in Time, t \in Listed' \ Listed
      PROVE  Opens(t)
  <2> HIDE DEF Opens
  <2>1. backups' # backups
    BY <1>2 DEF Listed
  <2>2. backups'[t] # Null /\ backups'[t].manifest # Null /\ backups'[t] # backups[t]
    BY <1>2 DEF Listed
  <2>3. ASSUME NEW p \in Proc
        PROVE  ~BesideStep(p)
    BY <2>1 DEF BesideStep, Beside, bvars, RestoreSingleItem
  <2>4. ~CreateBackup
    <3> SUFFICES ASSUME CreateBackup
                 PROVE  FALSE
      OBVIOUS
    <3>1. PICK u \in Time :
            backups' = [backups EXCEPT ![u] = [files |-> NoFiles, manifest |-> Null]]
      BY DEF CreateBackup
    <3>2. backups = [x \in Time |-> backups[x]]
      BY <1>2 DEF ProfileInv, BackupsInv
    <3> QED
      BY <2>2, <3>1, <3>2
  <2>5. ~SnapshotAccount /\ ~SnapshotVault
    <3> SUFFICES ASSUME SnapshotAccount \/ SnapshotVault
                 PROVE  FALSE
      OBVIOUS
    <3>1. job # Null /\ job.op = "create" /\ job.step \in {"account", "vaults"}
      BY DEF SnapshotAccount, SnapshotVault, In
    <3>2. backups[job.dir].manifest = Null
      BY <1>2, <3>1 DEF ProfileInv, CreateInv
    <3>3. /\ job.dir \in Time /\ backups = [x \in Time |-> backups[x]]
          /\ backups[job.dir] = [files |-> backups[job.dir].files,
                                 manifest |-> backups[job.dir].manifest]
      BY <1>2, <3>1, CreateFacts
    <3>4. CASE SnapshotAccount
      <4>1. backups' = [backups EXCEPT ![job.dir].files.acct = acct]
        BY <3>4 DEF SnapshotAccount
      <4>2. backups'[job.dir].manifest = Null /\ \A x \in Time \ {job.dir} : backups'[x] = backups[x]
        BY <4>1, <3>2, <3>3
      <4> QED
        BY <2>2, <4>2
    <3>5. CASE SnapshotVault
      <4>1. PICK v : backups' = [backups EXCEPT ![job.dir].files.vaults[v] = vaultFile[v]]
        BY <3>5 DEF SnapshotVault
      <4>2. backups'[job.dir].manifest = Null /\ \A x \in Time \ {job.dir} : backups'[x] = backups[x]
        BY <4>1, <3>2, <3>3
      <4> QED
        BY <2>2, <4>2
    <3> QED
      BY <3>4, <3>5
  <2>6. ~PruneOld /\ ~CreateBackupFails /\ ~KillPrune
    BY <1>2, <2>2, CreateEndsKeeps
  <2>7. /\ ~ListLiveVaults /\ ~RestoreBackup /\ ~MoveAccountAside /\ ~MoveVaultsAside
        /\ ~MoveAsideFails /\ ~InstallAccount /\ ~InstallVault /\ ~RestoreSucceeds /\ ~RollBack
        /\ ~KillJob /\ ~PutBack /\ ~DiscardAside
    BY <2>1 DEF ListLiveVaults, RestoreBackup, MoveAccountAside, MoveVaultsAside, MoveAsideFails,
                InstallAccount, InstallVault, RestoreSucceeds, RollBack, KillJob, PutBack,
                DiscardAside
  <2>8. WriteManifest
    BY <1>2, <2>3, <2>4, <2>5, <2>6, <2>7 DEF Next, Alone, BesideStep
  <2> QED
    BY <1>1, <1>2, <2>8
<1>3. ProfileInv /\ [Next]_vars => [\A t \in Time : t \in Listed' \ Listed => Opens(t)]_vars
  <2> HIDE DEF Opens
  <2> QED
    BY <1>2
<1> QED
  BY <1>3, ProfileInvariance, PTL DEF Spec, BackupIsRecoverable

\* Changing a row of a log that verifies into another well-formed one is noticed, once
\* the row has a successor.
LEMMA ChangedRowNoticed ==
    ASSUME NEW rows, IsSeq(rows), \A j \in 1..Len(rows) : GoodRow(rows[j]), VerifyAuditChain(rows),
           NEW i \in 1..Len(rows), i + 1 <= Len(rows),
           NEW forged, GoodRow(forged), forged # rows[i]
    PROVE  ~VerifyAuditChain([rows EXCEPT ![i] = forged])
<1> DEFINE T == {rows[j] : j \in DOMAIN rows}
           S == T \cup {forged}
           s == [rows EXCEPT ![i] = forged]
<1>1. T \subseteq S /\ forged \in S /\ rows \in Seq(T)
  BY DEF IsSeq
<1>2. Len(rows) \in Nat
  BY IsSeqLen
<1> HIDE DEF T, S
<1>3. rows \in Seq(S)
  BY <1>1, SeqMonotonic
<1>4. Len(s) = Len(rows) /\ \A j \in 1..Len(rows) : s[j] = IF j = i THEN forged ELSE rows[j]
  BY <1>1, <1>3, ExceptSeq
<1>5. i + 1 \in 1..Len(rows) /\ (i + 1) - 1 = i /\ i + 1 # 1 /\ i + 1 # i
  BY <1>2
<1> HIDE DEF s
<1>6. PICK k \in 1..Len(rows) : k = i + 1 /\ k - 1 = i /\ k # 1 /\ k # i
  BY <1>5
<1>7. rows[k].prev_hash = ChainHash(RecordFromRow(rows[i]))
  BY <1>6 DEF VerifyAuditChain
<1>8. s[k] = rows[k] /\ s[i] = forged
  BY <1>4, <1>6
<1> SUFFICES ASSUME VerifyAuditChain(s)
             PROVE  FALSE
  BY DEF s
<1>9. s[k].prev_hash = ChainHash(RecordFromRow(s[i]))
  BY <1>4, <1>6 DEF VerifyAuditChain
<1>10. ChainHash(RecordFromRow(forged)) = ChainHash(RecordFromRow(rows[i]))
  BY <1>7, <1>8, <1>9
<1>11. GoodRow(rows[i])
  OBVIOUS
<1> QED
  BY <1>10, <1>11, BytesDetermineRow

LEMMA ForgedKindsGood ==
    ASSUME NEW kind, GoodKind(kind),
           kind = [label |-> kind.label, data |-> [c \in KindFields(kind.label) |-> kind.data[c]]],
           NEW k \in ForgedKinds(kind)
    PROVE  GoodKind(k)
<1>1. CASE k = Plain("unlock_success")
  BY <1>1, PlainGood
<1>2. CASE k \in {ReadKind(1, 1, Null), ReadKind(1, 1, << 1 >>)}
  <2>1. PICK f \in {Null, << 1 >>} : k = ReadKind(1, 1, f)
    BY <1>2
  <2>2. 1 \in Nat
    OBVIOUS
  <2> QED
    BY <2>1, <2>2, ReadGood
<1>3. CASE k \in {[kind EXCEPT !.data[c] = 7] : c \in DOMAIN kind.data \ {"field", "format"}}
  <2>1. PICK c \in DOMAIN kind.data \ {"field", "format"} : k = [kind EXCEPT !.data[c] = 7]
    BY <1>3
  <2> DEFINE l == kind.label
             d == kind.data
  <2>2. kind = [label |-> l, data |-> d] /\ d = [x \in KindFields(l) |-> d[x]]
    BY SMT
  <2> HIDE DEF l, d
  <2>3. k = [label |-> l, data |-> [d EXCEPT ![c] = 7]]
    BY <2>1, <2>2
  <2>4. k.label = l /\ k.data = [d EXCEPT ![c] = 7] /\ l = kind.label /\ d = kind.data
    BY <2>3 DEF l, d
  <2>5. \A x \in KindFields(l) : k.data[x] = IF x = c THEN 7 ELSE d[x]
    BY <2>2, <2>4
  <2>6. 7 \in ColumnType(c)
    BY <2>1 DEF ColumnType
  <2> QED
    BY <2>4, <2>5, <2>6 DEF GoodKind
<1> QED
  BY <1>1, <1>2, <1>3 DEF ForgedKinds

LEMMA ForgedOriginsGood ==
    ASSUME NEW o \in ForgedOrigins
    PROVE  o \in AuditOrigin \cup {Null}
<1>1. ThisProcess \in AuditOrigin
  BY DEF ThisProcess, AuditOrigin, SourceCode, OptStr
<1>2. [ThisProcess EXCEPT !.process = Null] = [source |-> "cli", process |-> Null, pid |-> 1]
  BY DEF ThisProcess
<1>3. [source |-> "cli", process |-> Null, pid |-> 1] \in AuditOrigin
  BY DEF AuditOrigin, SourceCode, OptStr
<1> QED
  BY <1>1, <1>2, <1>3 DEF ForgedOrigins

\* canonical_bytes and verify_audit_chain: once a record has a successor, no other kind,
\* detail or attribution can take its place in the log unnoticed.
THEOREM TamperingNoticed == Spec => TamperEvident
<1> DEFINE Evident ==
             acct # NoStore /\ acct' # NoStore /\ Len(acct'.audit) > Len(acct.audit) /\ acct.audit # <<>> =>
               LET i == Len(acct.audit)
                   r == RecordFromRow(acct.audit[i])
               IN
               \A k \in ForgedKinds(r.kind), d \in {Null, << 1 >>}, o \in ForgedOrigins :
                 LET forged == RowOf([r EXCEPT !.kind = k, !.detail = d, !.origin = o])
                 IN forged # acct'.audit[i] => ~VerifyAuditChain([acct'.audit EXCEPT ![i] = forged])
<1>1. ASSUME ProfileInv, ProfileInv', Len(acct'.audit) > Len(acct.audit), acct.audit # <<>>,
             NEW k \in ForgedKinds(RecordFromRow(acct.audit[Len(acct.audit)]).kind),
             NEW d \in {Null, << 1 >>}, NEW o \in ForgedOrigins,
             NEW forged,
             forged = RowOf([RecordFromRow(acct.audit[Len(acct.audit)])
                               EXCEPT !.kind = k, !.detail = d, !.origin = o]),
             forged # acct'.audit[Len(acct.audit)]
      PROVE  ~VerifyAuditChain([acct'.audit EXCEPT ![Len(acct.audit)] = forged])
  <2> DEFINE i == Len(acct.audit)
             row == acct.audit[i]
             r == RecordFromRow(row)
             q == [seq |-> r.seq, prev_hash |-> r.prev_hash, kind |-> k, detail |-> d, origin |-> o]
  <2>1. GoodStore(acct) /\ GoodStore(acct')
    BY <1>1 DEF ProfileInv, LiveInv
  <2>2. /\ IsSeq(acct.audit) /\ i \in Nat /\ \A j \in 1..i : GoodRow(acct.audit[j])
        /\ IsSeq(acct'.audit) /\ Len(acct'.audit) \in Nat
        /\ \A j \in 1..Len(acct'.audit) : GoodRow(acct'.audit[j])
        /\ VerifyAuditChain(acct'.audit)
    BY <2>1, IsSeqLen DEF GoodStore
  <2>3. i # 0
    BY <1>1, <2>2, EmptySeq DEF IsSeq
  <2>4. i \in 1..i /\ i \in 1..Len(acct'.audit) /\ i + 1 <= Len(acct'.audit)
    BY <1>1, <2>2, <2>3
  <2>5. GoodRow(row)
    BY <2>2, <2>4
  <2> HIDE DEF row, i
  <2>6. r.kind = KindFromRow(row)
    BY DEF RecordFromRow
  <2>7. /\ GoodKind(r.kind)
        /\ r.kind = [label |-> r.kind.label,
                     data |-> [c \in KindFields(r.kind.label) |-> r.kind.data[c]]]
    <3>1. PICK l \in Label :
            /\ KindFromRow(row) = [label |-> l, data |-> [c \in KindFields(l) |-> row.cols[c]]]
            /\ GoodKind(KindFromRow(row))
      BY <2>5, RowKind
    <3> HIDE DEF r
    <3> QED
      BY <2>6, <3>1
  <2>8. GoodKind(k)
    <3> HIDE DEF r
    <3>1. k \in ForgedKinds(r.kind)
      BY <1>1 DEF r, row, i
    <3> QED
      BY <2>7, <3>1, ForgedKindsGood
  <2>9. d \in OptStr /\ o \in AuditOrigin \cup {Null}
    <3>1. << 1 >> \in Seq(Nat)
      OBVIOUS
    <3>2. d \in OptStr
      BY <3>1, Zenon DEF OptStr
    <3> QED
      BY <3>2, ForgedOriginsGood
  <2>10. forged = RowOf(q)
    <3>1. r = [seq |-> r.seq, prev_hash |-> r.prev_hash, kind |-> r.kind, detail |-> r.detail,
               origin |-> r.origin]
      BY DEF RecordFromRow
    <3> HIDE DEF r
    <3>2. PICK e : e = [r EXCEPT !.kind = k, !.detail = d, !.origin = o]
      OBVIOUS
    <3>3. forged = RowOf(e)
      BY <1>1, <3>2 DEF r, row, i
    <3>4. e = q
      BY <3>1, <3>2
    <3> QED
      BY <3>3, <3>4
  <2>11. q.kind = k /\ q.detail = d /\ q.origin = o
    OBVIOUS
  <2> HIDE DEF q
  <2>12. GoodRow(forged)
    BY <2>8, <2>9, <2>10, <2>11, RowOfGood
  <2>13. forged # acct'.audit[i]
    BY <1>1 DEF i
  <2>14. ~VerifyAuditChain([acct'.audit EXCEPT ![i] = forged])
    BY <2>2, <2>4, <2>12, <2>13, ChangedRowNoticed
  <2> QED
    BY <2>14 DEF i
<1>2. ProfileInv /\ ProfileInv' => Evident
  BY <1>1
<1>3. ProfileInv /\ ProfileInv' /\ [Next]_vars => [Evident]_vars
  <2> HIDE DEF Evident
  <2> QED
    BY <1>2
<1> QED
  BY <1>3, ProfileInvariance, PTL DEF Spec, TamperEvident
=============================================================================
