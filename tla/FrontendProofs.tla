--------------------------- MODULE FrontendProofs ---------------------------
(***************************************************************************)
(* Theorems about the frontend: the settings dialog (Settings), for any    *)
(* roles, providers, models and files, any number of dialogs and threads,  *)
(* the view of a conversation (Conversation), for any logs and heights,    *)
(* and the text editors (Editors), for any texts and keys.                 *)
(***************************************************************************)
EXTENDS Settings, Conversation, Editors, FiniteSetTheorems, SequenceTheorems, WellFoundedInduction, TLAPS

-----------------------------------------------------------------------------
(* Sequences of anything, and the least of some numbers.                   *)

\* The library says it of well-founded relations: a set of naturals has a least element.
LEMMA LeastNatural ==
  ASSUME NEW S \in SUBSET Nat, S # {}
  PROVE  \E n \in S : \A m \in S : n <= m
<1>1. PICK n \in S : \A m \in S : ~(<<m, n>> \in OpToRel(<, Nat))
  BY NatLessThanWellFounded, WFMin
<1>2. ASSUME NEW m \in S PROVE ~(m < n)
  BY <1>1 DEF OpToRel
<1> QED BY <1>2

LEMMA LeastOf ==
  ASSUME NEW S \in SUBSET Nat, S # {} PROVE Min(S) \in S /\ \A m \in S : Min(S) <= m
BY LeastNatural DEF Min

IsSeq(s) == s \in Seq(ToSet(s))

LEMMA SeqDomain == ASSUME NEW s, IsSeq(s)
                   PROVE  Len(s) \in Nat /\ DOMAIN s = 1 .. Len(s)
BY DEF IsSeq

LEMMA AnySeq == ASSUME NEW S, NEW s \in Seq(S) PROVE IsSeq(s)
<1>1. \A i \in 1 .. Len(s) : s[i] \in ToSet(s)
  BY DEF ToSet
<1> QED BY <1>1 DEF IsSeq

\* The elements of a concatenation.
LEMMA ConcatOf ==
  ASSUME NEW s, NEW t, IsSeq(s), IsSeq(t)
  PROVE  /\ IsSeq(s \o t)
         /\ Len(s \o t) = Len(s) + Len(t) /\ DOMAIN (s \o t) = 1 .. Len(s) + Len(t)
         /\ \A i \in DOMAIN s : (s \o t)[i] = s[i]
         /\ \A i \in DOMAIN t : (s \o t)[Len(s) + i] = t[i]
         /\ \A i \in DOMAIN (s \o t) : IF i <= Len(s) THEN i \in DOMAIN s ELSE i - Len(s) \in DOMAIN t
<1> DEFINE S == ToSet(s) \cup ToSet(t)
<1>1. s \in Seq(S) /\ t \in Seq(S)
  BY DEF IsSeq
<1>2. s \o t \in Seq(S)
  BY <1>1
<1> HIDE DEF S
<1>3. /\ Len(s \o t) = Len(s) + Len(t)
      /\ \A i \in 1 .. Len(s) : (s \o t)[i] = s[i]
      /\ \A i \in 1 .. Len(t) : (s \o t)[Len(s) + i] = t[i]
  BY <1>1
<1>4. IsSeq(s \o t)
  BY <1>2, AnySeq
<1> QED
  BY <1>3, <1>4, SeqDomain

\* The elements that are left when one is taken out.
LEMMA RemoveOf ==
  ASSUME NEW s, IsSeq(s), NEW i \in DOMAIN s
  PROVE  /\ IsSeq(RemoveAt(s, i))
         /\ DOMAIN RemoveAt(s, i) = 1 .. Len(s) - 1
         /\ \A j \in DOMAIN RemoveAt(s, i) :
              /\ j < i => j \in DOMAIN s /\ RemoveAt(s, i)[j] = s[j]
              /\ j >= i => j + 1 \in DOMAIN s /\ RemoveAt(s, i)[j] = s[j + 1]
<1> DEFINE S == ToSet(s)
           a == SubSeq(s, 1, i - 1)
           b == SubSeq(s, i + 1, Len(s))
<1>1. s \in Seq(S) /\ Len(s) \in Nat /\ i \in 1 .. Len(s)
  BY SeqDomain DEF IsSeq
<1>2. /\ a \in Seq(S) /\ Len(a) = i - 1 /\ \A j \in 1 .. i - 1 : a[j] = s[j]
      /\ b \in Seq(S) /\ Len(b) = Len(s) - i /\ \A j \in 1 .. Len(s) - i : b[j] = s[i + j]
  BY <1>1
<1>3. RemoveAt(s, i) = a \o b
  BY DEF RemoveAt
<1> HIDE DEF S, a, b
<1>4. IsSeq(a) /\ IsSeq(b)
  BY <1>2, AnySeq
<1>5. IsSeq(RemoveAt(s, i)) /\ DOMAIN RemoveAt(s, i) = 1 .. Len(s) - 1
  BY <1>1, <1>2, <1>3, <1>4, ConcatOf
<1>6. ASSUME NEW j \in DOMAIN RemoveAt(s, i), j < i
      PROVE  j \in DOMAIN s /\ RemoveAt(s, i)[j] = s[j]
  BY <1>1, <1>2, <1>3, <1>4, <1>5, <1>6, ConcatOf
<1>7. ASSUME NEW j \in DOMAIN RemoveAt(s, i), j >= i
      PROVE  j + 1 \in DOMAIN s /\ RemoveAt(s, i)[j] = s[j + 1]
  <2>1. j - (i - 1) \in 1 .. Len(s) - i
    BY <1>1, <1>5, <1>7
  <2>2. (a \o b)[(i - 1) + (j - (i - 1))] = b[j - (i - 1)]
    BY <1>1, <1>2, <1>4, <2>1, ConcatOf, SeqDomain
  <2>3. b[j - (i - 1)] = s[i + (j - (i - 1))]
    BY <1>2, <2>1
  <2>4. j + 1 \in DOMAIN s /\ i + (j - (i - 1)) = j + 1 /\ (i - 1) + (j - (i - 1)) = j
    BY <1>1, <1>5, <1>7
  <2> QED BY <1>3, <2>2, <2>3, <2>4
<1> QED BY <1>5, <1>6, <1>7

\* What stays in a sequence when another element is taken out.
LEMMA StaysIn ==
  ASSUME NEW s, IsSeq(s), NEW i \in DOMAIN s, NEW j \in DOMAIN s, i # j
  PROVE  \E k \in DOMAIN RemoveAt(s, i) : RemoveAt(s, i)[k] = s[j]
<1> DEFINE k == IF j < i THEN j ELSE j - 1
<1>1. Len(s) \in Nat /\ i \in 1 .. Len(s) /\ j \in 1 .. Len(s)
  BY SeqDomain
<1>2. k \in DOMAIN RemoveAt(s, i) /\ (j < i => k < i) /\ (~(j < i) => k >= i /\ k + 1 = j)
  BY <1>1, RemoveOf
<1>3. RemoveAt(s, i)[k] = s[j]
  BY <1>2, RemoveOf
<1> QED BY <1>2, <1>3

-----------------------------------------------------------------------------
(* The shape of the dialog and of the threads.                             *)

IsSettings(s) ==
  /\ DOMAIN s = {"roles", "on", "theme"}
  /\ DOMAIN s.roles = Role /\ DOMAIN s.on = Role

DialogFields ==
  {"open", "panel", "role", "fields", "cursor", "list", "secret", "saving", "loading", "available",
   "providers", "info", "all", "seq", "number", "read", "edited", "fine"}

\* The fields of the provider panel: the provider, the key, the model, and a number.
ProviderScreen(fields) ==
  /\ DOMAIN fields = 1 .. 3 \/ DOMAIN fields = 1 .. 4
  /\ fields[1].kind = "selector" /\ fields[2].kind = "secret" /\ fields[3].kind = "selector"

IsDialog(d) ==
  /\ DOMAIN d = DialogFields
  /\ d.role \in DOMAIN Roles
  /\ IsSettings(d.all) /\ IsSettings(d.read)
  /\ d.panel = "provider" => ProviderScreen(d.fields)
  /\ d.loading \in BOOLEAN /\ d.saving \in BOOLEAN /\ d.fine \in BOOLEAN

ThreadFields(kind) ==
  CASE kind = "push" -> {"kind", "from", "all", "next", "read"}
    [] kind = "initial" -> {"kind", "from", "rs", "read"}
    [] kind = "fields" -> {"kind", "from", "seq", "rs", "providers", "available"}
    [] kind = "save" -> {"kind", "from", "all", "next", "told"}

IsThread(t) ==
  /\ t.kind \in {"push", "initial", "fields", "save"}
  /\ DOMAIN t = ThreadFields(t.kind)
  /\ t.kind \in {"push", "save"} => IsSettings(t.all) /\ t.next \in 1 .. Len(Roles) + 1
  /\ t.kind = "initial" => t.read \in BOOLEAN
  /\ t.kind = "save" => t.told \in BOOLEAN

ShapeInv ==
  /\ IsSettings(file)
  /\ opened \in Nat
  /\ dlg.open \in BOOLEAN
  /\ dlg.open => IsDialog(dlg) /\ dlg.number = opened
  /\ IsSeq(threads)
  /\ \A i \in DOMAIN threads : IsThread(threads[i]) /\ threads[i].from \in 0 .. opened

-----------------------------------------------------------------------------
(* Looking changes nothing.                                                *)

KeptAs(rs, good) == Known(good) => Same(rs, good)

\* The thread that the dialog on the screen waits for.
Loads(t) == t.kind \in {"initial", "fields"} /\ t.from = dlg.number

\* What the threads of a dialog that got every answer bring.
Brings(t) ==
  /\ t.kind = "initial" =>
       /\ dlg.role = 1 /\ dlg.panel = "provider" /\ dlg.edited = {}
       /\ t.read => t.rs = dlg.read.roles[Roles[1]]
       /\ ~t.read => file = dlg.read /\ \A i \in DOMAIN threads : ~IsSave(threads[i])
  /\ t.kind = "fields" =>
       /\ t.seq = dlg.seq /\ dlg.panel = "provider"
       /\ t.available /\ t.providers = Listed /\ dlg.available /\ dlg.providers = Listed
       /\ Shown(dlg) \notin dlg.edited => KeptAs(t.rs, dlg.read.roles[Shown(dlg)])

RolesKept(d) == \A r \in Role \ d.edited : KeptAs(d.all.roles[r], d.read.roles[r])

\* The provider panel shows what it would be flushed to.
ScreenKept(d) ==
  d.panel = "provider" /\ Shown(d) \notin d.edited =>
    KeptAs(Gathered(d.fields, d.info), d.read.roles[Shown(d)])

LookInv ==
  dlg.open /\ dlg.fine =>
    /\ RolesKept(dlg)
    /\ \A i \in DOMAIN threads : Loads(threads[i]) => dlg.loading /\ Brings(threads[i])
    /\ \A i, j \in DOMAIN threads : Loads(threads[i]) /\ Loads(threads[j]) => i = j
    /\ ~dlg.loading => dlg.available /\ dlg.providers = Listed /\ ScreenKept(dlg)

\* A dialog that may be between two panels.
IsFrame(d) ==
  /\ DOMAIN d = DialogFields
  /\ d.role \in DOMAIN Roles
  /\ IsSettings(d.all) /\ IsSettings(d.read)
  /\ d.loading \in BOOLEAN /\ d.saving \in BOOLEAN /\ d.fine \in BOOLEAN

Differs(d, e, what) == \A x \in DialogFields \ what : e[x] = d[x]

LEMMA ShownIsRole == ASSUME NEW d, d.role \in DOMAIN Roles PROVE Shown(d) \in Role
BY DEF Shown, Role, ToSet

LEMMA LenOf == ASSUME NEW s, NEW n \in Nat, DOMAIN s = 1 .. n PROVE Len(s) = n
OBVIOUS

\* flush_fields_to_settings writes the settings of the role on the screen only.
LEMMA FlushedFrame ==
  ASSUME NEW d, IsFrame(d)
  PROVE  /\ IsFrame(Flushed(d)) /\ Differs(d, Flushed(d), {"all"})
         /\ \A r \in Role :
              Flushed(d).all.roles[r] =
                IF d.panel = "provider" /\ r = Shown(d) THEN Gathered(d.fields, d.info)
                ELSE d.all.roles[r]
<1>1. Shown(d) \in Role
  BY ShownIsRole DEF IsFrame
<1>2. CASE d.panel = "provider"
  <2>1. Flushed(d) = [d EXCEPT !.all.roles[Shown(d)] = Gathered(d.fields, d.info)]
    BY <1>2 DEF Flushed
  <2> QED BY <1>1, <1>2, <2>1 DEF IsFrame, IsSettings, Differs, DialogFields
<1>3. CASE d.panel = "role"
  <2> DEFINE on == /\ Shown(d) \in Switchable /\ d.fields # <<>> /\ d.fields[1].kind = "selector"
                   /\ d.fields[1].index = 2
  <2>1. Flushed(d) = [d EXCEPT !.all.on[Shown(d)] = on]
    BY <1>3 DEF Flushed
  <2> HIDE DEF on
  <2> QED BY <1>1, <1>3, <2>1 DEF IsFrame, IsSettings, Differs, DialogFields
<1>4. CASE d.panel \notin {"provider", "role"}
  <2> DEFINE theme == Chosen(d.fields[1])
  <2>1. Flushed(d) = [d EXCEPT !.all.theme = theme] \/ Flushed(d) = d
    BY <1>4 DEF Flushed
  <2> HIDE DEF theme
  <2> QED BY <1>1, <1>4, <2>1 DEF IsFrame, IsSettings, Differs, DialogFields
<1> QED BY <1>2, <1>3, <1>4

LEMMA FlushedDialog == ASSUME NEW d, IsDialog(d) PROVE IsDialog(Flushed(d))
<1>1. IsFrame(d)
  BY DEF IsDialog, IsFrame
<1>2. IsFrame(Flushed(d)) /\ Flushed(d).panel = d.panel /\ Flushed(d).fields = d.fields
  BY <1>1, FlushedFrame DEF Differs, DialogFields
<1> QED BY <1>2 DEF IsDialog, IsFrame

\* So a flush keeps what is kept on the screen.
LEMMA FlushedKeeps ==
  ASSUME NEW d, IsFrame(d), RolesKept(d), ScreenKept(d)
  PROVE  RolesKept(Flushed(d))
<1>1. Flushed(d).edited = d.edited /\ Flushed(d).read = d.read
  BY FlushedFrame DEF Differs, DialogFields
<1> SUFFICES ASSUME NEW r \in Role \ d.edited
             PROVE  KeptAs(Flushed(d).all.roles[r], d.read.roles[r])
  BY <1>1 DEF RolesKept
<1>2. CASE d.panel = "provider" /\ r = Shown(d)
  BY <1>2, FlushedFrame DEF ScreenKept
<1>3. CASE ~(d.panel = "provider" /\ r = Shown(d))
  BY <1>3, FlushedFrame DEF RolesKept
<1> QED BY <1>2, <1>3

Looked(d) == d.available /\ RolesKept(d) /\ ScreenKept(d)

FieldsThread(d, rs) ==
  [kind |-> "fields", from |-> d.number, seq |-> d.seq, rs |-> rs,
   providers |-> d.providers, available |-> d.available]
SaveThread(d) == [kind |-> "save", from |-> d.number, all |-> d.all, next |-> 1, told |-> FALSE]

\* What a key leads to: nothing is under way, or fields are, or a save.
Rests(d, e) ==
  /\ e.start = <<>> /\ ~e.dlg.loading /\ ~e.dlg.saving
  /\ Looked(d) => RolesKept(e.dlg) /\ ScreenKept(e.dlg)
AsksFor(d, e) ==
  /\ e.dlg.loading /\ ~e.dlg.saving /\ e.dlg.panel = "provider"
  /\ \E rs :
       /\ e.start = <<FieldsThread(e.dlg, rs)>>
       /\ Looked(d) =>
            /\ RolesKept(e.dlg)
            /\ Shown(e.dlg) \notin e.dlg.edited => KeptAs(rs, e.dlg.read.roles[Shown(e.dlg)])
Saves(d, e) ==
  /\ ~e.dlg.loading /\ e.dlg.saving /\ e.start = <<SaveThread(e.dlg)>>
  /\ Looked(d) => RolesKept(e.dlg) /\ ScreenKept(e.dlg)

\* What no key changes.
Framed(d, e) ==
  /\ e.open = d.open /\ e.number = d.number /\ e.read = d.read /\ e.fine = d.fine
  /\ e.available = d.available /\ e.providers = d.providers

Leads(d, e) ==
  /\ IsDialog(e.dlg) /\ Framed(d, e.dlg)
  /\ Rests(d, e) \/ AsksFor(d, e) \/ Saves(d, e)

LEMMA MinimalScreen == ASSUME NEW rs PROVE ProviderScreen(MinimalFields(rs))
BY DEF ProviderScreen, MinimalFields, Selector, Secret

\* load_role_fields, for the role and panel that have just become those of the dialog.
LEMMA WithRoleFieldsLeads ==
  ASSUME NEW d, IsFrame(d), d.panel = "provider", ~d.loading, ~d.saving,
         NEW d0, Framed(d0, d), Looked(d0) => RolesKept(d)
  PROVE  Leads(d0, WithRoleFields(d))
<1> DEFINE rs == d.all.roles[Shown(d)]
           e == [d EXCEPT !.fields = MinimalFields(rs)]
           f == [e EXCEPT !.loading = TRUE, !.seq = @ + 1]
<1>1. /\ IsFrame(e) /\ Differs(d, e, {"fields"}) /\ e.fields = MinimalFields(rs)
      /\ IsFrame(f) /\ Differs(d, f, {"fields", "loading", "seq"}) /\ f.loading
      /\ f.fields = MinimalFields(rs) /\ f.seq = e.seq + 1
  BY DEF IsFrame, Differs, DialogFields
<1>2. IsDialog(e) /\ IsDialog(f) /\ Shown(d) \in Role
  BY <1>1, MinimalScreen, ShownIsRole DEF IsDialog, IsFrame
<1>3. Framed(d0, e) /\ Framed(d0, f)
  BY <1>1 DEF Framed, Differs, DialogFields
<1>4. CASE d.available
  <2>1. WithRoleFields(d) = Reloads(e, rs)
    BY <1>1, <1>4 DEF WithRoleFields, Differs, DialogFields
  <2>2. WithRoleFields(d).dlg = f /\ WithRoleFields(d).start = <<FieldsThread(f, rs)>>
    BY <2>1, <1>1 DEF Reloads, FieldsThread, Differs, DialogFields
  <2>3. Shown(f) = Shown(d) /\ f.edited = d.edited /\ f.read = d.read /\ f.all = d.all
        /\ f.panel = "provider" /\ ~f.saving
    BY <1>1 DEF Shown, Differs, DialogFields
  <2>4. Looked(d0) => RolesKept(f)
    BY <2>3 DEF RolesKept
  <2>5. Looked(d0) /\ Shown(f) \notin f.edited => KeptAs(rs, f.read.roles[Shown(f)])
    BY <1>2, <2>3 DEF RolesKept
  <2>6. AsksFor(d0, WithRoleFields(d))
    BY <1>1, <2>2, <2>3, <2>4, <2>5 DEF AsksFor
  <2> QED BY <1>2, <1>3, <2>2, <2>6 DEF Leads
<1>5. CASE ~d.available
  <2>1. WithRoleFields(d).dlg = e /\ WithRoleFields(d).start = <<>>
    BY <1>1, <1>5 DEF WithRoleFields, Just, Differs, DialogFields
  <2>2. ~Looked(d0)
    BY <1>5 DEF Looked, Framed
  <2>3. Rests(d0, WithRoleFields(d))
    BY <1>1, <2>1, <2>2 DEF Rests, Differs, DialogFields
  <2> QED BY <1>2, <1>3, <2>1, <2>3 DEF Leads
<1> QED BY <1>4, <1>5

LEMMA RebuiltLeads ==
  ASSUME NEW d, IsFrame(d), ~d.loading, ~d.saving,
         NEW d0, Framed(d0, d), Looked(d0) => RolesKept(d)
  PROVE  Leads(d0, Rebuilt(d))
<1>1. CASE d.panel = "provider"
  BY <1>1, WithRoleFieldsLeads DEF Rebuilt
<1>2. CASE d.panel # "provider"
  <2> DEFINE fields == IF d.panel = "role" THEN BehaviorFields(Shown(d), d.all.on[Shown(d)])
                       ELSE ThemeFields(d.all.theme)
             cursor == Min({d.cursor, Len(fields)})
             e == [d EXCEPT !.fields = fields, !.cursor = cursor]
  <2>1. Rebuilt(d) = Just(e)
    BY <1>2 DEF Rebuilt
  <2> HIDE DEF fields, cursor
  <2>2. IsFrame(e) /\ Differs(d, e, {"fields", "cursor"})
    BY DEF IsFrame, Differs, DialogFields
  <2>3. IsDialog(e) /\ Framed(d0, e) /\ ScreenKept(e) /\ ~e.loading /\ ~e.saving
    BY <1>2, <2>2 DEF IsDialog, IsFrame, Framed, ScreenKept, Differs, DialogFields
  <2>4. RolesKept(d) => RolesKept(e)
    BY <2>2 DEF RolesKept, Differs, DialogFields
  <2> HIDE DEF e
  <2>5. Rebuilt(d).dlg = e /\ Rebuilt(d).start = <<>>
    BY <2>1 DEF Just
  <2>6. Rests(d0, Rebuilt(d))
    BY <2>3, <2>4, <2>5 DEF Rests
  <2> QED BY <2>3, <2>5, <2>6 DEF Leads
<1> QED BY <1>1, <1>2

LEMMA DialogIsFrame == ASSUME NEW d, IsDialog(d) PROVE IsFrame(d)
BY DEF IsDialog, IsFrame

LEMMA SwitchPanelLeads ==
  ASSUME NEW d, IsDialog(d), ~d.loading, ~d.saving
  PROVE  Leads(d, SwitchPanel(d))
<1> DEFINE panel == CASE d.panel = "provider" -> "role" [] d.panel = "role" -> "theme"
                      [] OTHER -> "provider"
           e == [d EXCEPT !.cursor = 0, !.panel = panel]
<1>1. SwitchPanel(d) = Rebuilt(e)
  BY DEF SwitchPanel, IsDialog, DialogFields
<1> HIDE DEF panel
<1>2. IsFrame(e) /\ Differs(d, e, {"cursor", "panel"})
  BY DialogIsFrame DEF IsFrame, Differs, DialogFields
<1>3. Framed(d, e) /\ ~e.loading /\ ~e.saving
  BY <1>2 DEF Framed, Differs, DialogFields
<1>4. RolesKept(d) => RolesKept(e)
  BY <1>2 DEF RolesKept, Differs, DialogFields
<1> QED BY <1>1, <1>2, <1>3, <1>4, RebuiltLeads DEF Looked

LEMMA WalkLeads ==
  ASSUME NEW d, IsDialog(d), ~d.loading, ~d.saving, NEW r \in DOMAIN Roles
  PROVE  Leads(d, Rebuilt([Flushed(d) EXCEPT !.role = r]))
<1> DEFINE f == Flushed(d)
           e == [f EXCEPT !.role = r]
<1>1. IsFrame(f) /\ Differs(d, f, {"all"}) /\ (Looked(d) => RolesKept(f))
  BY DialogIsFrame, FlushedFrame, FlushedKeeps DEF Looked
<1> HIDE DEF f
<1>2. IsFrame(e) /\ Differs(f, e, {"role"})
  BY <1>1 DEF IsFrame, Differs, DialogFields
<1>3. Framed(d, e) /\ ~e.loading /\ ~e.saving
  BY <1>1, <1>2 DEF Framed, Differs, DialogFields
<1>4. RolesKept(f) => RolesKept(e)
  BY <1>2 DEF RolesKept, Differs, DialogFields
<1> QED BY <1>1, <1>2, <1>3, <1>4, RebuiltLeads DEF f

\* A field changes and keeps its kind.
FieldChanged(d, e) ==
  /\ IsFrame(e) /\ Differs(d, e, {"fields", "list", "secret"})
  /\ DOMAIN e.fields = DOMAIN d.fields
  /\ \A k \in DOMAIN d.fields : e.fields[k].kind = d.fields[k].kind

LEMMA FieldChangedDialog ==
  ASSUME NEW d, NEW e, IsDialog(d), FieldChanged(d, e) PROVE IsDialog(e)
<1>1. e.panel = d.panel
  BY DEF FieldChanged, Differs, DialogFields
<1>2. ASSUME ProviderScreen(d.fields) PROVE ProviderScreen(e.fields)
  BY <1>2 DEF ProviderScreen, FieldChanged
<1> QED BY <1>1, <1>2 DEF IsDialog, IsFrame, FieldChanged

\* The role on the screen is edited from then on.
LEMMA EditedKeeps ==
  ASSUME NEW d, IsDialog(d), NEW e, FieldChanged(d, e)
  PROVE  /\ IsDialog(Edited(e)) /\ Differs(e, Edited(e), {"edited"}) /\ Framed(d, Edited(e))
         /\ e.panel = "provider" => Shown(Edited(e)) \in Edited(e).edited
         /\ Looked(d) => RolesKept(Edited(e)) /\ ScreenKept(Edited(e))
<1> DEFINE g == Edited(e)
<1>1. IsDialog(e) /\ IsFrame(e) /\ Differs(d, e, {"fields", "list", "secret"})
  BY FieldChangedDialog, DialogIsFrame DEF FieldChanged
<1>2. /\ IsFrame(g) /\ Differs(e, g, {"edited"})
      /\ g.edited = IF e.panel = "provider" THEN e.edited \cup {Shown(e)} ELSE e.edited
  BY <1>1 DEF Edited, IsFrame, Differs, DialogFields
<1>3. IsDialog(g) /\ Framed(d, g)
  BY <1>1, <1>2 DEF IsDialog, IsFrame, Framed, Differs, DialogFields
<1>4. Shown(g) = Shown(e)
  BY <1>2 DEF Shown, Differs, DialogFields
<1>5. RolesKept(d) => RolesKept(g)
  BY <1>1, <1>2 DEF RolesKept, Differs, DialogFields
<1>6. ScreenKept(g)
  BY <1>2, <1>4 DEF ScreenKept, Differs, DialogFields
<1> QED BY <1>2, <1>3, <1>4, <1>5, <1>6 DEF Looked

\* reload_models for a role that has been edited.
LEMMA ReloadModelsLeads ==
  ASSUME NEW d, IsDialog(d), d.panel = "provider", ~d.loading, ~d.saving,
         Shown(d) \in d.edited,
         NEW d0, Framed(d0, d), Looked(d0) => RolesKept(d)
  PROVE  Leads(d0, ReloadModels(d))
<1> DEFINE m == ModelCleared(d)
           e == Flushed(m)
           rs == Gathered(e.fields, e.info)
           f == [e EXCEPT !.loading = TRUE, !.seq = @ + 1]
<1>1. FieldChanged(d, m)
  BY DialogIsFrame
  DEF ModelCleared, FieldChanged, IsDialog, ProviderScreen, IsFrame, Selector, Differs, DialogFields
<1>2. IsDialog(m) /\ IsFrame(m) /\ Differs(d, m, {"fields", "list", "secret"})
  BY <1>1, FieldChangedDialog DEF FieldChanged
<1> HIDE DEF m
<1>3. IsDialog(e) /\ IsFrame(e) /\ Differs(m, e, {"all"})
  BY <1>2, FlushedDialog, FlushedFrame
<1>4. Shown(m) = Shown(d) /\ m.edited = d.edited /\ (RolesKept(d) => RolesKept(m))
  BY <1>2 DEF Shown, RolesKept, Differs, DialogFields
<1>5. ScreenKept(m)
  BY <1>4 DEF ScreenKept
<1>6. Looked(d0) => RolesKept(e)
  BY <1>2, <1>4, <1>5, FlushedKeeps
<1> HIDE DEF e
<1>7. ReloadModels(d).dlg = f /\ ReloadModels(d).start = <<FieldsThread(f, rs)>>
  BY <1>3 DEF ReloadModels, Reloads, FieldsThread, IsFrame, DialogFields, e, m
<1> HIDE DEF rs
<1>8. IsFrame(f) /\ Differs(e, f, {"loading", "seq"}) /\ f.loading
  BY <1>3 DEF IsFrame, Differs, DialogFields
<1>9. IsDialog(f) /\ Framed(d0, f) /\ ~f.saving /\ f.panel = "provider"
  BY <1>2, <1>3, <1>8 DEF IsDialog, IsFrame, Framed, Differs, DialogFields
<1>10. Shown(f) = Shown(d) /\ f.edited = d.edited /\ (RolesKept(e) => RolesKept(f))
  BY <1>2, <1>3, <1>8 DEF Shown, RolesKept, Differs, DialogFields
<1>11. AsksFor(d0, ReloadModels(d))
  BY <1>6, <1>7, <1>8, <1>9, <1>10 DEF AsksFor
<1> QED BY <1>7, <1>9, <1>11 DEF Leads

LEMMA OnProviderChangedLeads ==
  ASSUME NEW d, IsDialog(d), d.panel = "provider", ~d.loading, ~d.saving,
         Shown(d) \in d.edited,
         NEW d0, Framed(d0, d), Looked(d0) => RolesKept(d)
  PROVE  Leads(d0, OnProviderChanged(d))
<1> DEFINE c == KeyCleared(d)
<1>1. FieldChanged(d, c)
  BY DialogIsFrame
  DEF KeyCleared, FieldChanged, IsDialog, ProviderScreen, IsFrame, Secret, Differs, DialogFields
<1>2. IsDialog(c) /\ Differs(d, c, {"fields", "list", "secret"})
  BY <1>1, FieldChangedDialog DEF FieldChanged
<1>3. OnProviderChanged(d) = ReloadModels(c)
  BY DEF OnProviderChanged
<1> HIDE DEF c
<1>4. /\ c.panel = "provider" /\ ~c.loading /\ ~c.saving /\ Framed(d0, c)
      /\ Shown(c) = Shown(d) /\ c.edited = d.edited /\ (RolesKept(d) => RolesKept(c))
  BY <1>2 DEF Shown, RolesKept, Framed, Differs, DialogFields
<1> QED BY <1>2, <1>3, <1>4, ReloadModelsLeads

\* A dialog that stays as it is, but for what is left of a list or a buffer.
LEMMA StillLeads ==
  ASSUME NEW d, IsDialog(d), ~d.loading, ~d.saving,
         NEW e, IsFrame(e), Differs(d, e, {"list", "secret", "cursor"})
  PROVE  Leads(d, Just(e)) /\ IsDialog(e)
<1>1. IsDialog(e) /\ Framed(d, e) /\ ~e.loading /\ ~e.saving
  BY DEF IsDialog, IsFrame, Framed, Differs, DialogFields
<1>2. Looked(d) => RolesKept(e) /\ ScreenKept(e)
  BY DEF Looked, RolesKept, ScreenKept, Shown, Differs, DialogFields
<1>3. Just(e).dlg = e /\ Just(e).start = <<>>
  BY DEF Just
<1> QED BY <1>1, <1>2, <1>3 DEF Leads, Rests

\* A field that has changed is one the user has edited.
LEMMA JustEditedLeads ==
  ASSUME NEW d, IsDialog(d), ~d.loading, ~d.saving, NEW e, FieldChanged(d, e)
  PROVE  Leads(d, Just(Edited(e)))
<1>1. e.loading = d.loading /\ e.saving = d.saving
  BY DEF FieldChanged, Differs, DialogFields
<1>2. /\ IsDialog(Edited(e)) /\ Differs(e, Edited(e), {"edited"}) /\ Framed(d, Edited(e))
      /\ Looked(d) => RolesKept(Edited(e)) /\ ScreenKept(Edited(e))
  BY EditedKeeps
<1>3. Edited(e).loading = d.loading /\ Edited(e).saving = d.saving
  BY <1>1, <1>2 DEF Differs, DialogFields
<1>4. Just(Edited(e)).dlg = Edited(e) /\ Just(Edited(e)).start = <<>>
  BY DEF Just
<1> QED BY <1>2, <1>3, <1>4 DEF Leads, Rests

LEMMA SelectsLeads ==
  ASSUME NEW d0, IsDialog(d0), ~d0.loading, ~d0.saving,
         NEW d, IsFrame(d), Differs(d0, d, {"list", "secret", "cursor"}),
         OnField(d, "selector"), NEW i
  PROVE  Leads(d0, Selects(d, i))
<1> DEFINE m == [d EXCEPT !.fields[Field(d)].index = i]
           e == Edited(m)
<1>1. IsFrame(m) /\ Differs(d, m, {"fields"})
  BY DEF IsFrame, Differs, DialogFields
<1>2. /\ DOMAIN m.fields = DOMAIN d.fields
      /\ \A k \in DOMAIN d.fields : m.fields[k].kind = d.fields[k].kind
  BY DEF IsFrame, DialogFields
<1>0. Selects(d, i) = IF OnProvider(d) THEN OnProviderChanged(e) ELSE Just(e)
  BY DEF Selects
<1> HIDE DEF m
<1>3. IsDialog(d)
  BY StillLeads
<1>4. FieldChanged(d, m)
  BY <1>1, <1>2 DEF FieldChanged, Differs
<1>5. d.loading = d0.loading /\ d.saving = d0.saving /\ Framed(d0, d)
  BY DEF Framed, Differs, DialogFields
<1>6. Looked(d0) => Looked(d)
  BY DEF Looked, RolesKept, ScreenKept, Shown, Differs, DialogFields
<1>7. Leads(d, Just(e))
  BY <1>3, <1>4, <1>5, JustEditedLeads
<1>8. CASE ~OnProvider(d)
  BY <1>0, <1>5, <1>6, <1>7, <1>8 DEF Leads, Framed, Rests, AsksFor, Saves
<1>9. CASE OnProvider(d)
  <2>1. /\ IsDialog(e) /\ Differs(m, e, {"edited"}) /\ Framed(d, e)
        /\ m.panel = "provider" => Shown(e) \in e.edited
        /\ Looked(d) => RolesKept(e) /\ ScreenKept(e)
    BY <1>3, <1>4, EditedKeeps
  <2> HIDE DEF e
  <2>2. m.panel = "provider" /\ e.panel = "provider" /\ ~e.loading /\ ~e.saving
    BY <1>1, <1>5, <1>9, <2>1 DEF OnProvider, Differs, DialogFields
  <2>3. Framed(d0, e)
    BY <1>5, <2>1 DEF Framed
  <2> QED BY <1>0, <1>6, <1>9, <2>1, <2>2, <2>3, OnProviderChangedLeads
<1> QED BY <1>8, <1>9

LEMMA StepLeads ==
  ASSUME NEW d, IsDialog(d), ~d.loading, ~d.saving, NEW by
  PROVE  Leads(d, Step(d, by))
<1>1. IsFrame(d)
  BY DialogIsFrame
<1>2. Leads(d, Just(d))
  BY <1>1, StillLeads DEF Differs
<1>3. CASE d.cursor = 0 /\ d.role + by \in DOMAIN Roles
  <2>1. Flushed(d).role = d.role /\ IsFrame(Flushed(d))
    BY <1>1, FlushedFrame DEF Differs, DialogFields
  <2>2. Step(d, by) = Rebuilt([Flushed(d) EXCEPT !.role = d.role + by])
    BY <1>3, <2>1 DEF Step, IsFrame, DialogFields
  <2> QED BY <1>3, <2>2, WalkLeads
<1>4. CASE d.cursor # 0 /\ OnField(d, "selector")
           /\ d.fields[Field(d)].index + by \in DOMAIN d.fields[Field(d)].options
  BY <1>1, <1>4, SelectsLeads DEF Step, Differs
<1> QED BY <1>2, <1>3, <1>4 DEF Step

LEMMA SavedLeads ==
  ASSUME NEW d, IsDialog(d), ~d.loading, ~d.saving
  PROVE  Leads(d, Saved(d))
<1> DEFINE f == Flushed(d)
           e == [f EXCEPT !.saving = TRUE]
           configured == {r \in Role : d.all.roles[r].provider # None}
<1>1. CASE configured = {} \/ \E r \in configured : d.all.roles[r].model = None
  <2>1. Saved(d) = Just(d)
    BY <1>1 DEF Saved
  <2> QED BY <2>1, DialogIsFrame, StillLeads DEF Differs
<1>2. CASE ~(configured = {} \/ \E r \in configured : d.all.roles[r].model = None)
  <2>1. /\ Saved(d).dlg = e
        /\ Saved(d).start = <<[kind |-> "save", from |-> d.number, all |-> e.all, next |-> 1,
                               told |-> FALSE]>>
    BY <1>2 DEF Saved
  <2>2. /\ IsFrame(f) /\ IsDialog(f) /\ Differs(d, f, {"all"})
        /\ (Looked(d) => RolesKept(f))
    BY DialogIsFrame, FlushedFrame, FlushedDialog, FlushedKeeps DEF Looked
  <2> HIDE DEF f
  <2>3. IsDialog(e) /\ Differs(f, e, {"saving"}) /\ e.saving
    BY <2>2 DEF IsDialog, IsFrame, Differs, DialogFields
  <2> HIDE DEF e
  <2>4. Framed(d, e) /\ ~e.loading /\ e.number = d.number
    BY <2>2, <2>3 DEF Framed, Differs, DialogFields
  <2>5. Looked(d) => RolesKept(e) /\ ScreenKept(e)
    BY <2>2, <2>3 DEF Looked, RolesKept, ScreenKept, Shown, Differs, DialogFields
  <2>6. Saved(d).start = <<SaveThread(e)>>
    BY <2>1, <2>4 DEF SaveThread
  <2>7. Saves(d, Saved(d))
    BY <2>1, <2>3, <2>4, <2>5, <2>6 DEF Saves
  <2> QED BY <2>1, <2>3, <2>4, <2>7 DEF Leads
<1> QED BY <1>1, <1>2

LEMMA TypedLeads ==
  ASSUME NEW d, IsDialog(d), ~d.loading, ~d.saving, NEW value
  PROVE  Leads(d, Just(Typed(d, value)))
<1>1. CASE d.cursor > 0 /\ OnField(d, "text")
  <2> DEFINE m == [d EXCEPT !.fields[Field(d)] = Text(value)]
  <2>1. FieldChanged(d, m)
    BY <1>1, DialogIsFrame
    DEF FieldChanged, IsDialog, IsFrame, OnField, Text, Differs, DialogFields
  <2>2. Typed(d, value) = Edited(m)
    BY <1>1 DEF Typed
  <2> QED BY <2>1, <2>2, JustEditedLeads
<1>2. CASE ~(d.cursor > 0 /\ OnField(d, "text"))
  BY <1>2, DialogIsFrame, StillLeads DEF Typed, Differs
<1> QED BY <1>1, <1>2

LEMMA ConfirmedLeads ==
  ASSUME NEW d, IsDialog(d), ~d.loading, ~d.saving
  PROVE  Leads(d, Confirmed(d))
<1> DEFINE e == [d EXCEPT !.list = Shut]
<1>1. IsFrame(e) /\ Differs(d, e, {"list"})
  BY DialogIsFrame DEF IsFrame, Differs, DialogFields
<1>2. OnField(e, "selector") = OnField(d, "selector")
  BY <1>1 DEF OnField, Field, Differs, DialogFields
<1>3. Confirmed(d) = IF d.list.options = <<>> THEN Just(d)
                     ELSE IF ~OnField(d, "selector") THEN Just(e)
                     ELSE Selects(e, d.list.options[d.list.at])
  BY DEF Confirmed
<1> HIDE DEF e
<1>4. Differs(d, e, {"list", "secret", "cursor"})
  BY <1>1 DEF Differs
<1>5. Leads(d, Just(d)) /\ Leads(d, Just(e))
  BY <1>1, <1>4, DialogIsFrame, StillLeads DEF Differs
<1>6. CASE OnField(d, "selector")
  BY <1>1, <1>2, <1>3, <1>4, <1>5, <1>6, SelectsLeads
<1> QED BY <1>3, <1>5, <1>6

LEMMA SecretConfirmedLeads ==
  ASSUME NEW d, IsDialog(d), ~d.loading, ~d.saving
  PROVE  Leads(d, SecretConfirmed(d))
<1> DEFINE e == [d EXCEPT !.secret = NoBuffer]
           m == [e EXCEPT !.fields[Field(d)] = Secret(d.secret.text)]
           f == IF OnField(d, "secret") THEN Edited(m) ELSE e
<1>1. IsFrame(e) /\ Differs(d, e, {"secret"})
  BY DialogIsFrame DEF IsFrame, Differs, DialogFields
<1>2. ASSUME OnField(d, "secret") PROVE FieldChanged(d, m)
  BY <1>1, <1>2, DialogIsFrame
  DEF FieldChanged, IsDialog, IsFrame, OnField, Secret, Differs, DialogFields
<1>3. SecretConfirmed(d) =
        IF d.panel = "provider" /\ Field(d) = 2 /\ d.available THEN ReloadModels(f) ELSE Just(f)
  BY DEF SecretConfirmed
<1> HIDE DEF e, m
<1>4. Leads(d, Just(f))
  BY <1>1, <1>2, StillLeads, JustEditedLeads DEF Differs
<1>5. CASE d.panel = "provider" /\ Field(d) = 2 /\ d.available
  <2>1. OnField(d, "secret")
    BY <1>5 DEF OnField, IsDialog, ProviderScreen
  <2>2. /\ FieldChanged(d, m) /\ f = Edited(m)
        /\ IsDialog(f) /\ Differs(m, f, {"edited"}) /\ Framed(d, f)
        /\ m.panel = "provider" => Shown(f) \in f.edited
        /\ Looked(d) => RolesKept(f)
    BY <1>2, <2>1, EditedKeeps
  <2> HIDE DEF f
  <2>3. m.panel = "provider" /\ f.panel = "provider" /\ ~f.loading /\ ~f.saving
    BY <1>5, <2>2 DEF FieldChanged, Differs, DialogFields
  <2> QED BY <1>3, <1>5, <2>2, <2>3, ReloadModelsLeads
<1> QED BY <1>3, <1>4, <1>5

\* What any key of the dialog leads to.
LEMMA KeyLeads ==
  ASSUME NEW d, IsDialog(d), ~d.loading, ~d.saving, NEW e \in KeyIn(d)
  PROVE  Leads(d, e)
<1>1. CASE e \in FieldKey(d)
  BY <1>1, StepLeads, SwitchPanelLeads, SavedLeads, TypedLeads DEF FieldKey
<1>2. CASE e \in ListKey(d) \cup SecretKey(d)
  BY <1>2, ConfirmedLeads, SecretConfirmedLeads DEF ListKey, SecretKey
<1> QED BY <1>1, <1>2 DEF KeyIn

\* And what only moves or edits what is not confirmed.
LEMMA ViewStays ==
  ASSUME NEW d, IsDialog(d), NEW e \in ViewIn(d)
  PROVE  IsFrame(e) /\ Differs(d, e, {"list", "secret", "cursor"})
<1>0. IsFrame(d)
  BY DialogIsFrame
<1>1. ASSUME NEW v, e = [d EXCEPT !.list = v] \/ e = [d EXCEPT !.secret = v]
                    \/ e = [d EXCEPT !.cursor = v]
      PROVE  IsFrame(e) /\ Differs(d, e, {"list", "secret", "cursor"})
  BY <1>0, <1>1 DEF IsFrame, Differs, DialogFields
<1>2. CASE e = d
  BY <1>0, <1>2 DEF Differs
<1>3. CASE e \in FieldView(d)
  BY <1>1, <1>2, <1>3 DEF FieldView, Opened, Move
<1>4. CASE e \in ListView(d)
  BY <1>1, <1>4 DEF ListView, Filtered
<1>5. CASE e \in SecretView(d)
  BY <1>1, <1>5 DEF SecretView
<1> QED BY <1>3, <1>4, <1>5 DEF ViewIn

-----------------------------------------------------------------------------
(* Every step keeps the shape, and a thread for what the dialog waits for. *)

DialogInv == ShapeInv /\ LoadingEnds

LEMMA UpdateOf ==
  ASSUME NEW s, IsSeq(s), NEW i \in DOMAIN s, NEW v
  PROVE  /\ IsSeq([s EXCEPT ![i] = v]) /\ DOMAIN [s EXCEPT ![i] = v] = DOMAIN s
         /\ [s EXCEPT ![i] = v][i] = v
         /\ \A j \in DOMAIN s \ {i} : [s EXCEPT ![i] = v][j] = s[j]
<1> DEFINE S == ToSet(s) \cup {v}
<1>1. s \in Seq(S)
  BY DEF IsSeq
<1>2. [s EXCEPT ![i] = v] \in Seq(S)
  BY <1>1
<1> HIDE DEF S
<1> QED BY <1>2, AnySeq

LEMMA EndKeeps ==
  ASSUME ShapeInv, NEW i \in DOMAIN threads, ThreadEnds(i), UNCHANGED opened
  PROVE  /\ IsSeq(threads')
         /\ \A j \in DOMAIN threads' : IsThread(threads'[j]) /\ threads'[j].from \in 0 .. opened'
<1>1. threads' = RemoveAt(threads, i) /\ IsSeq(threads)
  BY DEF ShapeInv, ThreadEnds
<1>2. \A j \in DOMAIN threads' : \E k \in DOMAIN threads : threads'[j] = threads[k]
  <2> SUFFICES ASSUME NEW j \in DOMAIN threads' PROVE \E k \in DOMAIN threads : threads'[j] = threads[k]
    OBVIOUS
  <2>1. j \in Int /\ i \in Int
    BY <1>1, RemoveOf, SeqDomain
  <2>2. CASE j < i
    BY <1>1, <2>2, RemoveOf
  <2>3. CASE j >= i
    BY <1>1, <2>3, RemoveOf
  <2> QED BY <2>1, <2>2, <2>3
<1> QED BY <1>1, <1>2, RemoveOf DEF ShapeInv

LEMMA UpdateKeeps ==
  ASSUME ShapeInv, NEW i \in DOMAIN threads, NEW v, threads' = [threads EXCEPT ![i] = v],
         IsThread(v), v.from = threads[i].from, UNCHANGED opened
  PROVE  /\ IsSeq(threads')
         /\ \A j \in DOMAIN threads' : IsThread(threads'[j]) /\ threads'[j].from \in 0 .. opened'
BY UpdateOf DEF ShapeInv

LEMMA WaitAfterEnd ==
  ASSUME ShapeInv, LoadingEnds, NEW i \in DOMAIN threads, ThreadEnds(i),
         dlg'.open => /\ dlg.open
                      /\ dlg'.loading => dlg.loading /\ threads[i].kind \notin {"initial", "fields"}
                      /\ dlg'.saving => dlg.saving /\ (IsSave(threads[i]) => threads[i].told)
  PROVE  LoadingEnds'
<1> SUFFICES ASSUME dlg'.open
             PROVE  /\ dlg'.loading => \E k \in DOMAIN threads' : threads'[k].kind \in {"initial", "fields"}
                    /\ dlg'.saving => \E k \in DOMAIN threads' : IsSave(threads'[k]) /\ ~threads'[k].told
  BY DEF LoadingEnds, IsSave
<1>1. threads' = RemoveAt(threads, i) /\ IsSeq(threads)
  BY DEF ShapeInv, ThreadEnds
<1>2. ASSUME dlg'.loading PROVE \E k \in DOMAIN threads' : threads'[k].kind \in {"initial", "fields"}
  <2>1. PICK j \in DOMAIN threads : threads[j].kind \in {"initial", "fields"}
    BY <1>2 DEF LoadingEnds
  <2>2. j # i
    BY <1>2, <2>1
  <2> QED BY <1>1, <2>1, <2>2, StaysIn
<1>3. ASSUME dlg'.saving PROVE \E k \in DOMAIN threads' : IsSave(threads'[k]) /\ ~threads'[k].told
  <2>1. PICK j \in DOMAIN threads : IsSave(threads[j]) /\ ~threads[j].told
    BY <1>3 DEF LoadingEnds
  <2>2. j # i
    BY <1>3, <2>1
  <2>3. PICK k \in DOMAIN threads' : threads'[k] = threads[j]
    BY <1>1, <2>2, StaysIn
  <2> QED BY <2>1, <2>3
<1> QED BY <1>2, <1>3

LEMMA WaitAfterUpdate ==
  ASSUME ShapeInv, LoadingEnds, NEW i \in DOMAIN threads, NEW v,
         threads' = [threads EXCEPT ![i] = v], v.kind = threads[i].kind,
         dlg'.open => /\ dlg.open /\ (dlg'.loading => dlg.loading)
                      /\ dlg'.saving => dlg.saving /\ (IsSave(v) /\ ~threads[i].told => ~v.told)
  PROVE  LoadingEnds'
<1> SUFFICES ASSUME dlg'.open
             PROVE  /\ dlg'.loading => \E k \in DOMAIN threads' : threads'[k].kind \in {"initial", "fields"}
                    /\ dlg'.saving => \E k \in DOMAIN threads' : IsSave(threads'[k]) /\ ~threads'[k].told
  BY DEF LoadingEnds, IsSave
<1>1. /\ DOMAIN threads' = DOMAIN threads /\ threads'[i] = v
      /\ \A j \in DOMAIN threads \ {i} : threads'[j] = threads[j]
  BY UpdateOf DEF ShapeInv
<1>2. ASSUME dlg'.loading PROVE \E k \in DOMAIN threads' : threads'[k].kind \in {"initial", "fields"}
  <2>1. PICK j \in DOMAIN threads : threads[j].kind \in {"initial", "fields"}
    BY <1>2 DEF LoadingEnds
  <2> QED BY <1>1, <2>1
<1>3. ASSUME dlg'.saving PROVE \E k \in DOMAIN threads' : IsSave(threads'[k]) /\ ~threads'[k].told
  <2>1. PICK j \in DOMAIN threads : IsSave(threads[j]) /\ ~threads[j].told
    BY <1>3 DEF LoadingEnds
  <2>2. IsSave(threads'[j]) /\ ~threads'[j].told
    BY <1>1, <1>3, <2>1 DEF IsSave
  <2> QED BY <1>1, <2>1, <2>2
<1> QED BY <1>2, <1>3

LEMMA RoleFieldsScreen ==
  ASSUME NEW rs, NEW providers, NEW available, NEW outcome
  PROVE  ProviderScreen(RoleFields(rs, providers, available, outcome).fields)
<1>1. \A p : ProviderField(rs, p).kind = "selector"
  BY DEF ProviderField, Selector
<1>2. \A a, b, c : a.kind = "selector" /\ b.kind = "secret" /\ c.kind = "selector" =>
        ProviderScreen(<<a, b, c>>)
  BY DEF ProviderScreen
<1>3. \A a, b, c, d : a.kind = "selector" /\ b.kind = "secret" /\ c.kind = "selector" =>
        ProviderScreen(<<a, b, c>> \o <<d>>) /\ ProviderScreen(<<a, b, c>> \o <<>>)
  BY DEF ProviderScreen
<1>4. ProviderScreen(FailedFields(rs, providers))
  BY <1>1, <1>2 DEF FailedFields, Secret, Selector
<1>5. ASSUME NEW models, NEW rest, rest = <<>> \/ \E d : rest = <<d>>
      PROVE  ProviderScreen(<<ProviderField(rs, providers), Secret(rs.key),
                              Selector(models, PlaceOf(rs.model, models))>> \o rest)
  BY <1>1, <1>3, <1>5 DEF Secret, Selector
<1> QED BY <1>4, <1>5 DEF RoleFields

LEMMA FilledDialog ==
  ASSUME NEW d, IsDialog(d), NEW t, NEW answer, ProviderScreen(answer.fields), NEW outcome
  PROVE  /\ IsDialog(Filled(d, t, answer, outcome))
         /\ Differs(d, Filled(d, t, answer, outcome), {"fields", "info", "loading", "cursor", "fine"})
         /\ ~Filled(d, t, answer, outcome).loading
         /\ Filled(d, t, answer, outcome).fields = answer.fields
         /\ Filled(d, t, answer, outcome).info = answer.info
         /\ Filled(d, t, answer, outcome).fine => d.fine /\ t.from = d.number /\ outcome = "ok"
<1> DEFINE cursor == Min({d.cursor, Len(answer.fields)})
           fine == d.fine /\ t.from = d.number /\ outcome = "ok"
<1>1. Filled(d, t, answer, outcome) =
        [d EXCEPT !.fields = answer.fields, !.info = answer.info, !.loading = FALSE,
                  !.cursor = cursor, !.fine = fine]
  BY DEF Filled, IsDialog, DialogFields
<1>2. fine \in BOOLEAN
  OBVIOUS
<1> HIDE DEF cursor, fine
<1>3. IsFrame(Filled(d, t, answer, outcome))
  BY <1>1, <1>2, DialogIsFrame DEF IsFrame, DialogFields
<1> QED BY <1>1, <1>2, <1>3 DEF IsDialog, IsFrame, Differs, DialogFields, fine

LEMMA RolesAre == /\ DOMAIN Roles = 1 .. Len(Roles) /\ Len(Roles) \in Nat \ {0} /\ 1 \in DOMAIN Roles
                  /\ \A k \in DOMAIN Roles : Roles[k] \in Role
<1>1. Roles \in Seq(ToSet(Roles)) /\ Roles # <<>>
  BY SettingsAssumption
<1>2. Len(Roles) # 0
  BY <1>1
<1> QED BY <1>1, <1>2 DEF Role, ToSet

LEMMA OneThread == ASSUME NEW t PROVE IsSeq(<<t>>) /\ DOMAIN <<t>> = {1} /\ <<t>>[1] = t
<1>1. ToSet(<<t>>) = {t} /\ <<t>> \in Seq({t})
  BY DEF ToSet
<1> QED BY <1>1 DEF IsSeq

LEMMA NoThread == IsSeq(<<>>) /\ DOMAIN <<>> = {}
<1>1. ToSet(<<>>) = {}
  BY DEF ToSet
<1> QED BY <1>1 DEF IsSeq

LEMMA DialogInit == ASSUME SettingsInit PROVE DialogInv
<1> DEFINE t == [kind |-> "push", from |-> 0, all |-> file, next |-> 1, read |-> FALSE]
<1>1. IsSettings(file)
  BY SettingsAssumption DEF SettingsInit, IsSettings, Role
<1>2. IsThread(t) /\ t.from = 0
  BY <1>1, RolesAre DEF IsThread, ThreadFields
<1>3. threads = <<t>> /\ opened = 0 /\ dlg.open = FALSE
  BY DEF SettingsInit, Closed
<1> HIDE DEF t
<1>4. IsSeq(threads) /\ \A i \in DOMAIN threads : threads[i] = t
  BY <1>3, OneThread
<1>5. \A i \in DOMAIN threads : IsThread(threads[i]) /\ threads[i].from \in 0 .. opened
  BY <1>2, <1>3, <1>4
<1> QED BY <1>1, <1>3, <1>4, <1>5 DEF DialogInv, ShapeInv, LoadingEnds

\* More threads, and what the dialog waits for is among them or among the old ones.
LEMMA StartKeeps ==
  ASSUME ShapeInv, LoadingEnds, NEW new, threads' = threads \o new, IsSeq(new),
         opened' \in Nat, opened <= opened',
         \A j \in DOMAIN new : IsThread(new[j]) /\ new[j].from \in 0 .. opened',
         dlg'.open =>
           /\ dlg'.loading => (dlg.open /\ dlg.loading)
                               \/ \E j \in DOMAIN new : new[j].kind \in {"initial", "fields"}
           /\ dlg'.saving => (dlg.open /\ dlg.saving)
                              \/ \E j \in DOMAIN new : IsSave(new[j]) /\ ~new[j].told
  PROVE  /\ IsSeq(threads') /\ LoadingEnds'
         /\ \A j \in DOMAIN threads' : IsThread(threads'[j]) /\ threads'[j].from \in 0 .. opened'
<1>1. IsSeq(threads) /\ IsSeq(threads')
  BY ConcatOf DEF ShapeInv
<1>2. /\ \A j \in DOMAIN threads : j \in DOMAIN threads' /\ threads'[j] = threads[j]
      /\ \A j \in DOMAIN new : Len(threads) + j \in DOMAIN threads' /\ threads'[Len(threads) + j] = new[j]
  BY <1>1, ConcatOf, SeqDomain
<1>3. \A j \in DOMAIN threads' : (\E k \in DOMAIN threads : threads'[j] = threads[k])
                                \/ (\E k \in DOMAIN new : threads'[j] = new[k])
  <2> SUFFICES ASSUME NEW j \in DOMAIN threads'
               PROVE (\E k \in DOMAIN threads : threads'[j] = threads[k])
                     \/ (\E k \in DOMAIN new : threads'[j] = new[k])
    OBVIOUS
  <2>1. j \in Nat /\ Len(threads) \in Nat
    BY <1>1, SeqDomain
  <2>2. CASE j <= Len(threads)
    <3>1. j \in DOMAIN threads
      BY <1>1, <2>2, ConcatOf
    <3> QED BY <1>2, <3>1
  <2>3. CASE j > Len(threads)
    <3>1. j - Len(threads) \in DOMAIN new
      BY <1>1, <2>1, <2>3, ConcatOf
    <3>2. threads'[Len(threads) + (j - Len(threads))] = new[j - Len(threads)]
      BY <1>2, <3>1
    <3>3. Len(threads) + (j - Len(threads)) = j
      BY <2>1
    <3> QED BY <3>1, <3>2, <3>3
  <2> QED BY <2>1, <2>2, <2>3
<1>4. \A j \in DOMAIN threads' : IsThread(threads'[j]) /\ threads'[j].from \in 0 .. opened'
  <2> SUFFICES ASSUME NEW j \in DOMAIN threads'
               PROVE  IsThread(threads'[j]) /\ threads'[j].from \in 0 .. opened'
    OBVIOUS
  <2>1. ASSUME NEW k \in DOMAIN threads, threads'[j] = threads[k]
        PROVE  IsThread(threads'[j]) /\ threads'[j].from \in 0 .. opened'
    BY <2>1 DEF ShapeInv
  <2>2. ASSUME NEW k \in DOMAIN new, threads'[j] = new[k]
        PROVE  IsThread(threads'[j]) /\ threads'[j].from \in 0 .. opened'
    BY <2>2
  <2> QED BY <1>3, <2>1, <2>2
<1>5. ASSUME dlg'.open, dlg'.loading PROVE \E k \in DOMAIN threads' : threads'[k].kind \in {"initial", "fields"}
  <2>1. CASE dlg.open /\ dlg.loading
    BY <1>2, <2>1 DEF LoadingEnds
  <2>2. CASE \E j \in DOMAIN new : new[j].kind \in {"initial", "fields"}
    BY <1>2, <2>2
  <2> QED BY <1>5, <2>1, <2>2
<1>6. ASSUME dlg'.open, dlg'.saving PROVE \E k \in DOMAIN threads' : IsSave(threads'[k]) /\ ~threads'[k].told
  <2>1. CASE dlg.open /\ dlg.saving
    BY <1>2, <2>1 DEF LoadingEnds, IsSave
  <2>2. CASE \E j \in DOMAIN new : IsSave(new[j]) /\ ~new[j].told
    BY <1>2, <2>2 DEF IsSave
  <2> QED BY <1>6, <2>1, <2>2
<1> QED BY <1>1, <1>4, <1>5, <1>6 DEF LoadingEnds, IsSave

LEMMA DialogKey == ASSUME DialogInv, Key PROVE DialogInv'
<1>1. dlg.open /\ IsDialog(dlg) /\ ~dlg.loading /\ ~dlg.saving /\ dlg.number = opened /\ opened \in Nat
  BY DEF DialogInv, ShapeInv, Key
<1>2. PICK e \in KeyIn(dlg) : dlg' = e.dlg /\ threads' = threads \o e.start
  BY DEF Key, Starts
<1>3. opened' = opened /\ file' = file
  BY DEF Key
<1>4. Leads(dlg, e)
  BY <1>1, KeyLeads
<1>5. IsDialog(dlg') /\ dlg'.open = TRUE /\ dlg'.number = opened'
  BY <1>1, <1>2, <1>3, <1>4 DEF Leads, Framed, ShapeInv, DialogInv
<1>6. CASE Rests(dlg, e)
  <2>1. IsSeq(e.start) /\ DOMAIN e.start = {}
    BY <1>6, NoThread DEF Rests
  <2>2. ~dlg'.loading /\ ~dlg'.saving
    BY <1>2, <1>6 DEF Rests
  <2>3. IsSeq(threads') /\ LoadingEnds'
        /\ \A j \in DOMAIN threads' : IsThread(threads'[j]) /\ threads'[j].from \in 0 .. opened'
    BY <1>1, <1>2, <1>3, <2>1, <2>2, StartKeeps, SMTT(40) DEF DialogInv
  <2> QED BY <1>1, <1>3, <1>5, <2>3 DEF DialogInv, ShapeInv
<1>7. CASE AsksFor(dlg, e)
  <2>1. PICK rs : e.start = <<FieldsThread(dlg', rs)>>
    BY <1>2, <1>7 DEF AsksFor
  <2>2. IsThread(FieldsThread(dlg', rs)) /\ FieldsThread(dlg', rs).from = opened'
        /\ FieldsThread(dlg', rs).kind = "fields"
    BY <1>5 DEF FieldsThread, IsThread, ThreadFields
  <2>3. /\ ~dlg'.saving
        /\ IsSeq(e.start) /\ DOMAIN e.start = {1} /\ e.start[1] = FieldsThread(dlg', rs)
    BY <1>2, <1>7, <2>1, OneThread DEF AsksFor
  <2>4. IsSeq(threads') /\ LoadingEnds'
        /\ \A j \in DOMAIN threads' : IsThread(threads'[j]) /\ threads'[j].from \in 0 .. opened'
    BY <1>1, <1>2, <1>3, <2>2, <2>3, StartKeeps DEF DialogInv
  <2> QED BY <1>1, <1>3, <1>5, <2>4 DEF DialogInv, ShapeInv
<1>8. CASE Saves(dlg, e)
  <2>1. e.start = <<SaveThread(dlg')>> /\ ~dlg'.loading
    BY <1>2, <1>8 DEF Saves
  <2>2. IsThread(SaveThread(dlg')) /\ SaveThread(dlg').from = opened'
        /\ IsSave(SaveThread(dlg')) /\ ~SaveThread(dlg').told
    BY <1>5, RolesAre DEF SaveThread, IsThread, IsSave, ThreadFields, IsDialog
  <2>3. /\ IsSeq(e.start) /\ DOMAIN e.start = {1} /\ e.start[1] = SaveThread(dlg')
        /\ IsSave(e.start[1]) /\ ~e.start[1].told
    BY <2>1, <2>2, OneThread
  <2>4. \E j \in DOMAIN e.start : IsSave(e.start[j]) /\ ~e.start[j].told
    BY <2>3
  <2>5. \A j \in DOMAIN e.start : IsThread(e.start[j]) /\ e.start[j].from \in 0 .. opened'
    BY <1>1, <1>3, <2>2, <2>3
  <2>6. ShapeInv /\ LoadingEnds /\ opened' \in Nat /\ opened <= opened'
    BY <1>1, <1>3 DEF DialogInv
  <2>7. IsSeq(threads') /\ LoadingEnds'
        /\ \A j \in DOMAIN threads' : IsThread(threads'[j]) /\ threads'[j].from \in 0 .. opened'
    BY <1>2, <2>1, <2>3, <2>4, <2>5, <2>6, StartKeeps
  <2> QED BY <1>1, <1>3, <1>5, <2>7 DEF DialogInv, ShapeInv
<1> QED BY <1>4, <1>6, <1>7, <1>8 DEF Leads

LEMMA DialogOpen == ASSUME DialogInv, Open PROVE DialogInv'
<1> DEFINE t == [kind |-> "initial", from |-> opened', rs |-> NoRole, read |-> FALSE]
           fine == ~\E i \in DOMAIN threads : IsSave(threads[i])
<1>1. opened \in Nat /\ opened' = opened + 1 /\ file' = file /\ IsSettings(file)
  BY DEF DialogInv, ShapeInv, Open
<1>2. threads' = threads \o <<t>> /\ dlg' = [Fresh(opened') EXCEPT !.fine = fine]
  BY DEF Open, Starts
<1>3. IsThread(t) /\ t.from = opened' /\ t.kind = "initial"
  BY DEF IsThread, ThreadFields
<1> HIDE DEF t
<1>4. fine \in BOOLEAN
  OBVIOUS
<1> HIDE DEF fine
<1>5. ProviderScreen(Fresh(opened').fields)
  BY MinimalScreen DEF Fresh
<1>6. IsDialog(dlg') /\ dlg'.open = TRUE /\ dlg'.number = opened' /\ ~dlg'.saving
  BY <1>1, <1>2, <1>4, <1>5, RolesAre DEF Fresh, IsDialog, DialogFields
<1> DEFINE new == <<t>>
<1>7. threads' = threads \o new /\ IsSeq(new) /\ DOMAIN new = {1} /\ new[1] = t
  BY <1>2, OneThread
<1> HIDE DEF new
<1>8. IsSeq(threads') /\ LoadingEnds'
      /\ \A j \in DOMAIN threads' : IsThread(threads'[j]) /\ threads'[j].from \in 0 .. opened'
  BY <1>1, <1>3, <1>6, <1>7, StartKeeps, SMTT(40) DEF DialogInv
<1>9. ShapeInv'
  <2>1. IsSettings(file')
    BY <1>1
  <2>2. opened' \in Nat
    BY <1>1
  <2>3. dlg'.open \in BOOLEAN
    BY <1>6
  <2> QED BY <1>6, <1>8, <2>1, <2>2, <2>3 DEF ShapeInv
<1> QED BY <1>8, <1>9 DEF DialogInv

LEMMA DialogView == ASSUME DialogInv, View PROVE DialogInv'
<1>1. IsDialog(dlg) /\ dlg' \in ViewIn(dlg) /\ UNCHANGED <<file, threads, opened>>
  BY DEF DialogInv, ShapeInv, View
<1>2. IsFrame(dlg') /\ Differs(dlg, dlg', {"list", "secret", "cursor"})
  BY <1>1, ViewStays
<1>3. IsDialog(dlg') /\ dlg'.open = dlg.open /\ dlg'.number = dlg.number
      /\ dlg'.loading = dlg.loading /\ dlg'.saving = dlg.saving
  BY <1>1, <1>2 DEF IsDialog, IsFrame, Differs, DialogFields
<1> QED BY <1>1, <1>3 DEF DialogInv, ShapeInv, LoadingEnds, IsSave, View

LEMMA DialogEsc == ASSUME DialogInv, Esc PROVE DialogInv'
BY DEF DialogInv, ShapeInv, LoadingEnds, Esc, Closed

LEMMA DialogReadFile ==
  ASSUME DialogInv, NEW i \in DOMAIN threads, ReadFile(i) \/ PushLoads(i) PROVE DialogInv'
<1>1. /\ UNCHANGED <<file, dlg, opened>> /\ IsThread(threads[i])
      /\ IsSettings(file)
  BY DEF ReadFile, PushLoads, DialogInv, ShapeInv
<1>2. PICK v : /\ threads' = [threads EXCEPT ![i] = v] /\ IsThread(v)
               /\ v.from = threads[i].from /\ v.kind = threads[i].kind /\ ~IsSave(v)
  <2>1. CASE ReadFile(i)
    <3> DEFINE v == [threads[i] EXCEPT !.read = TRUE, !.rs = file.roles[Roles[1]]]
    <3>1. threads' = [threads EXCEPT ![i] = v]
      BY <2>1 DEF ReadFile, DialogInv, ShapeInv
    <3>2. IsThread(v) /\ v.from = threads[i].from /\ v.kind = threads[i].kind /\ ~IsSave(v)
      BY <1>1, <2>1 DEF ReadFile, IsThread, ThreadFields, IsSave
    <3> QED BY <3>1, <3>2
  <2>2. CASE PushLoads(i)
    <3> DEFINE v == [threads[i] EXCEPT !.read = TRUE, !.all = file]
    <3>1. threads' = [threads EXCEPT ![i] = v]
      BY <2>2 DEF PushLoads, DialogInv, ShapeInv
    <3>2. IsThread(v) /\ v.from = threads[i].from /\ v.kind = threads[i].kind /\ ~IsSave(v)
      BY <1>1, <2>2 DEF PushLoads, IsThread, ThreadFields, IsSave
    <3> QED BY <3>1, <3>2
  <2> QED BY <2>1, <2>2
<1>3. IsSeq(threads') /\ \A j \in DOMAIN threads' : IsThread(threads'[j]) /\ threads'[j].from \in 0 .. opened'
  BY <1>1, <1>2, UpdateKeeps DEF DialogInv
<1>4. LoadingEnds'
  BY <1>1, <1>2, WaitAfterUpdate DEF DialogInv
<1> QED BY <1>1, <1>3, <1>4 DEF DialogInv, ShapeInv

LEMMA AfterEnd ==
  ASSUME DialogInv, NEW i \in DOMAIN threads, ThreadEnds(i), IsSettings(file'), UNCHANGED opened,
         dlg.open, IsDialog(dlg'), dlg'.open = TRUE, dlg'.number = dlg.number,
         dlg'.loading => dlg.loading /\ threads[i].kind \notin {"initial", "fields"},
         dlg'.saving => dlg.saving /\ (IsSave(threads[i]) => threads[i].told)
  PROVE  DialogInv'
<1>1. ShapeInv /\ LoadingEnds
  BY DEF DialogInv
<1>2. LoadingEnds'
  BY <1>1, WaitAfterEnd
<1>3. IsSeq(threads') /\ \A j \in DOMAIN threads' : IsThread(threads'[j]) /\ threads'[j].from \in 0 .. opened'
  BY <1>1, EndKeeps
<1>4. opened' \in Nat /\ dlg'.number = opened'
  BY <1>1 DEF ShapeInv
<1>5. ShapeInv'
  BY <1>3, <1>4 DEF ShapeInv
<1> QED BY <1>2, <1>5 DEF DialogInv

LEMMA AfterEndStill ==
  ASSUME DialogInv, NEW i \in DOMAIN threads, ThreadEnds(i), IsSettings(file'), UNCHANGED <<dlg, opened>>,
         dlg.open => /\ threads[i].kind \notin {"initial", "fields"}
                     /\ IsSave(threads[i]) => threads[i].told
  PROVE  DialogInv'
<1>1. ShapeInv /\ LoadingEnds
  BY DEF DialogInv
<1>2. LoadingEnds'
  BY <1>1, WaitAfterEnd
<1>3. IsSeq(threads') /\ \A j \in DOMAIN threads' : IsThread(threads'[j]) /\ threads'[j].from \in 0 .. opened'
  BY <1>1, EndKeeps
<1>4. opened' \in Nat /\ dlg'.open \in BOOLEAN /\ (dlg'.open => IsDialog(dlg') /\ dlg'.number = opened')
  BY <1>1 DEF ShapeInv
<1>5. ShapeInv'
  BY <1>3, <1>4 DEF ShapeInv
<1> QED BY <1>2, <1>5 DEF DialogInv

\* What an answer leaves of the dialog, unless it is closed.
InitialAnswer(t, outcome) ==
  RoleFields(t.rs, IF outcome \in {"down", "no providers"} THEN <<>> ELSE Listed, outcome # "down",
             IF outcome = "no providers" THEN "ok" ELSE outcome)
Initialised(d, t, outcome) ==
  [Filled(d, t, InitialAnswer(t, outcome), outcome) EXCEPT
     !.providers = IF outcome \in {"down", "no providers"} THEN <<>> ELSE Listed,
     !.available = outcome # "down"]

LEMMA InitialisedDialog ==
  ASSUME NEW d, IsDialog(d), NEW t, NEW outcome
  PROVE  /\ IsDialog(Initialised(d, t, outcome)) /\ ~Initialised(d, t, outcome).loading
         /\ Differs(d, Initialised(d, t, outcome),
                    {"fields", "info", "loading", "cursor", "fine", "providers", "available"})
         /\ Initialised(d, t, outcome).fields = InitialAnswer(t, outcome).fields
         /\ Initialised(d, t, outcome).info = InitialAnswer(t, outcome).info
         /\ Initialised(d, t, outcome).fine => d.fine /\ t.from = d.number /\ outcome = "ok"
         /\ outcome = "ok" => /\ Initialised(d, t, outcome).available
                              /\ Initialised(d, t, outcome).providers = Listed
<1> DEFINE answer == InitialAnswer(t, outcome)
           f == Filled(d, t, answer, outcome)
           providers == IF outcome \in {"down", "no providers"} THEN <<>> ELSE Listed
           available == outcome # "down"
<1>1. Initialised(d, t, outcome) = [f EXCEPT !.providers = providers, !.available = available]
  BY DEF Initialised
<1>2. ProviderScreen(answer.fields)
  BY RoleFieldsScreen DEF InitialAnswer
<1> HIDE DEF answer
<1>8. IsDialog(f)
  BY <1>2, FilledDialog
<1>9. Differs(d, f, {"fields", "info", "loading", "cursor", "fine"})
  BY <1>2, FilledDialog
<1>10. ~f.loading
  BY <1>2, FilledDialog
<1>11. f.fields = answer.fields
  BY DEF Filled, IsDialog, DialogFields
<1>12. f.info = answer.info
  BY DEF Filled, IsDialog, DialogFields
<1>13. f.fine => d.fine
  BY <1>2, FilledDialog
<1>14. f.fine => t.from = d.number
  BY <1>2, FilledDialog
<1>15. f.fine => outcome = "ok"
  BY <1>2, FilledDialog
<1>4. outcome = "ok" => providers = Listed /\ available
  OBVIOUS
<1> HIDE DEF f, providers, available
<1>5. /\ IsDialog(Initialised(d, t, outcome))
      /\ Differs(f, Initialised(d, t, outcome), {"providers", "available"})
      /\ Initialised(d, t, outcome).providers = providers
      /\ Initialised(d, t, outcome).available = available
  BY <1>1, <1>8 DEF IsDialog, Differs, DialogFields
<1>6. Differs(d, Initialised(d, t, outcome),
              {"fields", "info", "loading", "cursor", "fine", "providers", "available"})
  BY <1>5, <1>9 DEF Differs
<1>7. /\ Initialised(d, t, outcome).loading = f.loading /\ Initialised(d, t, outcome).fields = f.fields
      /\ Initialised(d, t, outcome).info = f.info /\ Initialised(d, t, outcome).fine = f.fine
  BY <1>5 DEF Differs, DialogFields
<1> QED BY <1>4, <1>5, <1>6, <1>7, <1>10, <1>11, <1>12, <1>13, <1>14, <1>15 DEF answer

LEMMA InitialLoadIs ==
  ASSUME NEW i, InitialLoad(i)
  PROVE  \E outcome : dlg' = IF ~dlg.open THEN dlg ELSE Initialised(dlg, threads[i], outcome)
BY DEF InitialLoad, Initialised, InitialAnswer

FieldsAnswer(t, outcome) == RoleFields(t.rs, t.providers, t.available, outcome)

LEMMA ProviderChangedIs ==
  ASSUME NEW i, ProviderChanged(i)
  PROVE  \E outcome :
           dlg' = IF ~dlg.open THEN dlg
                  ELSE IF threads[i].seq # dlg.seq
                       THEN [dlg EXCEPT !.loading = FALSE, !.fine = @ /\ threads[i].from = dlg.number]
                  ELSE Flushed(Filled(dlg, threads[i], FieldsAnswer(threads[i], outcome), outcome))
BY DEF ProviderChanged, FieldsAnswer

LEMMA DialogInitialLoad ==
  ASSUME DialogInv, NEW i \in DOMAIN threads, InitialLoad(i) PROVE DialogInv'
<1>1. PICK outcome : dlg' = IF ~dlg.open THEN dlg ELSE Initialised(dlg, threads[i], outcome)
  BY InitialLoadIs
<1>2. ThreadEnds(i) /\ IsSettings(file') /\ UNCHANGED opened /\ ~IsSave(threads[i])
  BY DEF InitialLoad, IsSave, DialogInv, ShapeInv
<1>3. CASE ~dlg.open
  <2>1. dlg' = dlg
    BY <1>1, <1>3
  <2> QED BY <1>2, <1>3, <2>1, AfterEndStill
<1>4. CASE dlg.open
  <2>1. IsDialog(dlg) /\ dlg.open = TRUE
    BY <1>4 DEF DialogInv, ShapeInv
  <2>2. /\ IsDialog(dlg') /\ ~dlg'.loading
        /\ Differs(dlg, dlg', {"fields", "info", "loading", "cursor", "fine", "providers", "available"})
    BY <1>1, <1>4, <2>1, InitialisedDialog
  <2>3. dlg'.open = TRUE /\ dlg'.saving = dlg.saving /\ dlg'.number = dlg.number
    BY <2>1, <2>2 DEF Differs, DialogFields
  <2> QED BY <1>2, <1>4, <2>2, <2>3, AfterEnd
<1> QED BY <1>3, <1>4

LEMMA DialogProviderChanged ==
  ASSUME DialogInv, NEW i \in DOMAIN threads, ProviderChanged(i) PROVE DialogInv'
<1>1. PICK outcome :
        dlg' = IF ~dlg.open THEN dlg
               ELSE IF threads[i].seq # dlg.seq
                    THEN [dlg EXCEPT !.loading = FALSE, !.fine = @ /\ threads[i].from = dlg.number]
               ELSE Flushed(Filled(dlg, threads[i], FieldsAnswer(threads[i], outcome), outcome))
  BY ProviderChangedIs
<1>2. ThreadEnds(i) /\ IsSettings(file') /\ UNCHANGED opened /\ ~IsSave(threads[i])
  BY DEF ProviderChanged, IsSave, DialogInv, ShapeInv
<1>3. CASE ~dlg.open
  <2>1. dlg' = dlg
    BY <1>1, <1>3
  <2> QED BY <1>2, <1>3, <2>1, AfterEndStill
<1>4. CASE dlg.open
  <2>1. IsDialog(dlg) /\ dlg.open = TRUE
    BY <1>4 DEF DialogInv, ShapeInv
  <2>2. IsDialog(dlg') /\ ~dlg'.loading /\ dlg'.open = TRUE /\ dlg'.saving = dlg.saving
        /\ dlg'.number = dlg.number
    <3>1. CASE threads[i].seq # dlg.seq
      BY <1>1, <1>4, <2>1, <3>1 DEF IsDialog, DialogFields
    <3>2. CASE threads[i].seq = dlg.seq
      <4> DEFINE f == Filled(dlg, threads[i], FieldsAnswer(threads[i], outcome), outcome)
      <4>1. /\ IsDialog(f) /\ ~f.loading
            /\ Differs(dlg, f, {"fields", "info", "loading", "cursor", "fine"})
        BY <2>1, RoleFieldsScreen, FilledDialog DEF FieldsAnswer
      <4>2. dlg' = Flushed(f)
        BY <1>1, <1>4, <3>2
      <4> HIDE DEF f
      <4>3. IsDialog(dlg') /\ Differs(f, dlg', {"all"})
        BY <4>1, <4>2, DialogIsFrame, FlushedDialog, FlushedFrame
      <4> QED BY <2>1, <4>1, <4>3 DEF Differs, DialogFields
    <3> QED BY <3>1, <3>2
  <2> QED BY <1>2, <1>4, <2>2, AfterEnd
<1> QED BY <1>3, <1>4

\* The next position a thread goes on from.
LEMMA NextOf ==
  ASSUME NEW t, t.next \in 1 .. Len(Roles) + 1, Waiting(t) # {}
  PROVE  /\ Min(Waiting(t)) \in t.next .. Len(Roles) /\ Min(Waiting(t)) \in DOMAIN Roles
         /\ Min(Waiting(t)) + 1 \in 1 .. Len(Roles) + 1
         /\ t.all.roles[Roles[Min(Waiting(t))]].provider # None
         /\ \A k \in t.next .. Min(Waiting(t)) - 1 : t.all.roles[Roles[k]].provider = None
<1>1. Waiting(t) \in SUBSET Nat /\ Len(Roles) \in Nat
  BY RolesAre DEF Waiting
<1>2. Min(Waiting(t)) \in Waiting(t) /\ \A k \in Waiting(t) : Min(Waiting(t)) <= k
  BY <1>1, LeastOf
<1> HIDE DEF Waiting
<1>3. Min(Waiting(t)) \in t.next .. Len(Roles) /\ t.all.roles[Roles[Min(Waiting(t))]].provider # None
  BY <1>2 DEF Waiting
<1>4. ASSUME NEW k \in t.next .. Min(Waiting(t)) - 1 PROVE t.all.roles[Roles[k]].provider = None
  <2>1. k \notin Waiting(t) /\ k \in t.next .. Len(Roles)
    BY <1>1, <1>2, <1>3
  <2> QED BY <2>1 DEF Waiting
<1> QED BY <1>1, <1>3, <1>4, RolesAre

\* A thread goes on with the next role.
LEMMA DialogGoesOn ==
  ASSUME DialogInv, NEW i \in DOMAIN threads, threads[i].kind \in {"push", "save"}, Waiting(threads[i]) # {},
         threads' = [threads EXCEPT ![i].next = Min(Waiting(threads[i])) + 1],
         UNCHANGED <<dlg, opened>>, IsSettings(file')
  PROVE  DialogInv'
<1> DEFINE next == Min(Waiting(threads[i])) + 1
           v == [threads[i] EXCEPT !.next = next]
<1>1. IsThread(threads[i])
  BY DEF DialogInv, ShapeInv
<1>2. next \in 1 .. Len(Roles) + 1
  BY <1>1, NextOf DEF IsThread
<1>3. threads' = [threads EXCEPT ![i] = v]
  BY DEF DialogInv, ShapeInv
<1> HIDE DEF next
<1>4. IsThread(v) /\ v.from = threads[i].from /\ v.kind = threads[i].kind
      /\ (IsSave(v) => v.told = threads[i].told)
  BY <1>1, <1>2 DEF IsThread, ThreadFields, IsSave
<1> HIDE DEF v
<1>5. IsSeq(threads') /\ \A j \in DOMAIN threads' : IsThread(threads'[j]) /\ threads'[j].from \in 0 .. opened'
  BY <1>3, <1>4, UpdateKeeps DEF DialogInv
<1>6. LoadingEnds'
  BY <1>3, <1>4, WaitAfterUpdate DEF DialogInv
<1> QED BY <1>5, <1>6 DEF DialogInv, ShapeInv

LEMMA DialogPushRole == ASSUME DialogInv, NEW i \in DOMAIN threads, PushRole(i) PROVE DialogInv'
<1>1. threads[i].kind = "push" /\ UNCHANGED <<file, dlg, opened>> /\ ~IsSave(threads[i]) /\ IsSettings(file')
  BY DEF PushRole, IsSave, DialogInv, ShapeInv
<1>2. CASE Waiting(threads[i]) = {}
  <2>1. ThreadEnds(i)
    BY <1>2 DEF PushRole
  <2> QED BY <1>1, <2>1, AfterEndStill
<1>3. CASE Waiting(threads[i]) # {}
  <2>1. threads' = [threads EXCEPT ![i].next = Min(Waiting(threads[i])) + 1]
    BY <1>3 DEF PushRole
  <2> QED BY <1>1, <1>3, <2>1, DialogGoesOn
<1> QED BY <1>2, <1>3

\* The end of a save, of which the dialog hears.
LEMMA DialogSaveEnds ==
  ASSUME DialogInv, NEW i \in DOMAIN threads, IsSave(threads[i]), ThreadEnds(i), Told(threads[i]),
         IsSettings(file'), UNCHANGED opened
  PROVE  DialogInv'
<1>1. IsThread(threads[i]) /\ threads[i].kind = "save" /\ threads[i].told \in BOOLEAN
  BY DEF DialogInv, ShapeInv, IsThread, IsSave
<1>2. CASE threads[i].told \/ ~dlg.open
  <2>1. dlg' = dlg
    BY <1>2 DEF Told
  <2> QED BY <1>1, <1>2, <2>1, AfterEndStill
<1>3. CASE ~threads[i].told /\ dlg.open
  <2>1. dlg' = [dlg EXCEPT !.saving = FALSE] /\ IsDialog(dlg) /\ dlg.open = TRUE
    BY <1>3 DEF Told, DialogInv, ShapeInv
  <2>2. IsDialog(dlg') /\ dlg'.open = TRUE /\ dlg'.number = dlg.number
        /\ ~dlg'.saving /\ dlg'.loading = dlg.loading
    BY <2>1 DEF IsDialog, DialogFields
  <2> QED BY <1>1, <1>3, <2>2, AfterEnd
<1> QED BY <1>2, <1>3

LEMMA DialogSaveRole == ASSUME DialogInv, NEW i \in DOMAIN threads, SaveRole(i) PROVE DialogInv'
<1>1. threads[i].kind = "save" /\ IsSave(threads[i]) /\ Waiting(threads[i]) # {} /\ UNCHANGED <<file, opened>>
      /\ IsSettings(file')
  BY DEF SaveRole, IsSave, DialogInv, ShapeInv
<1>2. CASE ThreadEnds(i) /\ Told(threads[i])
  BY <1>1, <1>2, DialogSaveEnds
<1>3. CASE threads' = [threads EXCEPT ![i].next = Min(Waiting(threads[i])) + 1] /\ UNCHANGED dlg
  BY <1>1, <1>3, DialogGoesOn
<1> QED BY <1>2, <1>3 DEF SaveRole

LEMMA DialogSaveFile == ASSUME DialogInv, NEW i \in DOMAIN threads, SaveFile(i) PROVE DialogInv'
<1>1. IsSave(threads[i]) /\ ThreadEnds(i) /\ Told(threads[i]) /\ UNCHANGED opened
      /\ (file' = threads[i].all \/ file' = file)
  BY DEF SaveFile
<1>2. IsSettings(file')
  BY <1>1 DEF DialogInv, ShapeInv, IsThread, IsSave
<1> QED BY <1>1, <1>2, DialogSaveEnds

LEMMA DialogSaveTimesOut == ASSUME DialogInv, NEW i \in DOMAIN threads, SaveTimesOut(i) PROVE DialogInv'
<1> DEFINE v == [threads[i] EXCEPT !.told = TRUE]
<1>1. IsThread(threads[i]) /\ IsSave(threads[i]) /\ ~threads[i].told /\ Told(threads[i])
      /\ UNCHANGED <<file, opened>>
  BY DEF SaveTimesOut, DialogInv, ShapeInv
<1>2. threads' = [threads EXCEPT ![i] = v]
  BY DEF SaveTimesOut, DialogInv, ShapeInv
<1>3. IsThread(v) /\ v.from = threads[i].from /\ v.kind = threads[i].kind
  BY <1>1 DEF IsThread, ThreadFields, IsSave
<1> HIDE DEF v
<1>4. IsSeq(threads') /\ \A j \in DOMAIN threads' : IsThread(threads'[j]) /\ threads'[j].from \in 0 .. opened'
  BY <1>1, <1>2, <1>3, UpdateKeeps DEF DialogInv
<1>5. CASE ~dlg.open
  <2>1. dlg' = dlg /\ ~dlg'.open
    BY <1>1, <1>5 DEF Told
  <2>2. LoadingEnds'
    BY <2>1 DEF LoadingEnds
  <2> QED BY <1>1, <1>4, <2>1, <2>2 DEF DialogInv, ShapeInv
<1>6. CASE dlg.open
  <2>1. dlg' = [dlg EXCEPT !.saving = FALSE] /\ IsDialog(dlg) /\ dlg.open = TRUE
    BY <1>1, <1>6 DEF Told, DialogInv, ShapeInv
  <2>2. IsDialog(dlg') /\ dlg'.open = TRUE /\ dlg'.number = dlg.number
        /\ ~dlg'.saving /\ dlg'.loading = dlg.loading
    BY <2>1 DEF IsDialog, DialogFields
  <2>3. LoadingEnds'
    BY <1>2, <1>3, <1>6, <2>2, WaitAfterUpdate DEF DialogInv
  <2>4. opened' \in Nat /\ dlg'.number = opened' /\ IsSettings(file')
    BY <1>1, <2>1, <2>2 DEF DialogInv, ShapeInv
  <2> QED BY <1>4, <2>2, <2>3, <2>4 DEF DialogInv, ShapeInv
<1> QED BY <1>5, <1>6

LEMMA DialogNext == ASSUME DialogInv, [SettingsNext]_settingsVars PROVE DialogInv'
<1>1. CASE Key \/ View \/ Esc \/ Open
  BY <1>1, DialogKey, DialogView, DialogEsc, DialogOpen
<1>2. CASE NewAgent \/ TakeMessage \/ UNCHANGED settingsVars
  <2>1. UNCHANGED <<file, dlg, threads, opened>>
    BY <1>2 DEF NewAgent, TakeMessage, settingsVars
  <2> QED BY <2>1 DEF DialogInv, ShapeInv, LoadingEnds, IsSave
<1>3. CASE Threads
  <2> PICK i \in DOMAIN threads :
        \/ ReadFile(i) \/ InitialLoad(i) \/ ProviderChanged(i)
        \/ PushLoads(i) \/ PushRole(i)
        \/ SaveRole(i) \/ SaveFile(i) \/ SaveTimesOut(i)
    BY <1>3 DEF Threads
  <2> QED BY DialogReadFile, DialogInitialLoad, DialogProviderChanged, DialogPushRole, DialogSaveRole,
             DialogSaveFile, DialogSaveTimesOut
<1> QED BY <1>1, <1>2, <1>3 DEF SettingsNext

LEMMA DialogInvariance == SettingsSpec => []DialogInv
BY DialogInit, DialogNext, PTL DEF SettingsSpec

\* Whatever was closed, timed out or answered late before, a dialog that loads or saves has a
\* thread that will end it (divrr main.rs, the results the event loop polls).
THEOREM LoadingEndsInvariance == SettingsSpec => []LoadingEnds
<1>1. DialogInv => LoadingEnds
  BY DEF DialogInv
<1> QED BY <1>1, DialogInvariance, PTL

-----------------------------------------------------------------------------
(* What the gateway answers for settings it knows is what was asked.       *)

LEMMA PlaceIs ==
  ASSUME NEW options, NEW x \in ToSet(options)
  PROVE  PlaceOf(x, options) \in DOMAIN options /\ options[PlaceOf(x, options)] = x
<1>1. \E k \in DOMAIN options : options[k] = x
  BY DEF ToSet
<1> QED BY <1>1 DEF PlaceOf

LEMMA ChosenPlace ==
  ASSUME NEW options, NEW x \in ToSet(options)
  PROVE  Chosen(Selector(options, PlaceOf(x, options))) = x
BY PlaceIs DEF Chosen, Selector

\* Settings without a provider are shown as they are.
LEMMA RoundTripNone ==
  ASSUME NEW rs, rs.provider = None
  PROVE  LET a == RoleFields(rs, Listed, TRUE, "ok")
             g == Gathered(a.fields, a.info)
         IN  g.provider = rs.provider /\ g.key = rs.key /\ g.model = rs.model
<1> DEFINE a == RoleFields(rs, Listed, TRUE, "ok")
           first == Selector(<<None>> \o Listed, 1)
           third == Selector(Only(rs.model), PlaceOf(rs.model, Only(rs.model)))
<1>1. a.fields = <<first, Secret(rs.key), third>> \o <<>> /\ a.info = None
  BY DEF RoleFields, ProviderField
<1>2. Chosen(first) = None
  <2>1. Listed \in Seq(ToSet(Listed)) /\ <<None>> \in Seq({None})
    BY SettingsAssumption
  <2> DEFINE S == ToSet(Listed) \cup {None}
  <2>2. Listed \in Seq(S) /\ <<None>> \in Seq(S)
    BY <2>1
  <2> HIDE DEF S
  <2>3. 1 \in DOMAIN (<<None>> \o Listed) /\ (<<None>> \o Listed)[1] = None
    BY <2>2
  <2> QED BY <2>3 DEF Chosen, Selector
<1>3. Chosen(third) = rs.model
  <2>1. CASE rs.model = None
    BY <2>1 DEF Only, Chosen, Selector
  <2>2. CASE rs.model # None
    <3>1. rs.model \in ToSet(Only(rs.model))
      BY <2>2 DEF Only, ToSet
    <3> QED BY <3>1, ChosenPlace
  <2> QED BY <2>1, <2>2
<1> HIDE DEF first, third, a
<1>4. Len(a.fields) = 3 /\ a.fields[1] = first /\ a.fields[2] = Secret(rs.key) /\ a.fields[3] = third
  BY <1>1
<1>5. Gathered(a.fields, a.info).provider = Chosen(first) /\ Gathered(a.fields, a.info).model = Chosen(third)
      /\ Gathered(a.fields, a.info).key = rs.key
  BY <1>4 DEF Gathered, Secret
<1> QED BY <1>2, <1>3, <1>5 DEF a

NumberOf(rs) == IF rs.number = None THEN Default ELSE rs.number

LEMMA RoundTripListed ==
  ASSUME NEW rs, rs.provider # None, rs.provider \in ToSet(Listed),
         rs.model \in ToSet(ModelsOf[rs.provider]),
         rs.provider \in Tunable => NumberOf(rs) \in Int /\ NumberOf(rs) <= Ceiling
  PROVE  LET a == RoleFields(rs, Listed, TRUE, "ok")
             g == Gathered(a.fields, a.info)
         IN  /\ g.provider = rs.provider /\ g.key = rs.key /\ g.model = rs.model
             /\ rs.provider \in Tunable => NumberOf(g) = NumberOf(rs)
<1> DEFINE a == RoleFields(rs, Listed, TRUE, "ok")
           first == Selector(Listed, PlaceOf(rs.provider, Listed))
           models == ModelsOf[rs.provider]
           third == Selector(models, PlaceOf(rs.model, models))
           rest == IF rs.provider \in Tunable THEN <<NumberField(rs.number)>> ELSE <<>>
<1>1. Listed # <<>> /\ Listed[PlaceOf(rs.provider, Listed)] = rs.provider
  BY PlaceIs DEF ToSet
<1>2. a.fields = <<first, Secret(rs.key), third>> \o rest /\ a.info = rs.provider
  BY <1>1 DEF RoleFields, ProviderField
<1>3. Chosen(first) = rs.provider /\ Chosen(third) = rs.model
  BY ChosenPlace
<1> HIDE DEF first, third, a
<1>4. /\ a.fields[1] = first /\ a.fields[2] = Secret(rs.key) /\ a.fields[3] = third
      /\ ~(Len(a.fields) < 3)
      /\ rs.provider \in Tunable => Len(a.fields) > 3 /\ a.fields[4] = NumberField(rs.number)
  BY <1>2
<1> HIDE DEF rest
<1> DEFINE g == Gathered(a.fields, a.info)
<1>5. g.provider = Chosen(first) /\ g.model = Chosen(third) /\ g.key = rs.key
  BY <1>4 DEF Gathered, Secret
<1>6. ASSUME rs.provider \in Tunable PROVE NumberOf(g) = NumberOf(rs)
  <2>1. g.number = Clamped(NumberOf(rs))
    BY <1>2, <1>4, <1>6 DEF Gathered, NumberField, Text, NumberOf
  <2>2. Clamped(NumberOf(rs)) = NumberOf(rs)
    <3> DEFINE n == NumberOf(rs)
    <3>1. n \in Int /\ Ceiling \in Int /\ n <= Ceiling
      BY <1>6, SettingsAssumption
    <3> HIDE DEF n
    <3>2. Min({n, Ceiling}) = n
      BY <3>1 DEF Min
    <3> QED BY <3>2 DEF Clamped, n
  <2> HIDE DEF g
  <2> QED BY <2>1, <2>2 DEF NumberOf
<1> QED BY <1>3, <1>5, <1>6 DEF a, g

LEMMA RoundTrip ==
  ASSUME NEW rs, NEW good, KeptAs(rs, good)
  PROVE  LET a == RoleFields(rs, Listed, TRUE, "ok") IN KeptAs(Gathered(a.fields, a.info), good)
<1> DEFINE a == RoleFields(rs, Listed, TRUE, "ok")
           g == Gathered(a.fields, a.info)
<1> SUFFICES ASSUME Known(good) PROVE Same(g, good)
  BY DEF KeptAs
<1>1. /\ rs.provider = good.provider /\ rs.key = good.key /\ rs.model = good.model
      /\ rs.provider \in Tunable => NumberOf(rs) = NumberOf(good)
  BY DEF KeptAs, Same, NumberOf
<1>2. CASE rs.provider = None
  <2>1. g.provider = rs.provider /\ g.key = rs.key /\ g.model = rs.model
    BY <1>2, RoundTripNone
  <2>2. rs.provider \notin Tunable
    BY <1>2, SettingsAssumption
  <2> HIDE DEF g
  <2> QED BY <1>1, <2>1, <2>2 DEF Same
<1>3. CASE rs.provider # None
  <2>1. rs.provider \in ToSet(Listed) /\ rs.model \in ToSet(ModelsOf[rs.provider])
    BY <1>1, <1>3 DEF Known
  <2>2. NumberOf(good) \in Int /\ NumberOf(good) <= Ceiling
    BY <1>1, <1>3, SettingsAssumption DEF Known, NumberOf
  <2>3. /\ g.provider = rs.provider /\ g.key = rs.key /\ g.model = rs.model
        /\ rs.provider \in Tunable => NumberOf(g) = NumberOf(rs)
    BY <1>1, <1>3, <2>1, <2>2, RoundTripListed
  <2> HIDE DEF g
  <2> QED BY <1>1, <2>3 DEF Same, NumberOf
<1> QED BY <1>2, <1>3

-----------------------------------------------------------------------------
(* Every step keeps what the dialog has only looked at.                    *)

\* Every thread of the dialog is an old one, at place f, and so are the saves.
OldThreads(f) ==
  /\ \A j \in DOMAIN threads' :
       /\ f[j] \in DOMAIN threads
       /\ threads'[j].kind \in {"initial", "fields"} => threads'[j] = threads[f[j]]
       /\ IsSave(threads'[j]) => IsSave(threads[f[j]])
  /\ \A j, k \in DOMAIN threads' : f[j] = f[k] => j = k

\* Where the threads stood before the i-th has ended.
LEMMA EndMap ==
  ASSUME ShapeInv, NEW i \in DOMAIN threads, ThreadEnds(i)
  PROVE  \E f :
           /\ \A j \in DOMAIN threads' : f[j] \in DOMAIN threads /\ threads'[j] = threads[f[j]] /\ f[j] # i
           /\ \A j, k \in DOMAIN threads' : f[j] = f[k] => j = k
<1> DEFINE f == [j \in DOMAIN threads' |-> IF j < i THEN j ELSE j + 1]
<1>1. threads' = RemoveAt(threads, i) /\ IsSeq(threads)
  BY DEF ShapeInv, ThreadEnds
<1>2. i \in Int /\ DOMAIN threads' \subseteq Int
  BY <1>1, RemoveOf, SeqDomain
<1>3. ASSUME NEW j \in DOMAIN threads'
      PROVE  f[j] \in DOMAIN threads /\ threads'[j] = threads[f[j]] /\ f[j] # i
  <2>1. CASE j < i
    <3>1. f[j] = j
      BY <2>1
    <3> HIDE DEF f
    <3> QED BY <1>1, <1>2, <2>1, <3>1, RemoveOf
  <2>2. CASE j >= i
    <3>1. f[j] = j + 1
      BY <1>2, <2>2
    <3> HIDE DEF f
    <3> QED BY <1>1, <1>2, <2>2, <3>1, RemoveOf
  <2> QED BY <1>2, <2>1, <2>2
<1>4. \A j, k \in DOMAIN threads' : f[j] = f[k] => j = k
  BY <1>2
<1> HIDE DEF f
<1> QED BY <1>3, <1>4

LEMMA OldAfterEnd ==
  ASSUME ShapeInv, NEW i \in DOMAIN threads, ThreadEnds(i)
  PROVE  \E f : OldThreads(f) /\ \A j \in DOMAIN threads' : f[j] # i
<1>1. PICK f :
        /\ \A j \in DOMAIN threads' : f[j] \in DOMAIN threads /\ threads'[j] = threads[f[j]] /\ f[j] # i
        /\ \A j, k \in DOMAIN threads' : f[j] = f[k] => j = k
  BY EndMap
<1> QED BY <1>1 DEF OldThreads, IsSave

LEMMA OldAfterUpdate ==
  ASSUME ShapeInv, NEW i \in DOMAIN threads, NEW v, threads' = [threads EXCEPT ![i] = v],
         v.kind = threads[i].kind, v.kind \notin {"initial", "fields"}
  PROVE  \E f : OldThreads(f)
<1> DEFINE f == [j \in DOMAIN threads |-> j]
<1>1. /\ DOMAIN threads' = DOMAIN threads /\ threads'[i] = v
      /\ \A j \in DOMAIN threads \ {i} : threads'[j] = threads[j]
  BY UpdateOf DEF ShapeInv
<1>2. \A j \in DOMAIN threads : f[j] = j
  OBVIOUS
<1> HIDE DEF f
<1>3. ASSUME NEW j \in DOMAIN threads'
      PROVE  /\ f[j] \in DOMAIN threads
             /\ threads'[j].kind \in {"initial", "fields"} => threads'[j] = threads[f[j]]
             /\ IsSave(threads'[j]) => IsSave(threads[f[j]])
  <2>1. CASE j = i
    BY <1>1, <1>2, <2>1 DEF IsSave
  <2>2. CASE j # i
    BY <1>1, <1>2, <2>2 DEF IsSave
  <2> QED BY <2>1, <2>2
<1> QED BY <1>1, <1>2, <1>3 DEF OldThreads

LEMMA OldStay == ASSUME UNCHANGED threads PROVE \E f : OldThreads(f)
<1> DEFINE f == [j \in DOMAIN threads |-> j]
<1>1. \A j \in DOMAIN threads : f[j] = j
  OBVIOUS
<1> HIDE DEF f
<1> QED BY <1>1 DEF OldThreads, IsSave

\* A step of the user or of a thread the dialog does not wait for; the file changes at the
\* end of a save.
LEMMA LookRest ==
  ASSUME ShapeInv, LookInv, NEW f, OldThreads(f),
         dlg'.open => dlg.open /\ Differs(dlg, dlg', {"list", "secret", "cursor", "saving"}),
         file' # file => \E i \in DOMAIN threads : IsSave(threads[i])
  PROVE  LookInv'
<1> SUFFICES ASSUME dlg'.open, dlg'.fine
             PROVE  /\ RolesKept(dlg')
                    /\ \A i \in DOMAIN threads' : Loads(threads[i])' => dlg'.loading /\ Brings(threads[i])'
                    /\ \A i, j \in DOMAIN threads' : Loads(threads[i])' /\ Loads(threads[j])' => i = j
                    /\ ~dlg'.loading => dlg'.available /\ dlg'.providers = Listed /\ ScreenKept(dlg')
  BY DEF LookInv, RolesKept, ScreenKept, Shown, KeptAs
<1>1. dlg.open /\ dlg.fine /\ dlg'.loading = dlg.loading /\ dlg'.number = dlg.number
  BY DEF Differs, DialogFields
<1>2. dlg'.all = dlg.all /\ dlg'.edited = dlg.edited /\ dlg'.read = dlg.read /\ dlg'.role = dlg.role
      /\ dlg'.panel = dlg.panel /\ dlg'.fields = dlg.fields /\ dlg'.info = dlg.info /\ dlg'.seq = dlg.seq
      /\ dlg'.available = dlg.available /\ dlg'.providers = dlg.providers
  BY DEF Differs, DialogFields
<1>3. RolesKept(dlg')
  BY <1>1, <1>2 DEF LookInv, RolesKept
<1>4. ASSUME ~dlg'.loading PROVE dlg'.available /\ dlg'.providers = Listed /\ ScreenKept(dlg')
  BY <1>1, <1>2, <1>4 DEF LookInv, ScreenKept, Shown
<1>5. ASSUME NEW j \in DOMAIN threads', Loads(threads[j])'
      PROVE  f[j] \in DOMAIN threads /\ threads'[j] = threads[f[j]] /\ Loads(threads[f[j]])
  BY <1>1, <1>5 DEF OldThreads, Loads
<1>6. ASSUME NEW j \in DOMAIN threads', Loads(threads[j])' PROVE dlg'.loading /\ Brings(threads[j])'
  <2> DEFINE t == threads[f[j]]
  <2>1. t = threads'[j] /\ f[j] \in DOMAIN threads /\ dlg.loading /\ Brings(t)
    BY <1>1, <1>5, <1>6 DEF LookInv
  <2> HIDE DEF t
  <2>2. ASSUME t.kind = "initial"
        PROVE  /\ dlg'.role = 1 /\ dlg'.panel = "provider" /\ dlg'.edited = {}
               /\ t.read => t.rs = dlg'.read.roles[Roles[1]]
               /\ ~t.read => file' = dlg'.read /\ \A k \in DOMAIN threads' : ~IsSave(threads'[k])
    <3>1. ASSUME ~t.read PROVE file' = dlg'.read /\ \A k \in DOMAIN threads' : ~IsSave(threads'[k])
      <4>1. file = dlg.read /\ \A k \in DOMAIN threads : ~IsSave(threads[k])
        BY <2>1, <2>2, <3>1 DEF Brings
      <4> QED BY <1>2, <4>1 DEF OldThreads
    <3> QED BY <1>2, <2>1, <2>2, <3>1 DEF Brings
  <2>3. ASSUME t.kind = "fields"
        PROVE  /\ t.seq = dlg'.seq /\ dlg'.panel = "provider"
               /\ t.available /\ t.providers = Listed /\ dlg'.available /\ dlg'.providers = Listed
               /\ Shown(dlg') \notin dlg'.edited => KeptAs(t.rs, dlg'.read.roles[Shown(dlg')])
    BY <1>2, <2>1, <2>3 DEF Brings, Shown
  <2> QED BY <1>1, <2>1, <2>2, <2>3 DEF Brings, IsSave, KeptAs, Shown
<1>7. \A i, j \in DOMAIN threads' : Loads(threads[i])' /\ Loads(threads[j])' => i = j
  BY <1>1, <1>5 DEF LookInv, OldThreads
<1> QED BY <1>3, <1>4, <1>6, <1>7

LEMMA OneMore ==
  ASSUME NEW s, IsSeq(s), NEW new, IsSeq(new), DOMAIN new = {1}
  PROVE  /\ DOMAIN (s \o new) = DOMAIN s \cup {Len(s) + 1} /\ Len(s) + 1 \notin DOMAIN s
         /\ \A j \in DOMAIN s : (s \o new)[j] = s[j]
         /\ (s \o new)[Len(s) + 1] = new[1]
<1>1. Len(new) = 1 /\ Len(s) \in Nat /\ DOMAIN s = 1 .. Len(s)
  <2>1. {1} = 1 .. 1
    OBVIOUS
  <2> QED BY <2>1, LenOf, SeqDomain
<1>2. DOMAIN (s \o new) = 1 .. Len(s) + 1
  BY <1>1, ConcatOf
<1>3. (s \o new)[Len(s) + 1] = new[1]
  <2>1. \A k \in DOMAIN new : (s \o new)[Len(s) + k] = new[k]
    BY ConcatOf
  <2> QED BY <2>1
<1>4. \A j \in DOMAIN s : (s \o new)[j] = s[j]
  BY ConcatOf
<1> QED BY <1>1, <1>2, <1>3, <1>4

\* The dialog's threads are old ones, except for the i-th, which was its own.
LEMMA LookAnswered ==
  ASSUME ShapeInv, LookInv, NEW i \in DOMAIN threads, ThreadEnds(i),
         dlg.open, dlg.fine, Loads(threads[i]), dlg'.number = dlg.number
  PROVE  \A j \in DOMAIN threads' : ~Loads(threads[j])'
<1>1. PICK f : OldThreads(f) /\ \A j \in DOMAIN threads' : f[j] # i
  BY OldAfterEnd
<1> SUFFICES ASSUME NEW j \in DOMAIN threads', Loads(threads[j])' PROVE FALSE
  OBVIOUS
<1>2. f[j] \in DOMAIN threads /\ threads'[j] = threads[f[j]] /\ f[j] # i
  BY <1>1 DEF OldThreads, Loads
<1>3. Loads(threads[f[j]])
  BY <1>2 DEF Loads
<1> QED BY <1>2, <1>3 DEF LookInv

LEMMA LookView == ASSUME DialogInv, LookInv, View PROVE LookInv'
<1>1. IsDialog(dlg) /\ dlg.open /\ dlg' \in ViewIn(dlg) /\ UNCHANGED <<file, threads>>
  BY DEF DialogInv, ShapeInv, View
<1>2. Differs(dlg, dlg', {"list", "secret", "cursor"})
  BY <1>1, ViewStays
<1>3. PICK f : OldThreads(f)
  BY <1>1, OldStay
<1>4. Differs(dlg, dlg', {"list", "secret", "cursor", "saving"})
  BY <1>2 DEF Differs
<1> QED BY <1>1, <1>3, <1>4, LookRest DEF DialogInv

LEMMA LookOpen == ASSUME DialogInv, LookInv, Open PROVE LookInv'
<1> DEFINE t == [kind |-> "initial", from |-> opened', rs |-> NoRole, read |-> FALSE]
           fine == ~\E i \in DOMAIN threads : IsSave(threads[i])
           new == <<t>>
<1>1. /\ opened \in Nat /\ opened' = opened + 1 /\ file' = file /\ IsSeq(threads)
      /\ \A j \in DOMAIN threads : threads[j].from \in 0 .. opened
  BY DEF DialogInv, ShapeInv, Open
<1>2. threads' = threads \o new /\ dlg' = [Fresh(opened') EXCEPT !.fine = fine]
  BY DEF Open, Starts
<1>3. t.from = opened' /\ t.kind = "initial" /\ ~t.read
  OBVIOUS
<1> HIDE DEF t
<1>4. /\ IsSeq(new) /\ DOMAIN new = {1} /\ new[1] = t
  BY OneThread
<1> HIDE DEF new
<1>5. fine => \A i \in DOMAIN threads : ~IsSave(threads[i])
  OBVIOUS
<1> HIDE DEF fine
<1>6. /\ dlg'.fine = fine /\ dlg'.number = opened' /\ dlg'.all = file /\ dlg'.read = file
      /\ dlg'.edited = {} /\ dlg'.loading = TRUE /\ dlg'.role = 1 /\ dlg'.panel = "provider"
  BY <1>2 DEF Fresh
<1> SUFFICES ASSUME fine
             PROVE  /\ RolesKept(dlg')
                    /\ \A j \in DOMAIN threads' : Loads(threads[j])' => Brings(threads[j])'
                    /\ \A j, k \in DOMAIN threads' : Loads(threads[j])' /\ Loads(threads[k])' => j = k
  BY <1>6 DEF LookInv, RolesKept, KeptAs
<1>7. RolesKept(dlg')
  BY <1>6 DEF RolesKept, KeptAs, Same
<1>8. PICK n : /\ DOMAIN threads' = DOMAIN threads \cup {n}
               /\ \A j \in DOMAIN threads : threads'[j] = threads[j]
               /\ threads'[n] = t
  <2>1. IsSeq(threads) /\ threads' = threads \o new
    BY <1>1, <1>2
  <2>2. /\ DOMAIN (threads \o new) = DOMAIN threads \cup {Len(threads) + 1}
        /\ \A j \in DOMAIN threads : (threads \o new)[j] = threads[j]
        /\ (threads \o new)[Len(threads) + 1] = new[1]
    BY <1>4, <2>1, OneMore
  <2> QED BY <1>4, <2>1, <2>2
<1>9. ASSUME NEW j \in DOMAIN threads', j # n
      PROVE  j \in DOMAIN threads /\ threads'[j] = threads[j] /\ ~Loads(threads[j])'
  <2>1. j \in DOMAIN threads /\ threads'[j] = threads[j]
    BY <1>8, <1>9
  <2>2. threads'[j].from # dlg'.number
    BY <1>1, <1>6, <2>1
  <2> QED BY <2>1, <2>2 DEF Loads
<1>10. Brings(threads[n])'
  <2>1. \A j \in DOMAIN threads' : ~IsSave(threads'[j])
    BY <1>3, <1>5, <1>8, <1>9 DEF IsSave
  <2> QED BY <1>1, <1>3, <1>6, <1>8, <2>1 DEF Brings, IsSave
<1> QED BY <1>7, <1>9, <1>10

LEMMA LookKey == ASSUME DialogInv, LookInv, Key PROVE LookInv'
<1>1. dlg.open /\ IsDialog(dlg) /\ ~dlg.loading /\ ~dlg.saving /\ IsSeq(threads)
  BY DEF DialogInv, ShapeInv, Key
<1>2. PICK e \in KeyIn(dlg) : dlg' = e.dlg /\ threads' = threads \o e.start
  BY DEF Key, Starts
<1>3. Leads(dlg, e) /\ Framed(dlg, dlg')
  BY <1>1, <1>2, KeyLeads DEF Leads
<1> SUFFICES ASSUME dlg.fine, dlg'.fine
             PROVE  /\ RolesKept(dlg')
                    /\ \A j \in DOMAIN threads' : Loads(threads[j])' => dlg'.loading /\ Brings(threads[j])'
                    /\ \A j, k \in DOMAIN threads' : Loads(threads[j])' /\ Loads(threads[k])' => j = k
                    /\ ~dlg'.loading => dlg'.available /\ dlg'.providers = Listed /\ ScreenKept(dlg')
  BY <1>3 DEF LookInv, RolesKept, ScreenKept, Shown, KeptAs, Framed
<1>4. /\ Looked(dlg) /\ dlg.available /\ dlg.providers = Listed
      /\ \A j \in DOMAIN threads : ~Loads(threads[j])
  BY <1>1 DEF LookInv, Looked
<1>5. dlg'.available /\ dlg'.providers = Listed /\ dlg'.number = dlg.number
  BY <1>3, <1>4 DEF Framed
<1>6. CASE e.start = <<>> /\ RolesKept(dlg') /\ ~dlg'.loading /\ ScreenKept(dlg')
  <2>1. IsSeq(e.start) /\ DOMAIN e.start = {} /\ Len(e.start) = 0
    BY <1>6, NoThread
  <2>2. DOMAIN threads' = DOMAIN threads /\ \A j \in DOMAIN threads : threads'[j] = threads[j]
    BY <1>1, <1>2, <2>1, ConcatOf, SeqDomain
  <2>3. \A j \in DOMAIN threads' : ~Loads(threads[j])'
    BY <1>4, <1>5, <2>2 DEF Loads
  <2> QED BY <1>5, <1>6, <2>3
<1>7. ASSUME NEW t, e.start = <<t>>
      PROVE  \E n : /\ threads'[n] = t /\ n \in DOMAIN threads'
                    /\ \A j \in DOMAIN threads' : j # n => ~Loads(threads[j])'
  <2> DEFINE new == e.start
  <2>1. IsSeq(new) /\ DOMAIN new = {1} /\ new[1] = t
    BY <1>7, OneThread
  <2>2. threads' = threads \o new
    BY <1>2
  <2> HIDE DEF new
  <2>3. PICK n : /\ DOMAIN threads' = DOMAIN threads \cup {n}
                 /\ \A j \in DOMAIN threads : threads'[j] = threads[j]
                 /\ threads'[n] = t
    BY <1>1, <2>1, <2>2, OneMore
  <2>4. ASSUME NEW j \in DOMAIN threads', j # n PROVE ~Loads(threads[j])'
    <3>1. j \in DOMAIN threads
      BY <2>3, <2>4
    <3> QED BY <1>4, <1>5, <2>3, <3>1 DEF Loads
  <2> QED BY <2>3, <2>4
<1>8. CASE Saves(dlg, e)
  <2>1. e.start = <<SaveThread(dlg')>> /\ RolesKept(dlg') /\ ~dlg'.loading /\ ScreenKept(dlg')
    BY <1>2, <1>4, <1>8 DEF Saves
  <2>2. PICK n : /\ threads'[n] = SaveThread(dlg') /\ n \in DOMAIN threads'
                 /\ \A j \in DOMAIN threads' : j # n => ~Loads(threads[j])'
    BY <1>7, <2>1
  <2>3. ~Loads(threads[n])'
    BY <2>2 DEF Loads, SaveThread
  <2> QED BY <1>5, <2>1, <2>2, <2>3
<1>9. CASE AsksFor(dlg, e)
  <2>1. PICK rs :
          /\ e.start = <<FieldsThread(dlg', rs)>>
          /\ RolesKept(dlg')
          /\ Shown(dlg') \notin dlg'.edited => KeptAs(rs, dlg'.read.roles[Shown(dlg')])
    BY <1>2, <1>4, <1>9 DEF AsksFor
  <2>2. dlg'.loading /\ dlg'.panel = "provider"
    BY <1>2, <1>9 DEF AsksFor
  <2> DEFINE t == FieldsThread(dlg', rs)
  <2>3. /\ t.kind = "fields" /\ t.seq = dlg'.seq /\ t.rs = rs
        /\ t.providers = dlg'.providers /\ t.available = dlg'.available
    BY DEF FieldsThread
  <2>4. e.start = <<t>>
    BY <2>1
  <2> HIDE DEF t
  <2>5. PICK n : /\ threads'[n] = t /\ n \in DOMAIN threads'
                 /\ \A j \in DOMAIN threads' : j # n => ~Loads(threads[j])'
    BY <1>7, <2>4
  <2>6. Brings(threads[n])'
    BY <1>5, <2>1, <2>2, <2>3, <2>5 DEF Brings, KeptAs, Shown
  <2> QED BY <2>1, <2>2, <2>5, <2>6
<1> QED BY <1>2, <1>3, <1>4, <1>6, <1>8, <1>9 DEF Leads, Rests

LEMMA LookReadFile == ASSUME DialogInv, LookInv, NEW i \in DOMAIN threads, ReadFile(i) PROVE LookInv'
<1> DEFINE v == [threads[i] EXCEPT !.read = TRUE, !.rs = file.roles[Roles[1]]]
<1>1. /\ threads[i].kind = "initial" /\ ~threads[i].read /\ UNCHANGED <<file, dlg>>
      /\ IsSeq(threads) /\ IsThread(threads[i])
  BY DEF ReadFile, DialogInv, ShapeInv
<1>2. threads' = [threads EXCEPT ![i] = v]
  BY DEF ReadFile, DialogInv, ShapeInv
<1>3. /\ v.kind = "initial" /\ v.from = threads[i].from /\ v.read
      /\ v.rs = file.roles[Roles[1]]
  BY <1>1 DEF IsThread, ThreadFields
<1> HIDE DEF v
<1>4. /\ DOMAIN threads' = DOMAIN threads /\ threads'[i] = v
      /\ \A j \in DOMAIN threads \ {i} : threads'[j] = threads[j]
  BY <1>1, <1>2, UpdateOf
<1>5. \A j \in DOMAIN threads' : Loads(threads[j])' => Loads(threads[j])
  BY <1>1, <1>3, <1>4 DEF Loads
<1> SUFFICES ASSUME dlg.open, dlg.fine
             PROVE  \A j \in DOMAIN threads' : Loads(threads[j])' => Brings(threads[j])'
  BY <1>1, <1>4, <1>5 DEF LookInv, RolesKept, ScreenKept, KeptAs, Shown
<1> SUFFICES ASSUME NEW j \in DOMAIN threads', Loads(threads[j])' PROVE Brings(threads[j])'
  OBVIOUS
<1>6. j \in DOMAIN threads /\ Brings(threads[j])
  BY <1>4, <1>5 DEF LookInv
<1>7. \A k \in DOMAIN threads' : IsSave(threads'[k]) => IsSave(threads[k])
  BY <1>3, <1>4 DEF IsSave
<1>8. CASE j = i
  <2>1. /\ dlg.role = 1 /\ dlg.panel = "provider" /\ dlg.edited = {} /\ file = dlg.read
    BY <1>1, <1>6, <1>8 DEF Brings
  <2> QED BY <1>1, <1>3, <1>4, <1>8, <2>1 DEF Brings, KeptAs
<1>9. CASE j # i
  BY <1>1, <1>4, <1>6, <1>7, <1>9 DEF Brings, KeptAs, Shown, IsSave
<1> QED BY <1>8, <1>9

LEMMA LookInitialLoad == ASSUME DialogInv, LookInv, NEW i \in DOMAIN threads, InitialLoad(i) PROVE LookInv'
<1> DEFINE t == threads[i]
<1>1. PICK outcome : dlg' = IF ~dlg.open THEN dlg ELSE Initialised(dlg, t, outcome)
  BY InitialLoadIs
<1>2. ThreadEnds(i) /\ ShapeInv /\ t.kind = "initial" /\ t.read
  BY DEF InitialLoad, DialogInv
<1> SUFFICES ASSUME dlg.open, dlg'.fine PROVE LookInv'
  BY <1>1 DEF LookInv
<1>3. IsDialog(dlg)
  BY DEF DialogInv, ShapeInv
<1>4. dlg' = Initialised(dlg, t, outcome)
  BY <1>1
<1>5. Differs(dlg, dlg', {"fields", "info", "loading", "cursor", "fine", "providers", "available"})
  BY <1>3, <1>4, InitialisedDialog
<1>6. dlg'.fields = InitialAnswer(t, outcome).fields /\ dlg'.info = InitialAnswer(t, outcome).info
  BY <1>3, <1>4, InitialisedDialog
<1>7. dlg.fine /\ t.from = dlg.number /\ outcome = "ok"
  BY <1>3, <1>4, InitialisedDialog
<1>8. dlg'.available /\ dlg'.providers = Listed
  BY <1>3, <1>4, <1>7, InitialisedDialog
<1>9. ~dlg'.loading
  BY <1>3, <1>4, InitialisedDialog
<1>10. Loads(t) /\ Brings(t)
  BY <1>2, <1>7 DEF Loads, LookInv
<1>11. /\ dlg'.all = dlg.all /\ dlg'.edited = dlg.edited /\ dlg'.read = dlg.read /\ dlg'.role = dlg.role
       /\ dlg'.panel = dlg.panel /\ dlg'.number = dlg.number
  BY <1>5 DEF Differs, DialogFields
<1> DEFINE good == dlg.read.roles[Roles[1]]
<1>12. t.rs = good /\ dlg.role = 1
  BY <1>2, <1>10 DEF Brings
<1> HIDE DEF t
<1>13. InitialAnswer(t, outcome) = RoleFields(good, Listed, TRUE, "ok")
  BY <1>7, <1>12 DEF InitialAnswer
<1>14. KeptAs(good, good)
  BY DEF KeptAs, Same
<1> HIDE DEF good
<1>15. KeptAs(Gathered(dlg'.fields, dlg'.info), good)
  BY <1>6, <1>13, <1>14, RoundTrip
<1>16. ScreenKept(dlg')
  BY <1>11, <1>12, <1>15 DEF ScreenKept, Shown, good
<1>17. RolesKept(dlg')
  BY <1>7, <1>11 DEF LookInv, RolesKept
<1>18. \A j \in DOMAIN threads' : ~Loads(threads[j])'
  BY <1>2, <1>7, <1>10, <1>11, LookAnswered DEF t
<1> QED BY <1>8, <1>9, <1>16, <1>17, <1>18 DEF LookInv, RolesKept, ScreenKept, KeptAs, Shown

LEMMA LookProviderChanged ==
  ASSUME DialogInv, LookInv, NEW i \in DOMAIN threads, ProviderChanged(i) PROVE LookInv'
<1> DEFINE t == threads[i]
<1>1. PICK outcome :
        dlg' = IF ~dlg.open THEN dlg
               ELSE IF t.seq # dlg.seq THEN [dlg EXCEPT !.loading = FALSE, !.fine = @ /\ t.from = dlg.number]
               ELSE Flushed(Filled(dlg, t, FieldsAnswer(t, outcome), outcome))
  BY ProviderChangedIs
<1>2. ThreadEnds(i) /\ ShapeInv /\ t.kind = "fields"
  BY DEF ProviderChanged, DialogInv
<1> SUFFICES ASSUME dlg.open, dlg'.fine PROVE LookInv'
  BY <1>1 DEF LookInv
<1>3. IsDialog(dlg)
  BY DEF DialogInv, ShapeInv
<1>4. ASSUME dlg.fine, t.from = dlg.number PROVE Loads(t) /\ Brings(t)
  BY <1>2, <1>4 DEF Loads, LookInv
<1>5. t.seq = dlg.seq
  <2> SUFFICES ASSUME t.seq # dlg.seq PROVE FALSE
    OBVIOUS
  <2>1. dlg.fine /\ t.from = dlg.number
    BY <1>1, <1>3 DEF IsDialog, DialogFields
  <2> QED BY <1>2, <1>4, <2>1 DEF Brings
<1> DEFINE a == FieldsAnswer(t, outcome)
           f == Filled(dlg, t, a, outcome)
<1>6. ProviderScreen(a.fields)
  BY RoleFieldsScreen DEF FieldsAnswer
<1>7. dlg' = Flushed(f)
  BY <1>1, <1>5
<1>8. f.fields = a.fields
  BY <1>3 DEF Filled, IsDialog, DialogFields
<1>9. f.info = a.info
  BY <1>3 DEF Filled, IsDialog, DialogFields
<1> HIDE DEF a
<1>10. IsDialog(f)
  BY <1>3, <1>6, FilledDialog
<1>11. Differs(dlg, f, {"fields", "info", "loading", "cursor", "fine"})
  BY <1>3, <1>6, FilledDialog
<1>12. ~f.loading
  BY <1>3, <1>6, FilledDialog
<1>13. f.fine => dlg.fine /\ t.from = dlg.number /\ outcome = "ok"
  <2>1. f.fine => dlg.fine
    BY <1>3, <1>6, FilledDialog
  <2>2. f.fine => t.from = dlg.number
    BY <1>3, <1>6, FilledDialog
  <2>3. f.fine => outcome = "ok"
    BY <1>3 DEF Filled, IsDialog, DialogFields
  <2> HIDE DEF f, t
  <2> QED BY <2>1, <2>2, <2>3
<1> HIDE DEF f, t
<1>14. IsFrame(f) /\ Differs(f, dlg', {"all"})
  BY <1>7, <1>10, DialogIsFrame, FlushedFrame
<1>15. /\ dlg'.fine = f.fine /\ dlg'.fields = f.fields /\ dlg'.info = f.info /\ dlg'.loading = f.loading
       /\ dlg'.available = f.available /\ dlg'.providers = f.providers /\ dlg'.panel = f.panel
       /\ dlg'.edited = f.edited /\ dlg'.read = f.read /\ dlg'.role = f.role /\ dlg'.number = f.number
  BY <1>14 DEF Differs, DialogFields
<1>16. dlg.fine /\ t.from = dlg.number /\ outcome = "ok"
  BY <1>13, <1>15
<1>17. /\ Loads(t) /\ dlg.panel = "provider"
       /\ t.available /\ t.providers = Listed /\ dlg.available /\ dlg.providers = Listed
       /\ Shown(dlg) \notin dlg.edited => KeptAs(t.rs, dlg.read.roles[Shown(dlg)])
  BY <1>2, <1>4, <1>16 DEF Brings, t
<1>18. /\ f.available = dlg.available /\ f.providers = dlg.providers /\ f.panel = dlg.panel
       /\ f.edited = dlg.edited /\ f.read = dlg.read /\ f.role = dlg.role /\ f.number = dlg.number
       /\ f.all = dlg.all
  BY <1>11 DEF Differs, DialogFields
<1>19. Shown(f) = Shown(dlg) /\ Shown(dlg') = Shown(dlg)
  BY <1>15, <1>18 DEF Shown
<1>20. RolesKept(f)
  BY <1>16, <1>18 DEF LookInv, RolesKept
<1>21. ASSUME Shown(dlg) \notin dlg.edited
       PROVE  KeptAs(Gathered(a.fields, a.info), dlg.read.roles[Shown(dlg)])
  <2> DEFINE good == dlg.read.roles[Shown(dlg)]
  <2>1. KeptAs(t.rs, good)
    BY <1>17, <1>21
  <2>2. a = RoleFields(t.rs, Listed, t.available, "ok") /\ t.available
    BY <1>16, <1>17 DEF FieldsAnswer, a
  <2>3. a = RoleFields(t.rs, Listed, TRUE, "ok")
    BY <2>2 DEF RoleFields
  <2> HIDE DEF good
  <2> QED BY <2>1, <2>3, RoundTrip DEF good
<1>22. ScreenKept(f)
  BY <1>8, <1>9, <1>18, <1>19, <1>21 DEF ScreenKept
<1>23. RolesKept(dlg')
  BY <1>7, <1>14, <1>20, <1>22, FlushedKeeps
<1>24. ScreenKept(dlg')
  BY <1>15, <1>18, <1>19, <1>22 DEF ScreenKept
<1>25. \A j \in DOMAIN threads' : ~Loads(threads[j])'
  BY <1>2, <1>15, <1>16, <1>17, <1>18, LookAnswered DEF t
<1> QED BY <1>12, <1>15, <1>17, <1>18, <1>23, <1>24, <1>25 DEF LookInv, RolesKept, ScreenKept, KeptAs, Shown

\* A step of a thread that saves or pushes.
LEMMA LookGoesOn ==
  ASSUME DialogInv, LookInv, NEW i \in DOMAIN threads, NEW v, threads' = [threads EXCEPT ![i] = v],
         v.kind = threads[i].kind, v.kind \in {"push", "save"}, file' = file,
         dlg' = dlg \/ Told(threads[i])
  PROVE  LookInv'
<1>1. PICK f : OldThreads(f)
  BY OldAfterUpdate DEF DialogInv
<1>2. dlg'.open => dlg.open /\ Differs(dlg, dlg', {"list", "secret", "cursor", "saving"})
  BY DEF DialogInv, ShapeInv, IsDialog, Told, Differs, DialogFields
<1> QED BY <1>1, <1>2, LookRest DEF DialogInv

LEMMA LookEnds ==
  ASSUME DialogInv, LookInv, NEW i \in DOMAIN threads, ThreadEnds(i),
         file' = file \/ IsSave(threads[i]), dlg' = dlg \/ Told(threads[i])
  PROVE  LookInv'
<1>1. PICK f : OldThreads(f)
  BY OldAfterEnd DEF DialogInv
<1>2. dlg'.open => dlg.open /\ Differs(dlg, dlg', {"list", "secret", "cursor", "saving"})
  BY DEF DialogInv, ShapeInv, IsDialog, Told, Differs, DialogFields
<1> QED BY <1>1, <1>2, LookRest DEF DialogInv

LEMMA LookPushRole ==
  ASSUME DialogInv, LookInv, NEW i \in DOMAIN threads, PushRole(i) \/ SaveRole(i) PROVE LookInv'
<1>1. /\ threads[i].kind \in {"push", "save"} /\ file' = file
      /\ dlg' = dlg \/ Told(threads[i])
  BY DEF PushRole, SaveRole, IsSave
<1>2. CASE ThreadEnds(i)
  BY <1>1, <1>2, LookEnds
<1>3. CASE threads' = [threads EXCEPT ![i].next = Min(Waiting(threads[i])) + 1]
  <2> DEFINE next == Min(Waiting(threads[i])) + 1
             v == [threads[i] EXCEPT !.next = next]
  <2>1. threads' = [threads EXCEPT ![i] = v] /\ IsThread(threads[i])
    BY <1>3 DEF DialogInv, ShapeInv
  <2> HIDE DEF next
  <2>2. v.kind = threads[i].kind
    BY <1>1, <2>1 DEF IsThread, ThreadFields
  <2> HIDE DEF v
  <2> QED BY <1>1, <2>1, <2>2, LookGoesOn
<1> QED BY <1>2, <1>3 DEF PushRole, SaveRole

LEMMA LookPushLoads == ASSUME DialogInv, LookInv, NEW i \in DOMAIN threads, PushLoads(i) PROVE LookInv'
<1> DEFINE v == [threads[i] EXCEPT !.read = TRUE, !.all = file]
<1>1. threads[i].kind = "push" /\ UNCHANGED <<file, dlg>> /\ IsThread(threads[i])
  BY DEF PushLoads, DialogInv, ShapeInv
<1>2. threads' = [threads EXCEPT ![i] = v]
  BY DEF PushLoads, DialogInv, ShapeInv
<1>3. v.kind = threads[i].kind
  BY <1>1 DEF IsThread, ThreadFields
<1> HIDE DEF v
<1> QED BY <1>1, <1>2, <1>3, LookGoesOn

LEMMA LookSaveFile == ASSUME DialogInv, LookInv, NEW i \in DOMAIN threads, SaveFile(i) PROVE LookInv'
<1>1. ThreadEnds(i) /\ IsSave(threads[i]) /\ Told(threads[i])
  BY DEF SaveFile
<1> QED BY <1>1, LookEnds

LEMMA LookSaveTimesOut ==
  ASSUME DialogInv, LookInv, NEW i \in DOMAIN threads, SaveTimesOut(i) PROVE LookInv'
<1> DEFINE v == [threads[i] EXCEPT !.told = TRUE]
<1>1. threads[i].kind = "save" /\ file' = file /\ Told(threads[i]) /\ IsThread(threads[i])
  BY DEF SaveTimesOut, IsSave, DialogInv, ShapeInv
<1>2. threads' = [threads EXCEPT ![i] = v]
  BY DEF SaveTimesOut, DialogInv, ShapeInv
<1>3. v.kind = threads[i].kind
  BY <1>1 DEF IsThread, ThreadFields
<1> HIDE DEF v
<1> QED BY <1>1, <1>2, <1>3, LookGoesOn

LEMMA LookNext == ASSUME DialogInv, LookInv, [SettingsNext]_settingsVars PROVE LookInv'
<1>1. CASE Key \/ View \/ Open
  BY <1>1, LookKey, LookView, LookOpen
<1>2. CASE Esc
  BY <1>2 DEF Esc, Closed, LookInv
<1>3. CASE NewAgent \/ TakeMessage \/ UNCHANGED settingsVars
  <2>1. UNCHANGED <<file, dlg, threads, opened>>
    BY <1>3 DEF NewAgent, TakeMessage, settingsVars
  <2>2. Differs(dlg, dlg', {"list", "secret", "cursor", "saving"})
    BY <2>1 DEF Differs
  <2> QED BY <2>1, <2>2, OldStay, LookRest DEF DialogInv
<1>4. CASE Threads
  <2> PICK i \in DOMAIN threads :
        \/ ReadFile(i) \/ InitialLoad(i) \/ ProviderChanged(i)
        \/ PushLoads(i) \/ PushRole(i)
        \/ SaveRole(i) \/ SaveFile(i) \/ SaveTimesOut(i)
    BY <1>4 DEF Threads
  <2> QED BY LookReadFile, LookInitialLoad, LookProviderChanged, LookPushLoads, LookPushRole,
             LookSaveFile, LookSaveTimesOut
<1> QED BY <1>1, <1>2, <1>3, <1>4 DEF SettingsNext

LEMMA LookInvariance == SettingsSpec => []LookInv
<1>1. SettingsInit => LookInv
  BY DEF SettingsInit, LookInv, Closed
<1> QED BY <1>1, LookNext, DialogInvariance, PTL DEF SettingsSpec

\* Looking at the settings changes none that the gateway knows (settings.rs: the fields on
\* screen, flushed at every step, are those of build_role_fields).
THEOREM LookingChangesNothingInvariance == SettingsSpec => []LookingChangesNothing
<1>1. LookInv => LookingChangesNothing
  BY DEF LookInv, LookingChangesNothing, RolesKept, KeptAs
<1> QED BY <1>1, LookInvariance, PTL

-----------------------------------------------------------------------------
(* The messages for di-core.                                               *)

\* Induction over the numbers up to n, for a set of them.
LEMMA UpTo ==
  ASSUME NEW n \in Nat, NEW S, 0 \in S, \A i \in 1 .. n : i - 1 \in S => i \in S
  PROVE  \A i \in 0 .. n : i \in S
<1> DEFINE Out == {i \in 0 .. n : i \notin S}
<1> SUFFICES ASSUME Out # {} PROVE FALSE
  OBVIOUS
<1>1. PICK i \in Out : \A j \in Out : i <= j
  <2>1. Out \in SUBSET Nat
    OBVIOUS
  <2> HIDE DEF Out
  <2> QED BY <2>1, LeastNatural
<1>2. i \in 1 .. n /\ i - 1 \notin Out /\ i - 1 \in 0 .. n
  BY <1>1
<1> QED BY <1>1, <1>2

LEMMA AppendOf ==
  ASSUME NEW s, IsSeq(s), NEW v
  PROVE  /\ IsSeq(Append(s, v)) /\ DOMAIN Append(s, v) = 1 .. Len(s) + 1
         /\ \A j \in DOMAIN s : j \in 1 .. Len(s) /\ Append(s, v)[j] = s[j]
         /\ Append(s, v)[Len(s) + 1] = v
<1> DEFINE S == ToSet(s) \cup {v}
<1>1. s \in Seq(S) /\ v \in S
  BY DEF IsSeq
<1>2. Append(s, v) \in Seq(S)
  BY <1>1
<1> HIDE DEF S
<1>3. IsSeq(Append(s, v))
  BY <1>2, AnySeq
<1> QED BY <1>1, <1>3, SeqDomain

MessagesUpTo(all, f) ==
  f = [i \in 0 .. Len(Roles) |->
         IF i = 0 THEN <<>>
         ELSE IF Complete(all.roles[Roles[i]]) THEN Append(f[i - 1], ProviderMessage(all, Roles[i]))
         ELSE f[i - 1]]

\* There are such messages: a list for every number of roles, from that for one less.
LEMMA MessagesExist == ASSUME NEW all PROVE \E f : MessagesUpTo(all, f)
<1> DEFINE n == Len(Roles)
           Body(f, i) == IF i = 0 THEN <<>>
                         ELSE IF Complete(all.roles[Roles[i]])
                         THEN Append(f[i - 1], ProviderMessage(all, Roles[i])) ELSE f[i - 1]
           Partly == {m \in 0 .. n : \E f : f = [i \in 0 .. m |-> Body(f, i)]}
<1>1. n \in Nat
  BY RolesAre
<1>2. 0 \in Partly
  <2> DEFINE f == [i \in 0 .. 0 |-> <<>>]
  <2>1. f = [i \in 0 .. 0 |-> Body(f, i)]
    BY SMT
  <2> HIDE DEF f, Body
  <2> QED BY <1>1, <2>1
<1>3. ASSUME NEW m \in 1 .. n, m - 1 \in Partly PROVE m \in Partly
  <2>1. PICK g : g = [i \in 0 .. m - 1 |-> Body(g, i)]
    BY <1>3
  <2> DEFINE f == [i \in 0 .. m |-> IF i = m THEN Body(g, m) ELSE g[i]]
  <2>2. \A i \in 0 .. m - 1 : f[i] = g[i] /\ g[i] = Body(g, i)
    <3>1. \A i \in 0 .. m - 1 : f[i] = g[i]
      BY <1>1
    <3> HIDE DEF f, Body
    <3> QED BY <2>1, <3>1
  <2>3. f[m] = Body(g, m)
    BY <1>1
  <2>4. ASSUME NEW i \in 0 .. m PROVE f[i] = Body(f, i)
    <3>1. CASE i = 0
      <4>1. 0 \in 0 .. m - 1
        BY <1>1
      <4>2. f[0] = Body(g, 0)
        <5> HIDE DEF f, Body
        <5> QED BY <2>2, <4>1
      <4> HIDE DEF f
      <4> QED BY <3>1, <4>2
    <3>2. CASE i # 0
      <4>1. i - 1 \in 0 .. m - 1
        BY <1>1, <3>2
      <4>2. f[i - 1] = g[i - 1]
        BY <2>2, <4>1
      <4>3. f[i] = Body(g, i)
        <5>1. CASE i = m
          BY <2>3, <5>1
        <5>2. CASE i # m
          <6>1. i \in 0 .. m - 1
            BY <1>1, <5>2
          <6> QED BY <2>2, <6>1
        <5> QED BY <5>1, <5>2
      <4> HIDE DEF f
      <4> QED BY <4>2, <4>3
    <3> QED BY <3>1, <3>2
  <2>5. f = [i \in 0 .. m |-> Body(f, i)]
    <3>1. DOMAIN f = 0 .. m
      OBVIOUS
    <3>2. f = [i \in 0 .. m |-> f[i]]
      OBVIOUS
    <3> HIDE DEF f, Body
    <3> QED BY <2>4, <3>2
  <2> HIDE DEF f, Body
  <2> QED BY <1>1, <2>5
<1> HIDE DEF Partly, n
<1>4. \A i \in 0 .. n : i \in Partly
  BY <1>1, <1>2, <1>3, UpTo
<1>5. n \in Partly
  BY <1>1, <1>4
<1> QED BY <1>5 DEF Partly, MessagesUpTo, n

LEMMA MessagesAre ==
  ASSUME NEW all PROVE \E f : MessagesUpTo(all, f) /\ ProviderMessages(all) = f[Len(Roles)]
BY MessagesExist DEF ProviderMessages, MessagesUpTo

-----------------------------------------------------------------------------
(* The settings go everywhere.                                             *)

Writes(t) == t.kind \in {"push", "save"}

\* The roles before position n are in the gateway.
InGateway(all, n) ==
  \A k \in 1 .. n - 1 :
    LET rs == all.roles[Roles[k]] IN
    rs.provider \in ToSet(Listed) => gateway[<<rs.provider, Roles[k]>>] = rs

IsFor(m, r) == m.type = "provider" /\ m.role = r

\* di-core has the settings of the role, or the last message about it brings them.
Arrived(r, rs) ==
  /\ \A k \in DOMAIN core.inbox : IsFor(core.inbox[k], r) => core.inbox[k].rs = rs
  /\ core.defaults[r] = rs
  /\ \A a \in DOMAIN core.agents : core.agents[a].roles[r] = rs
Coming(r, rs) ==
  \E k \in DOMAIN core.inbox :
    /\ IsFor(core.inbox[k], r)
    /\ \A j \in DOMAIN core.inbox : j >= k /\ IsFor(core.inbox[j], r) => core.inbox[j].rs = rs
InCore(all) ==
  \A r \in Role : Complete(all.roles[r]) => Arrived(r, all.roles[r]) \/ Coming(r, all.roles[r])

CoreShape ==
  /\ DOMAIN core = {"inbox", "defaults", "agents"}
  /\ IsSeq(core.inbox) /\ IsSeq(core.agents)
  /\ DOMAIN core.defaults = Role
  /\ \A a \in DOMAIN core.agents :
       DOMAIN core.agents[a] = {"roles", "on"} /\ DOMAIN core.agents[a].roles = Role
  /\ \A k \in DOMAIN core.inbox : core.inbox[k].type = "provider" => core.inbox[k].role \in Role
  /\ trouble \in Nat

AgreeInv ==
  /\ DOMAIN gateway = ToSet(Listed) \X Role
  /\ \A i \in DOMAIN threads : threads[i].kind = "push" /\ ~threads[i].read => threads[i].next = 1
  /\ calm =>
       /\ \A i, j \in Writers : i = j
       /\ Writers = {} => InGateway(file, Len(Roles) + 1)
       /\ (\A i \in Writers : ~IsSave(threads[i])) => InCore(file)
       /\ \A i \in Writers :
            /\ IsSave(threads[i]) => ~threads[i].told
            /\ threads[i].kind = "push" /\ threads[i].read => threads[i].all = file
            /\ InGateway(threads[i].all, threads[i].next)

\* One message for every role that is complete, and no other.
LEMMA MessagesKnown ==
  ASSUME NEW all
  PROVE  LET s == ProviderMessages(all) IN
         /\ IsSeq(s)
         /\ \A j \in DOMAIN s : s[j].type = "provider" /\ s[j].role \in Role /\ s[j].rs = all.roles[s[j].role]
         /\ \A r \in Role : Complete(all.roles[r]) => \E j \in DOMAIN s : IsFor(s[j], r)
<1> DEFINE n == Len(Roles)
           Good(s, i) ==
             /\ IsSeq(s)
             /\ \A j \in DOMAIN s : s[j].type = "provider" /\ s[j].role \in Role /\ s[j].rs = all.roles[s[j].role]
             /\ \A k \in 1 .. i : Complete(all.roles[Roles[k]]) => \E j \in DOMAIN s : IsFor(s[j], Roles[k])
<1>1. n \in Nat /\ DOMAIN Roles = 1 .. n /\ \A k \in 1 .. n : Roles[k] \in Role
  BY RolesAre
<1>2. PICK f : MessagesUpTo(all, f) /\ ProviderMessages(all) = f[n]
  BY MessagesAre
<1> HIDE DEF n
<1>3. /\ f[0] = <<>>
      /\ \A i \in 1 .. n :
           f[i] = IF Complete(all.roles[Roles[i]]) THEN Append(f[i - 1], ProviderMessage(all, Roles[i]))
                  ELSE f[i - 1]
  <2>1. f = [i \in 0 .. n |->
               IF i = 0 THEN <<>>
               ELSE IF Complete(all.roles[Roles[i]]) THEN Append(f[i - 1], ProviderMessage(all, Roles[i]))
               ELSE f[i - 1]]
    BY <1>2 DEF MessagesUpTo, n
  <2>2. 0 \in 0 .. n /\ \A i \in 1 .. n : i \in 0 .. n /\ i # 0
    BY <1>1
  <2> HIDE DEF MessagesUpTo
  <2>3. f[0] = <<>>
    BY <2>1, <2>2
  <2>4. ASSUME NEW i \in 1 .. n
        PROVE  f[i] = IF Complete(all.roles[Roles[i]]) THEN Append(f[i - 1], ProviderMessage(all, Roles[i]))
                      ELSE f[i - 1]
    BY <2>1, <2>2
  <2> QED BY <2>3, <2>4
<1> DEFINE S == {i \in 0 .. n : Good(f[i], i)}
<1>4. 0 \in S
  BY <1>1, <1>3, NoThread
<1>5. ASSUME NEW i \in 1 .. n, i - 1 \in S PROVE i \in S
  <2> DEFINE s == f[i - 1]
             m == ProviderMessage(all, Roles[i])
  <2>1. Good(s, i - 1) /\ i \in 0 .. n
    BY <1>1, <1>5
  <2>2. \A k \in 1 .. i : k \in 1 .. i - 1 \/ k = i
    BY <1>1
  <2>3. CASE Complete(all.roles[Roles[i]])
    <3>1. m.type = "provider" /\ m.role = Roles[i] /\ m.rs = all.roles[m.role] /\ m.role \in Role
      BY <1>1 DEF ProviderMessage
    <3> HIDE DEF m, s
    <3> DEFINE u == Append(s, m)
    <3>2. /\ IsSeq(u) /\ DOMAIN u = 1 .. Len(s) + 1
          /\ \A j \in DOMAIN s : j \in 1 .. Len(s) /\ u[j] = s[j]
          /\ u[Len(s) + 1] = m /\ Len(s) \in Nat /\ DOMAIN s = 1 .. Len(s)
      BY <2>1, AppendOf, SeqDomain
    <3>3. f[i] = u
      BY <1>3, <2>3 DEF s, m
    <3> HIDE DEF u
    <3>4. \A j \in DOMAIN u : j \in DOMAIN s \/ j = Len(s) + 1
      BY <3>2
    <3>5. \A j \in DOMAIN u : u[j].type = "provider" /\ u[j].role \in Role /\ u[j].rs = all.roles[u[j].role]
      BY <2>1, <3>1, <3>2, <3>4
    <3>6. ASSUME NEW k \in 1 .. i, Complete(all.roles[Roles[k]])
          PROVE  \E j \in DOMAIN u : IsFor(u[j], Roles[k])
      <4>1. CASE k = i
        <5>1. Len(s) + 1 \in DOMAIN u
          BY <3>2
        <5>2. IsFor(u[Len(s) + 1], Roles[k])
          BY <3>1, <3>2, <4>1 DEF IsFor
        <5> QED BY <5>1, <5>2
      <4>2. CASE k \in 1 .. i - 1
        <5>1. PICK j \in DOMAIN s : IsFor(s[j], Roles[k])
          BY <2>1, <3>6, <4>2
        <5>2. j \in DOMAIN u /\ u[j] = s[j]
          BY <3>2
        <5> QED BY <5>1, <5>2
      <4> QED BY <2>2, <4>1, <4>2
    <3>7. Good(u, i)
      BY <3>2, <3>5, <3>6
    <3> QED BY <2>1, <3>3, <3>7
  <2>4. CASE ~Complete(all.roles[Roles[i]])
    <3>1. f[i] = s
      BY <1>3, <2>4
    <3> HIDE DEF s
    <3>2. Good(s, i)
      BY <2>1, <2>2, <2>4
    <3> QED BY <2>1, <3>1, <3>2
  <2> QED BY <2>3, <2>4
<1> HIDE DEF S
<1>6. n \in S
  <2>1. \A i \in 0 .. n : i \in S
    BY <1>1, <1>4, <1>5, UpTo
  <2> QED BY <1>1, <2>1
<1>7. Good(f[n], n)
  BY <1>6 DEF S
<1>8. \A r \in Role : \E k \in 1 .. n : r = Roles[k]
  BY <1>1 DEF Role, ToSet
<1> QED BY <1>2, <1>7, <1>8

FromSettings(s, all) ==
  \A j \in DOMAIN s : s[j].type = "provider" => s[j].role \in Role /\ s[j].rs = all.roles[s[j].role]
ForAll(s, all) == \A r \in Role : Complete(all.roles[r]) => \E j \in DOMAIN s : IsFor(s[j], r)

LEMMA SentFrom ==
  ASSUME NEW all, NEW m, m.type # "provider"
  PROVE  LET s == Append(ProviderMessages(all), m) IN
         /\ IsSeq(s) /\ FromSettings(s, all) /\ ForAll(s, all)
         /\ \A i \in DOMAIN s : IsSeq(RemoveAt(s, i)) /\ FromSettings(RemoveAt(s, i), all)
<1> DEFINE p == ProviderMessages(all)
           s == Append(p, m)
<1>1. /\ IsSeq(p)
      /\ \A j \in DOMAIN p : p[j].type = "provider" /\ p[j].role \in Role /\ p[j].rs = all.roles[p[j].role]
      /\ \A r \in Role : Complete(all.roles[r]) => \E j \in DOMAIN p : IsFor(p[j], r)
  BY MessagesKnown
<1> HIDE DEF p
<1>2. /\ IsSeq(s) /\ DOMAIN s = 1 .. Len(p) + 1
      /\ \A j \in DOMAIN p : j \in 1 .. Len(p) /\ s[j] = p[j]
      /\ s[Len(p) + 1] = m /\ Len(p) \in Nat /\ DOMAIN p = 1 .. Len(p)
  BY <1>1, AppendOf, SeqDomain
<1> HIDE DEF s
<1>3. \A j \in DOMAIN s : j \in DOMAIN p \/ j = Len(p) + 1
  BY <1>2
<1>4. FromSettings(s, all)
  BY <1>1, <1>2, <1>3 DEF FromSettings
<1>5. ForAll(s, all)
  <2> SUFFICES ASSUME NEW r \in Role, Complete(all.roles[r]) PROVE \E j \in DOMAIN s : IsFor(s[j], r)
    BY DEF ForAll
  <2>1. PICK j \in DOMAIN p : IsFor(p[j], r)
    BY <1>1
  <2>2. j \in DOMAIN s /\ s[j] = p[j]
    BY <1>2
  <2> QED BY <2>1, <2>2
<1>6. ASSUME NEW i \in DOMAIN s PROVE IsSeq(RemoveAt(s, i)) /\ FromSettings(RemoveAt(s, i), all)
  <2> DEFINE u == RemoveAt(s, i)
  <2>1. IsSeq(u) /\ \A j \in DOMAIN u : j \in Int /\ i \in Int
                      /\ (j < i => j \in DOMAIN s /\ u[j] = s[j])
                      /\ (j >= i => j + 1 \in DOMAIN s /\ u[j] = s[j + 1])
    BY <1>2, RemoveOf, SeqDomain
  <2> HIDE DEF u
  <2>2. ASSUME NEW j \in DOMAIN u PROVE \E k \in DOMAIN s : u[j] = s[k]
    <3>1. CASE j < i
      BY <2>1, <3>1
    <3>2. CASE j >= i
      BY <2>1, <3>2
    <3> QED BY <2>1, <3>1, <3>2
  <2>3. FromSettings(u, all)
    BY <1>4, <2>2 DEF FromSettings
  <2> QED BY <2>1, <2>3 DEF u
<1> QED BY <1>2, <1>4, <1>5, <1>6 DEF s, p

\* More messages in the inbox, all from the same settings.
LEMMA InboxGrows ==
  ASSUME CoreShape, NEW new, NEW all, IsSeq(new), FromSettings(new, all),
         core' = [core EXCEPT !.inbox = @ \o new], trouble' \in Nat
  PROVE  /\ CoreShape'
         /\ InCore(all) \/ ForAll(new, all) =>
              \A r \in Role : Complete(all.roles[r]) => (Arrived(r, all.roles[r]) \/ Coming(r, all.roles[r]))'
<1> DEFINE box == core.inbox
           now == box \o new
<1>1. /\ DOMAIN core' = {"inbox", "defaults", "agents"} /\ core'.inbox = now
      /\ core'.defaults = core.defaults /\ core'.agents = core.agents /\ IsSeq(box)
  BY DEF CoreShape
<1>2. /\ IsSeq(now)
      /\ \A j \in DOMAIN box : j \in DOMAIN now /\ now[j] = box[j]
      /\ \A j \in DOMAIN new : Len(box) + j \in DOMAIN now /\ now[Len(box) + j] = new[j]
      /\ \A j \in DOMAIN now :
           \/ j \in DOMAIN box /\ j <= Len(box)
           \/ j - Len(box) \in DOMAIN new /\ now[j] = new[j - Len(box)] /\ j > Len(box)
      /\ Len(box) \in Nat /\ DOMAIN box = 1 .. Len(box) /\ DOMAIN new \subseteq Nat \ {0}
      /\ DOMAIN now \subseteq Nat
  <2>1. /\ IsSeq(now) /\ DOMAIN now = 1 .. Len(box) + Len(new)
        /\ \A j \in DOMAIN box : now[j] = box[j]
        /\ \A j \in DOMAIN new : now[Len(box) + j] = new[j]
        /\ Len(box) \in Nat /\ DOMAIN box = 1 .. Len(box) /\ Len(new) \in Nat /\ DOMAIN new = 1 .. Len(new)
    BY <1>1, ConcatOf, SeqDomain
  <2> HIDE DEF box, now
  <2>2. ASSUME NEW j \in DOMAIN now
        PROVE  \/ j \in DOMAIN box /\ j <= Len(box)
               \/ j - Len(box) \in DOMAIN new /\ now[j] = new[j - Len(box)] /\ j > Len(box)
    <3>0. j \in 1 .. Len(box) + Len(new)
      BY <2>1
    <3>1. CASE j <= Len(box)
      <4>1. j \in 1 .. Len(box)
        BY <2>1, <3>0, <3>1
      <4>2. j \in DOMAIN box
        BY <2>1, <4>1
      <4> QED BY <3>1, <4>2
    <3>2. CASE j > Len(box)
      <4>1. j - Len(box) \in DOMAIN new /\ Len(box) + (j - Len(box)) = j
        BY <2>1, <3>2
      <4>2. now[Len(box) + (j - Len(box))] = new[j - Len(box)]
        BY <2>1, <4>1
      <4> QED BY <3>2, <4>1, <4>2
    <3> QED BY <2>1, <3>0, <3>1, <3>2
  <2> QED BY <2>1, <2>2
<1> HIDE DEF now
<1>3. CoreShape'
  <2>1. \A k \in DOMAIN now : now[k].type = "provider" => now[k].role \in Role
    BY <1>2 DEF CoreShape, FromSettings
  <2> QED BY <1>1, <1>2, <2>1 DEF CoreShape
<1>4. ASSUME NEW r \in Role, Complete(all.roles[r]), Arrived(r, all.roles[r]) PROVE Arrived(r, all.roles[r])'
  <2>1. ASSUME NEW k \in DOMAIN now, IsFor(now[k], r) PROVE now[k].rs = all.roles[r]
    <3>1. CASE k \in DOMAIN box
      BY <1>2, <1>4, <2>1, <3>1 DEF Arrived
    <3>2. CASE k - Len(box) \in DOMAIN new /\ now[k] = new[k - Len(box)]
      BY <2>1, <3>2 DEF IsFor, FromSettings
    <3> QED BY <1>2, <3>1, <3>2
  <2> QED BY <1>1, <1>4, <2>1 DEF Arrived, IsFor
<1>5. ASSUME NEW r \in Role, Complete(all.roles[r]), Coming(r, all.roles[r]) PROVE Coming(r, all.roles[r])'
  <2>1. PICK k \in DOMAIN box :
          IsFor(box[k], r) /\ \A j \in DOMAIN box : j >= k /\ IsFor(box[j], r) => box[j].rs = all.roles[r]
    BY <1>5 DEF Coming
  <2>2. ASSUME NEW j \in DOMAIN now, j >= k, IsFor(now[j], r) PROVE now[j].rs = all.roles[r]
    <3>1. CASE j \in DOMAIN box
      BY <1>2, <2>1, <2>2, <3>1
    <3>2. CASE j - Len(box) \in DOMAIN new /\ now[j] = new[j - Len(box)]
      BY <2>2, <3>2 DEF IsFor, FromSettings
    <3> QED BY <1>2, <3>1, <3>2
  <2>3. k \in DOMAIN now /\ IsFor(now[k], r)
    BY <1>2, <2>1
  <2> QED BY <1>1, <2>2, <2>3, SMTT(40) DEF Coming, IsFor
<1>6. ASSUME NEW r \in Role, Complete(all.roles[r]), ForAll(new, all) PROVE Coming(r, all.roles[r])'
  <2>1. PICK i \in DOMAIN new : IsFor(new[i], r)
    BY <1>6 DEF ForAll
  <2> DEFINE k == Len(box) + i
  <2>2. k \in DOMAIN now /\ IsFor(now[k], r) /\ k > Len(box)
    BY <1>2, <2>1
  <2> HIDE DEF k
  <2>3. \A j \in DOMAIN now : j >= k /\ IsFor(now[j], r) => now[j].rs = all.roles[r]
    <3> SUFFICES ASSUME NEW j \in DOMAIN now, j >= k, IsFor(now[j], r) PROVE now[j].rs = all.roles[r]
      OBVIOUS
    <3>1. j > Len(box) /\ ~(j <= Len(box))
      BY <1>2, <2>2
    <3>2. j - Len(box) \in DOMAIN new /\ now[j] = new[j - Len(box)]
      BY <1>2, <3>1
    <3> QED BY <3>2 DEF IsFor, FromSettings
  <2>4. k \in DOMAIN core'.inbox
    BY <1>1, <2>2
  <2> QED BY <1>1, <2>2, <2>3, <2>4 DEF Coming, IsFor
<1> QED BY <1>3, <1>4, <1>5, <1>6 DEF InCore

\* What is sent to di-core: the settings of all roles, one message of which may get lost.
LEMMA SentKeeps ==
  ASSUME CoreShape, NEW all, NEW m, m.type # "provider", Sent(Append(ProviderMessages(all), m))
  PROVE  /\ CoreShape'
         /\ InCore(all) \/ UNCHANGED trouble =>
              \A r \in Role : Complete(all.roles[r]) => (Arrived(r, all.roles[r]) \/ Coming(r, all.roles[r]))'
<1> DEFINE s == Append(ProviderMessages(all), m)
<1>1. /\ IsSeq(s) /\ FromSettings(s, all) /\ ForAll(s, all)
      /\ \A i \in DOMAIN s : IsSeq(RemoveAt(s, i)) /\ FromSettings(RemoveAt(s, i), all)
  BY SentFrom
<1>2. trouble \in Nat
  BY DEF CoreShape
<1>3. Sent(s)
  OBVIOUS
<1> HIDE DEF s
<1>4. CASE core' = [core EXCEPT !.inbox = @ \o s] /\ UNCHANGED trouble
  BY <1>1, <1>2, <1>4, InboxGrows
<1>5. CASE /\ trouble < MaxTrouble /\ trouble' = trouble + 1
           /\ \E i \in DOMAIN s : core' = [core EXCEPT !.inbox = @ \o RemoveAt(s, i)]
  <2>1. PICK i \in DOMAIN s : core' = [core EXCEPT !.inbox = @ \o RemoveAt(s, i)]
    BY <1>5
  <2> DEFINE u == RemoveAt(s, i)
  <2>2. IsSeq(u) /\ FromSettings(u, all) /\ core' = [core EXCEPT !.inbox = @ \o u]
    BY <1>1, <2>1
  <2>3. trouble' \in Nat /\ trouble' # trouble
    BY <1>2, <1>5
  <2> HIDE DEF u
  <2> QED BY <2>2, <2>3, InboxGrows
<1> QED BY <1>3, <1>4, <1>5 DEF Sent

LEMMA TailOf ==
  ASSUME NEW s, IsSeq(s), s # <<>>
  PROVE  /\ IsSeq(Tail(s)) /\ 1 \in DOMAIN s /\ Head(s) = s[1]
         /\ \A j \in DOMAIN Tail(s) : j \in Nat /\ j + 1 \in DOMAIN s /\ Tail(s)[j] = s[j + 1]
         /\ \A j \in DOMAIN s : j \in Nat /\ (j # 1 => j - 1 \in DOMAIN Tail(s) /\ Tail(s)[j - 1] = s[j])
<1> DEFINE S == ToSet(s)
<1>1. s \in Seq(S)
  BY DEF IsSeq
<1> HIDE DEF S
<1>2. Tail(s) \in Seq(S) /\ Len(Tail(s)) = Len(s) - 1 /\ Len(s) \in Nat \ {0}
  BY <1>1
<1>3. IsSeq(Tail(s)) /\ DOMAIN Tail(s) = 1 .. Len(s) - 1 /\ DOMAIN s = 1 .. Len(s)
  BY <1>2, AnySeq, SeqDomain
<1>4. \A j \in 1 .. Len(s) - 1 : Tail(s)[j] = s[j + 1]
  BY <1>1, <1>2
<1>5. ASSUME NEW j \in DOMAIN s, j # 1 PROVE j - 1 \in DOMAIN Tail(s) /\ Tail(s)[j - 1] = s[j]
  <2>1. j - 1 \in 1 .. Len(s) - 1 /\ (j - 1) + 1 = j
    BY <1>2, <1>3, <1>5
  <2>2. Tail(s)[j - 1] = s[(j - 1) + 1]
    BY <1>4, <2>1
  <2> QED BY <1>3, <2>1, <2>2
<1> QED BY <1>2, <1>3, <1>4, <1>5

\* A sequence whose elements have changed.
LEMMA ChangedSeq ==
  ASSUME NEW s, IsSeq(s), NEW u, DOMAIN u = DOMAIN s, u = [a \in DOMAIN s |-> u[a]] PROVE IsSeq(u)
<1>1. \A a \in DOMAIN u : u[a] \in ToSet(u)
  BY DEF ToSet
<1> QED BY <1>1, SeqDomain DEF IsSeq

\* What the first message of the inbox leaves when every agent takes it.
Takes(m) ==
  /\ core'.inbox = Tail(core.inbox) /\ DOMAIN core' = {"inbox", "defaults", "agents"}
  /\ m.type = "provider" =>
       /\ core'.defaults = [core.defaults EXCEPT ![m.role] = m.rs]
       /\ DOMAIN core'.agents = DOMAIN core.agents
       /\ \A a \in DOMAIN core.agents : core'.agents[a].roles = [core.agents[a].roles EXCEPT ![m.role] = m.rs]
  /\ m.type # "provider" =>
       /\ core'.defaults = core.defaults
       /\ \A a \in DOMAIN core'.agents :
            \/ a \in DOMAIN core.agents /\ core'.agents[a].roles = core.agents[a].roles
            \/ core'.agents[a].roles = core.defaults

LEMMA TakesKeeps ==
  ASSUME CoreShape, core.inbox # <<>>, Takes(Head(core.inbox)), NEW r \in Role, NEW rs,
         Arrived(r, rs) \/ Coming(r, rs)
  PROVE  (Arrived(r, rs) \/ Coming(r, rs))'
<1> DEFINE box == core.inbox
           m == Head(box)
<1>1. /\ IsSeq(box) /\ m = box[1] /\ 1 \in DOMAIN box
      /\ \A j \in DOMAIN Tail(box) : j \in Nat /\ j + 1 \in DOMAIN box /\ Tail(box)[j] = box[j + 1]
      /\ \A j \in DOMAIN box : j \in Nat /\ (j # 1 => j - 1 \in DOMAIN Tail(box) /\ Tail(box)[j - 1] = box[j])
  BY TailOf DEF CoreShape
<1>2. Takes(m) /\ (m.type = "provider" => m.role \in Role)
  BY <1>1 DEF CoreShape
<1>3. /\ DOMAIN core.defaults = Role
      /\ \A a \in DOMAIN core.agents : DOMAIN core.agents[a].roles = Role
  BY DEF CoreShape
<1> HIDE DEF m
<1>4. core'.inbox = Tail(box)
  BY <1>2 DEF Takes
<1> DEFINE Has == /\ core'.defaults[r] = rs
                  /\ \A a \in DOMAIN core'.agents : core'.agents[a].roles[r] = rs
<1>5. ASSUME core.defaults[r] = rs, \A a \in DOMAIN core.agents : core.agents[a].roles[r] = rs,
             IsFor(m, r) => m.rs = rs
      PROVE  Has
  <2>1. CASE m.type = "provider"
    <3>1. /\ core'.defaults = [core.defaults EXCEPT ![m.role] = m.rs]
          /\ DOMAIN core'.agents = DOMAIN core.agents
          /\ \A a \in DOMAIN core.agents : core'.agents[a].roles = [core.agents[a].roles EXCEPT ![m.role] = m.rs]
      BY <1>2, <2>1 DEF Takes
    <3>2. m.role = r => m.rs = rs
      BY <1>5, <2>1 DEF IsFor
    <3>3. core'.defaults[r] = rs
      BY <1>3, <1>5, <3>1, <3>2
    <3>4. ASSUME NEW a \in DOMAIN core'.agents PROVE core'.agents[a].roles[r] = rs
      <4>1. a \in DOMAIN core.agents
        BY <3>1
      <4>2. core'.agents[a].roles = [core.agents[a].roles EXCEPT ![m.role] = m.rs]
        BY <3>1, <4>1
      <4>3. DOMAIN core.agents[a].roles = Role
        BY <1>3, <4>1
      <4> QED BY <1>5, <3>1, <3>2, <4>1, <4>2, <4>3
    <3> QED BY <3>3, <3>4
  <2>2. CASE m.type # "provider"
    BY <1>2, <1>3, <1>5, <2>2 DEF Takes
  <2> QED BY <2>1, <2>2
<1>6. ASSUME IsFor(m, r), m.rs = rs PROVE Has
  <2>1. /\ m.role = r
        /\ core'.defaults = [core.defaults EXCEPT ![m.role] = m.rs]
        /\ DOMAIN core'.agents = DOMAIN core.agents
        /\ \A a \in DOMAIN core.agents : core'.agents[a].roles = [core.agents[a].roles EXCEPT ![m.role] = m.rs]
    BY <1>2, <1>6 DEF Takes, IsFor
  <2>2. core'.defaults[r] = rs
    BY <1>3, <1>6, <2>1
  <2>3. ASSUME NEW a \in DOMAIN core'.agents PROVE core'.agents[a].roles[r] = rs
    <3>1. a \in DOMAIN core.agents
      BY <2>1
    <3>2. core'.agents[a].roles = [core.agents[a].roles EXCEPT ![m.role] = m.rs]
      BY <2>1, <3>1
    <3>3. DOMAIN core.agents[a].roles = Role
      BY <1>3, <3>1
    <3> QED BY <1>6, <2>1, <3>1, <3>2, <3>3
  <2> QED BY <2>2, <2>3
<1> HIDE DEF Has
<1>7. ASSUME Has, \A j \in DOMAIN box : IsFor(box[j], r) => box[j].rs = rs PROVE Arrived(r, rs)'
  <2>1. \A j \in DOMAIN Tail(box) : IsFor(Tail(box)[j], r) => Tail(box)[j].rs = rs
    BY <1>1, <1>7
  <2> QED BY <1>4, <1>7, <2>1 DEF Arrived, Has, IsFor
<1>8. CASE Arrived(r, rs)
  BY <1>1, <1>5, <1>7, <1>8 DEF Arrived
<1>9. CASE Coming(r, rs)
  <2>1. PICK k \in DOMAIN box :
          IsFor(box[k], r) /\ \A j \in DOMAIN box : j >= k /\ IsFor(box[j], r) => box[j].rs = rs
    BY <1>9 DEF Coming
  <2>2. CASE k = 1
    <3>1. \A j \in DOMAIN box : j >= 1 \/ j = 0
      BY <1>1
    <3>2. \A j \in DOMAIN box : j >= 1
      BY <1>1, SeqDomain
    <3>3. \A j \in DOMAIN box : IsFor(box[j], r) => box[j].rs = rs
      BY <2>1, <2>2, <3>2
    <3> QED BY <1>1, <1>6, <1>7, <2>1, <2>2, <3>3
  <2>3. CASE k # 1
    <3> DEFINE n == k - 1
    <3>1. n \in DOMAIN Tail(box) /\ Tail(box)[n] = box[k] /\ k \in Nat /\ n + 1 = k /\ n \in Nat
      BY <1>1, <2>3
    <3> HIDE DEF n
    <3>2. ASSUME NEW j \in DOMAIN Tail(box), j >= n, IsFor(Tail(box)[j], r) PROVE Tail(box)[j].rs = rs
      <4>1. j + 1 \in DOMAIN box /\ Tail(box)[j] = box[j + 1] /\ j + 1 >= k
        BY <1>1, <3>1, <3>2
      <4> QED BY <2>1, <3>2, <4>1
    <3>3. IsFor(Tail(box)[n], r)
      BY <2>1, <3>1
    <3> QED BY <1>4, <3>1, <3>2, <3>3 DEF Coming, IsFor
  <2> QED BY <2>2, <2>3
<1> QED BY <1>8, <1>9

\* TakeMessage, as far as the roles go.
LEMMA TakeKeeps ==
  ASSUME CoreShape, TakeMessage
  PROVE  /\ CoreShape'
         /\ calm' => calm /\ core.inbox # <<>> /\ Takes(Head(core.inbox))
<1> DEFINE m == Head(core.inbox)
           box == core.inbox
<1>1. PICK heard \in SUBSET DOMAIN core.agents :
        /\ core' = CASE m.type = "provider" -> TakesProvider(m, heard)
                     [] m.type = "observer" -> TakesSwitch(m, heard)
                     [] OTHER -> Spawned
        /\ calm' = (calm /\ heard = DOMAIN core.agents)
  BY DEF TakeMessage
<1>2. /\ box # <<>> /\ IsSeq(Tail(box))
      /\ m.type = "provider" => m.role \in Role
      /\ \A j \in DOMAIN Tail(box) : Tail(box)[j].type = "provider" => Tail(box)[j].role \in Role
      /\ trouble' = trouble
  BY TailOf DEF CoreShape, TakeMessage
<1> HIDE DEF m
<1>3. /\ DOMAIN core = {"inbox", "defaults", "agents"} /\ DOMAIN core.defaults = Role
      /\ IsSeq(core.agents) /\ trouble \in Nat
      /\ \A a \in DOMAIN core.agents :
           DOMAIN core.agents[a] = {"roles", "on"} /\ DOMAIN core.agents[a].roles = Role
  BY DEF CoreShape
<1>4. CASE m.type = "provider"
  <2> DEFINE agents == [a \in DOMAIN core.agents |->
                          IF a \in heard THEN [core.agents[a] EXCEPT !.roles[m.role] = m.rs] ELSE core.agents[a]]
             defaults == [core.defaults EXCEPT ![m.role] = m.rs]
  <2>1. core' = [core EXCEPT !.inbox = Tail(box), !.defaults = defaults, !.agents = agents]
    BY <1>1, <1>3, <1>4 DEF TakesProvider
  <2>2. /\ DOMAIN agents = DOMAIN core.agents /\ agents = [a \in DOMAIN core.agents |-> agents[a]]
        /\ DOMAIN defaults = Role
    BY <1>3
  <2>3. ASSUME NEW a \in DOMAIN core.agents
        PROVE  DOMAIN agents[a] = {"roles", "on"} /\ DOMAIN agents[a].roles = Role
    BY <1>3
  <2>4. ASSUME NEW a \in DOMAIN core.agents, heard = DOMAIN core.agents
        PROVE  agents[a].roles = [core.agents[a].roles EXCEPT ![m.role] = m.rs]
    BY <1>3, <2>4
  <2>5. defaults = [core.defaults EXCEPT ![m.role] = m.rs]
    OBVIOUS
  <2> HIDE DEF agents, defaults
  <2>6. IsSeq(agents)
    BY <1>3, <2>2, ChangedSeq
  <2>7. /\ DOMAIN core' = {"inbox", "defaults", "agents"} /\ core'.inbox = Tail(box)
        /\ core'.defaults = defaults /\ core'.agents = agents
    BY <1>3, <2>1
  <2>8. CoreShape'
    BY <1>2, <1>3, <2>2, <2>3, <2>6, <2>7 DEF CoreShape
  <2>9. heard = DOMAIN core.agents => Takes(m)
    BY <1>4, <2>2, <2>4, <2>5, <2>7 DEF Takes
  <2> QED BY <1>1, <1>2, <2>8, <2>9 DEF m
<1>5. CASE m.type = "observer"
  <2> DEFINE agents == [a \in DOMAIN core.agents |->
                          IF a \in heard THEN [core.agents[a] EXCEPT !.on = m.on] ELSE core.agents[a]]
  <2>1. core' = [core EXCEPT !.inbox = Tail(box), !.agents = agents]
    BY <1>1, <1>3, <1>5 DEF TakesSwitch
  <2>2. DOMAIN agents = DOMAIN core.agents /\ agents = [a \in DOMAIN core.agents |-> agents[a]]
    OBVIOUS
  <2>3. ASSUME NEW a \in DOMAIN core.agents
        PROVE  DOMAIN agents[a] = {"roles", "on"} /\ agents[a].roles = core.agents[a].roles
    BY <1>3
  <2> HIDE DEF agents
  <2>4. IsSeq(agents)
    BY <1>3, <2>2, ChangedSeq
  <2>5. /\ DOMAIN core' = {"inbox", "defaults", "agents"} /\ core'.inbox = Tail(box)
        /\ core'.defaults = core.defaults /\ core'.agents = agents
    BY <1>3, <2>1
  <2>6. CoreShape'
    BY <1>2, <1>3, <2>2, <2>3, <2>4, <2>5 DEF CoreShape
  <2>7. Takes(m)
    BY <1>5, <2>2, <2>3, <2>5 DEF Takes
  <2> QED BY <1>1, <1>2, <2>6, <2>7 DEF m
<1>6. CASE m.type \notin {"provider", "observer"}
  <2> DEFINE new == [roles |-> core.defaults, on |-> FALSE]
             agents == Append(core.agents, new)
  <2>1. core' = [core EXCEPT !.inbox = Tail(box), !.agents = agents]
    BY <1>1, <1>3, <1>6 DEF Spawned
  <2>2. DOMAIN new = {"roles", "on"} /\ new.roles = core.defaults
    OBVIOUS
  <2> HIDE DEF new
  <2>3. /\ IsSeq(agents) /\ DOMAIN agents = 1 .. Len(core.agents) + 1
        /\ \A j \in DOMAIN core.agents : j \in 1 .. Len(core.agents) /\ agents[j] = core.agents[j]
        /\ agents[Len(core.agents) + 1] = new /\ DOMAIN core.agents = 1 .. Len(core.agents)
        /\ Len(core.agents) \in Nat
    BY <1>3, AppendOf, SeqDomain
  <2> HIDE DEF agents
  <2>4. ASSUME NEW a \in DOMAIN agents PROVE  (a \in DOMAIN core.agents /\ agents[a] = core.agents[a]) \/ agents[a] = new
    BY <2>3
  <2>5. /\ DOMAIN core' = {"inbox", "defaults", "agents"} /\ core'.inbox = Tail(box)
        /\ core'.defaults = core.defaults /\ core'.agents = agents
    BY <1>3, <2>1
  <2>6. CoreShape'
    BY <1>2, <1>3, <2>2, <2>3, <2>4, <2>5 DEF CoreShape
  <2>7. Takes(m)
    BY <1>6, <2>2, <2>4, <2>5 DEF Takes
  <2> QED BY <1>1, <1>2, <2>6, <2>7 DEF m
<1> QED BY <1>4, <1>5, <1>6

-----------------------------------------------------------------------------
(* A writer that ran alone brings the settings everywhere.                 *)

\* The writers are the old ones, at place f.
WritersStay(f) ==
  /\ \A j \in DOMAIN threads' :
       Writes(threads'[j]) => f[j] \in DOMAIN threads /\ threads'[j] = threads[f[j]]
  /\ \A j, k \in DOMAIN threads' : Writes(threads'[j]) /\ Writes(threads'[k]) /\ f[j] = f[k] => j = k
  /\ \A k \in DOMAIN threads : Writes(threads[k]) => \E j \in DOMAIN threads' : threads'[j] = threads[k]

LEMMA AgreeStays ==
  ASSUME AgreeInv, NEW f, WritersStay(f), UNCHANGED <<file, gateway>>, calm' => calm,
         calm' /\ InCore(file) => InCore(file)'
  PROVE  AgreeInv'
<1>1. ASSUME NEW j \in DOMAIN threads', Writes(threads'[j])
      PROVE  f[j] \in Writers /\ threads'[j] = threads[f[j]]
  BY <1>1 DEF WritersStay, Writes, Writers
<1>2. Writers' = {} => Writers = {}
  BY DEF WritersStay, Writes, Writers
<1>3. (\A i \in Writers' : ~IsSave(threads'[i])) => \A i \in Writers : ~IsSave(threads[i])
  BY DEF WritersStay, Writes, Writers, IsSave
<1>4. \A j \in Writers' : j \in DOMAIN threads' /\ Writes(threads'[j])
  BY DEF Writers, Writes
<1>5. \A j \in DOMAIN threads' : threads'[j].kind = "push" => Writes(threads'[j])
  BY DEF Writes
<1>6. DOMAIN gateway' = ToSet(Listed) \X Role
  BY DEF AgreeInv
<1>7. \A i \in DOMAIN threads' : threads'[i].kind = "push" /\ ~threads'[i].read => threads'[i].next = 1
  BY <1>1, <1>5 DEF AgreeInv, Writers
<1>8. ASSUME calm'
      PROVE  /\ \A i, j \in Writers' : i = j
             /\ Writers' = {} => InGateway(file, Len(Roles) + 1)'
             /\ (\A i \in Writers' : ~IsSave(threads'[i])) => InCore(file)'
             /\ \A i \in Writers' :
                  /\ IsSave(threads'[i]) => ~threads'[i].told
                  /\ threads'[i].kind = "push" /\ threads'[i].read => threads'[i].all = file'
                  /\ InGateway(threads[i].all, threads[i].next)'
  <2>1. /\ \A i, j \in Writers : i = j
        /\ Writers = {} => InGateway(file, Len(Roles) + 1)
        /\ (\A i \in Writers : ~IsSave(threads[i])) => InCore(file)
        /\ \A i \in Writers :
             /\ IsSave(threads[i]) => ~threads[i].told
             /\ threads[i].kind = "push" /\ threads[i].read => threads[i].all = file
             /\ InGateway(threads[i].all, threads[i].next)
    BY <1>8 DEF AgreeInv
  <2>2. \A i, j \in Writers' : i = j
    BY <1>1, <1>4, <2>1 DEF WritersStay
  <2>3. Writers' = {} => InGateway(file, Len(Roles) + 1)'
    BY <1>2, <2>1 DEF InGateway
  <2>4. (\A i \in Writers' : ~IsSave(threads'[i])) => InCore(file)'
    BY <1>3, <1>8, <2>1
  <2>5. ASSUME NEW i \in Writers'
        PROVE  /\ IsSave(threads'[i]) => ~threads'[i].told
               /\ threads'[i].kind = "push" /\ threads'[i].read => threads'[i].all = file'
               /\ InGateway(threads[i].all, threads[i].next)'
    <3>1. threads'[i] = threads[f[i]] /\ f[i] \in Writers
      BY <1>1, <1>4
    <3>2. InGateway(threads[i].all, threads[i].next)'
      BY <2>1, <3>1 DEF InGateway
    <3> QED BY <2>1, <3>1, <3>2
  <2> QED BY <2>2, <2>3, <2>4, <2>5
<1> QED BY <1>6, <1>7, <1>8 DEF AgreeInv, IsSave

LEMMA StayAll == ASSUME UNCHANGED threads PROVE \E f : WritersStay(f)
<1> DEFINE f == [j \in DOMAIN threads |-> j]
<1>1. \A j \in DOMAIN threads : f[j] = j
  OBVIOUS
<1> HIDE DEF f
<1> QED BY <1>1 DEF WritersStay

LEMMA StayAfterEnd ==
  ASSUME ShapeInv, NEW i \in DOMAIN threads, ThreadEnds(i), ~Writes(threads[i])
  PROVE  \E f : WritersStay(f)
<1>1. PICK f :
        /\ \A j \in DOMAIN threads' : f[j] \in DOMAIN threads /\ threads'[j] = threads[f[j]] /\ f[j] # i
        /\ \A j, k \in DOMAIN threads' : f[j] = f[k] => j = k
  BY EndMap
<1>2. ASSUME NEW k \in DOMAIN threads, Writes(threads[k]) PROVE \E j \in DOMAIN threads' : threads'[j] = threads[k]
  <2>1. k # i
    BY <1>2
  <2> QED BY <2>1, StaysIn DEF ShapeInv, ThreadEnds
<1> QED BY <1>1, <1>2 DEF WritersStay

LEMMA StayAfterUpdate ==
  ASSUME ShapeInv, NEW i \in DOMAIN threads, NEW v, threads' = [threads EXCEPT ![i] = v],
         ~Writes(threads[i]), ~Writes(v)
  PROVE  \E f : WritersStay(f)
<1> DEFINE f == [j \in DOMAIN threads |-> j]
<1>1. \A j \in DOMAIN threads : f[j] = j
  OBVIOUS
<1>2. /\ DOMAIN threads' = DOMAIN threads /\ threads'[i] = v
      /\ \A j \in DOMAIN threads \ {i} : threads'[j] = threads[j]
  BY UpdateOf DEF ShapeInv
<1> HIDE DEF f
<1> QED BY <1>1, <1>2 DEF WritersStay

LEMMA StayAfterStart ==
  ASSUME ShapeInv, NEW new, IsSeq(new), threads' = threads \o new, \A j \in DOMAIN new : ~Writes(new[j])
  PROVE  \E f : WritersStay(f)
<1> DEFINE f == [j \in DOMAIN threads |-> j]
<1>1. \A j \in DOMAIN threads : f[j] = j
  OBVIOUS
<1> HIDE DEF f
<1>2. IsSeq(threads)
  BY DEF ShapeInv
<1>3. /\ \A j \in DOMAIN threads : j \in DOMAIN threads' /\ threads'[j] = threads[j]
      /\ \A j \in DOMAIN threads' : j \in DOMAIN threads \/ \E k \in DOMAIN new : threads'[j] = new[k]
  <2>1. /\ DOMAIN threads' = 1 .. Len(threads) + Len(new)
        /\ \A j \in DOMAIN threads : threads'[j] = threads[j]
        /\ \A j \in DOMAIN new : threads'[Len(threads) + j] = new[j]
        /\ Len(threads) \in Nat /\ DOMAIN threads = 1 .. Len(threads)
        /\ Len(new) \in Nat /\ DOMAIN new = 1 .. Len(new)
    BY <1>2, ConcatOf, SeqDomain
  <2>2. ASSUME NEW j \in DOMAIN threads', j \notin DOMAIN threads PROVE \E k \in DOMAIN new : threads'[j] = new[k]
    <3>1. j - Len(threads) \in DOMAIN new /\ Len(threads) + (j - Len(threads)) = j
      BY <2>1, <2>2
    <3>2. threads'[Len(threads) + (j - Len(threads))] = new[j - Len(threads)]
      BY <2>1, <3>1
    <3> QED BY <3>1, <3>2
  <2> QED BY <2>1, <2>2
<1>4. ASSUME NEW j \in DOMAIN threads', Writes(threads'[j]) PROVE j \in DOMAIN threads
  BY <1>3, <1>4
<1>5. \A j \in DOMAIN threads' : Writes(threads'[j]) => f[j] \in DOMAIN threads /\ threads'[j] = threads[f[j]]
  BY <1>1, <1>3, <1>4
<1>6. \A j, k \in DOMAIN threads' : Writes(threads'[j]) /\ Writes(threads'[k]) /\ f[j] = f[k] => j = k
  BY <1>1, <1>4
<1>7. \A k \in DOMAIN threads : Writes(threads[k]) => \E j \in DOMAIN threads' : threads'[j] = threads[k]
  BY <1>3
<1> QED BY <1>5, <1>6, <1>7 DEF WritersStay

AgreeAll == DialogInv /\ CoreShape /\ AgreeInv

\* What no step of the dialog and of its queries touches.
Apart == UNCHANGED <<file, gateway, core, trouble>>

LEMMA ApartKeeps ==
  ASSUME CoreShape, UNCHANGED <<file, core>>, trouble' \in Nat
  PROVE  CoreShape' /\ (InCore(file) => InCore(file)')
BY DEF CoreShape, InCore, Arrived, Coming, IsFor

LEMMA AgreeKey == ASSUME AgreeAll, Key PROVE CoreShape' /\ AgreeInv'
<1>1. dlg.open /\ IsDialog(dlg) /\ ~dlg.loading /\ ~dlg.saving /\ IsSeq(threads) /\ ShapeInv
  BY DEF AgreeAll, DialogInv, ShapeInv, Key
<1>2. PICK e \in KeyIn(dlg) :
        /\ dlg' = e.dlg /\ threads' = threads \o e.start
        /\ calm' = IF \E i \in DOMAIN e.start : IsSave(e.start[i]) THEN Writers = {} ELSE calm
  BY DEF Key, Starts
<1>3. UNCHANGED <<file, gateway, core, trouble>> /\ trouble \in Nat /\ CoreShape /\ AgreeInv
  BY DEF Key, AgreeAll, CoreShape
<1>4. CoreShape' /\ (InCore(file) => InCore(file)')
  BY <1>3, ApartKeeps
<1>5. Leads(dlg, e)
  BY <1>1, KeyLeads
<1>6. ASSUME IsSeq(e.start), \A j \in DOMAIN e.start : ~Writes(e.start[j]) PROVE AgreeInv'
  <2>1. calm' = calm
    BY <1>2, <1>6 DEF Writes, IsSave
  <2>2. PICK f : WritersStay(f)
    BY <1>1, <1>2, <1>6, StayAfterStart
  <2> QED BY <1>3, <1>4, <2>1, <2>2, AgreeStays
<1>7. CASE Rests(dlg, e)
  <2>1. IsSeq(e.start) /\ DOMAIN e.start = {}
    BY <1>7, NoThread DEF Rests
  <2>2. \A j \in DOMAIN e.start : ~Writes(e.start[j])
    BY <2>1
  <2> QED BY <1>4, <1>6, <2>1, <2>2
<1>8. CASE AsksFor(dlg, e)
  <2>1. PICK rs : e.start = <<FieldsThread(e.dlg, rs)>>
    BY <1>8 DEF AsksFor
  <2>2. ~Writes(FieldsThread(e.dlg, rs))
    BY DEF FieldsThread, Writes
  <2>3. IsSeq(e.start) /\ DOMAIN e.start = {1} /\ e.start[1] = FieldsThread(e.dlg, rs)
    BY <2>1, OneThread
  <2>4. \A j \in DOMAIN e.start : ~Writes(e.start[j])
    BY <2>2, <2>3
  <2> QED BY <1>4, <1>6, <2>3, <2>4
<1>9. CASE Saves(dlg, e)
  <2> DEFINE t == SaveThread(e.dlg)
             new == e.start
  <2>1. IsSave(t) /\ Writes(t) /\ ~t.told /\ t.next = 1 /\ t.kind # "push"
    BY DEF SaveThread, IsSave, Writes
  <2>2. IsSeq(new) /\ DOMAIN new = {1} /\ new[1] = t
    BY <1>9, OneThread DEF Saves
  <2>3. calm' = (Writers = {})
    BY <1>2, <2>1, <2>2
  <2>4. threads' = threads \o new
    BY <1>2
  <2> HIDE DEF t, new
  <2>5. PICK n : /\ DOMAIN threads' = DOMAIN threads \cup {n} /\ n \notin DOMAIN threads
                 /\ \A j \in DOMAIN threads : threads'[j] = threads[j]
                 /\ threads'[n] = t
    BY <1>1, <2>2, <2>4, OneMore
  <2>6. DOMAIN gateway' = ToSet(Listed) \X Role
        /\ \A i \in DOMAIN threads' : (threads'[i].kind = "push" /\ ~threads'[i].read) => threads'[i].next = 1
    BY <1>3, <2>1, <2>5 DEF AgreeInv
  <2>7. ASSUME calm' PROVE Writers' = {n}
    BY <2>1, <2>3, <2>5, <2>7 DEF Writers, Writes
  <2>8. InGateway(threads[n].all, threads[n].next)'
    BY <2>1, <2>5 DEF InGateway
  <2>9. IsSave(threads'[n]) /\ ~threads'[n].told /\ threads'[n].kind # "push"
    BY <2>1, <2>5
  <2>10. calm' => /\ \A i, j \in Writers' : i = j
                  /\ Writers' # {}
                  /\ ~\A i \in Writers' : ~IsSave(threads'[i])
                  /\ \A i \in Writers' : i = n
    BY <2>7, <2>9
  <2> QED BY <1>4, <2>6, <2>8, <2>9, <2>10 DEF AgreeInv, IsSave, InGateway
<1> QED BY <1>4, <1>5, <1>7, <1>8, <1>9 DEF Leads

LEMMA AgreeView ==
  ASSUME AgreeAll, View \/ Esc \/ UNCHANGED settingsVars PROVE CoreShape' /\ AgreeInv'
<1>1. UNCHANGED <<file, gateway, core, threads, trouble, calm>> /\ CoreShape /\ AgreeInv /\ trouble \in Nat
  BY DEF View, Esc, settingsVars, AgreeAll, CoreShape
<1>2. PICK f : WritersStay(f)
  BY <1>1, StayAll
<1>3. CoreShape' /\ (InCore(file) => InCore(file)')
  BY <1>1, ApartKeeps
<1> QED BY <1>1, <1>2, <1>3, AgreeStays

LEMMA AgreeOpen == ASSUME AgreeAll, Open PROVE CoreShape' /\ AgreeInv'
<1> DEFINE t == [kind |-> "initial", from |-> opened', rs |-> NoRole, read |-> FALSE]
           new == <<t>>
<1>1. threads' = threads \o new /\ ~Writes(t) /\ ~IsSave(t)
  BY DEF Open, Starts, Writes, IsSave
<1>2. calm' = IF \E i \in DOMAIN new : IsSave(new[i]) THEN Writers = {} ELSE calm
  BY DEF Open, Starts
<1>3. UNCHANGED <<file, gateway, core, trouble>> /\ trouble \in Nat /\ CoreShape /\ AgreeInv /\ ShapeInv
  BY DEF Open, AgreeAll, CoreShape, DialogInv
<1> HIDE DEF t
<1>4. IsSeq(new) /\ DOMAIN new = {1} /\ new[1] = t
  BY OneThread
<1> HIDE DEF new
<1>5. calm' = calm /\ \A j \in DOMAIN new : ~Writes(new[j])
  BY <1>1, <1>2, <1>4
<1>6. PICK f : WritersStay(f)
  BY <1>1, <1>3, <1>4, <1>5, StayAfterStart
<1>7. CoreShape' /\ (InCore(file) => InCore(file)')
  BY <1>3, ApartKeeps
<1> QED BY <1>3, <1>5, <1>6, <1>7, AgreeStays

LEMMA AgreeReadFile == ASSUME AgreeAll, NEW i \in DOMAIN threads, ReadFile(i) PROVE CoreShape' /\ AgreeInv'
<1> DEFINE v == [threads[i] EXCEPT !.read = TRUE, !.rs = file.roles[Roles[1]]]
<1>1. /\ threads[i].kind = "initial" /\ UNCHANGED <<file, gateway, core, trouble, calm>>
      /\ ShapeInv /\ IsThread(threads[i]) /\ CoreShape /\ AgreeInv /\ trouble \in Nat
  BY DEF ReadFile, AgreeAll, DialogInv, ShapeInv, CoreShape
<1>2. threads' = [threads EXCEPT ![i] = v]
  BY <1>1 DEF ReadFile, ShapeInv
<1>3. ~Writes(v) /\ ~Writes(threads[i])
  BY <1>1 DEF IsThread, ThreadFields, Writes
<1> HIDE DEF v
<1>4. PICK f : WritersStay(f)
  BY <1>1, <1>2, <1>3, StayAfterUpdate
<1>5. CoreShape' /\ (InCore(file) => InCore(file)')
  BY <1>1, ApartKeeps
<1> QED BY <1>1, <1>4, <1>5, AgreeStays

LEMMA AgreeAnswer ==
  ASSUME AgreeAll, NEW i \in DOMAIN threads, InitialLoad(i) \/ ProviderChanged(i) PROVE CoreShape' /\ AgreeInv'
<1>1. /\ ThreadEnds(i) /\ ~Writes(threads[i]) /\ UNCHANGED <<file, gateway, core, calm>>
      /\ ShapeInv /\ CoreShape /\ AgreeInv /\ trouble \in Nat
  BY DEF InitialLoad, ProviderChanged, Writes, AgreeAll, DialogInv, CoreShape
<1>2. PICK outcome : Failing(outcome)
  BY DEF InitialLoad, ProviderChanged
<1>3. trouble' \in Nat
  BY <1>1, <1>2 DEF Failing
<1>4. PICK f : WritersStay(f)
  BY <1>1, StayAfterEnd
<1>5. CoreShape' /\ (InCore(file) => InCore(file)')
  BY <1>1, <1>3, ApartKeeps
<1> QED BY <1>1, <1>4, <1>5, AgreeStays

LEMMA AgreeNewAgent == ASSUME AgreeAll, NewAgent PROVE CoreShape' /\ AgreeInv'
<1> DEFINE m == [type |-> "spawn"]
           all == file
<1>1. /\ Sent(Append(ProviderMessages(all), m)) /\ UNCHANGED <<file, gateway, threads, calm>>
      /\ CoreShape /\ AgreeInv
  BY DEF NewAgent, AgreeAll
<1>2. m.type # "provider"
  OBVIOUS
<1> HIDE DEF m
<1>3. /\ CoreShape'
      /\ InCore(all) =>
           \A r \in Role : Complete(all.roles[r]) => (Arrived(r, all.roles[r])' \/ Coming(r, all.roles[r])')
  BY <1>1, <1>2, SentKeeps
<1>4. InCore(file) => InCore(file)'
  BY <1>1, <1>3 DEF InCore, Arrived, Coming
<1>5. PICK f : WritersStay(f)
  BY <1>1, StayAll
<1> QED BY <1>1, <1>3, <1>4, <1>5, AgreeStays

LEMMA AgreeTakeMessage == ASSUME AgreeAll, TakeMessage PROVE CoreShape' /\ AgreeInv'
<1>1. UNCHANGED <<file, gateway, threads>> /\ CoreShape /\ AgreeInv
  BY DEF TakeMessage, AgreeAll
<1>2. /\ CoreShape'
      /\ calm' => calm /\ core.inbox # <<>> /\ Takes(Head(core.inbox))
  BY <1>1, TakeKeeps
<1>3. ASSUME calm', InCore(file) PROVE InCore(file)'
  <2> SUFFICES ASSUME NEW r \in Role, Complete(file.roles[r])
               PROVE  Arrived(r, file.roles[r])' \/ Coming(r, file.roles[r])'
    BY <1>1 DEF InCore
  <2> DEFINE rs == file.roles[r]
  <2>1. Arrived(r, rs) \/ Coming(r, rs)
    BY <1>3 DEF InCore
  <2>2. (Arrived(r, rs) \/ Coming(r, rs))'
    <3>1. UNCHANGED rs
      BY <1>1
    <3> HIDE DEF rs
    <3> QED BY <1>1, <1>2, <1>3, <2>1, <3>1, TakesKeeps DEF Arrived, Coming
  <2> QED BY <2>2
<1>4. PICK f : WritersStay(f)
  BY <1>1, StayAll
<1> QED BY <1>1, <1>2, <1>3, <1>4, AgreeStays

\* What a save or the push at the start brings to the gateway.
LEMMA PushesNext ==
  ASSUME DOMAIN gateway = ToSet(Listed) \X Role, NEW t, t.next \in 1 .. Len(Roles) + 1, Waiting(t) # {},
         InGateway(t.all, t.next), Pushes(t, Roles[Min(Waiting(t))]), NEW all, all = t.all
  PROVE  /\ DOMAIN gateway' = ToSet(Listed) \X Role
         /\ \A k \in 1 .. Min(Waiting(t)) :
              LET rs == all.roles[Roles[k]] IN
              rs.provider \in ToSet(Listed) => gateway'[<<rs.provider, Roles[k]>>] = rs
<1> DEFINE n == Min(Waiting(t))
           now == all.roles[Roles[n]]
<1>1. /\ n \in t.next .. Len(Roles) /\ n \in DOMAIN Roles /\ Len(Roles) \in Nat
      /\ \A k \in t.next .. n - 1 : all.roles[Roles[k]].provider = None
      /\ DOMAIN Roles = 1 .. Len(Roles)
  BY NextOf, RolesAre
<1>2. gateway' = [gateway EXCEPT ![<<now.provider, Roles[n]>>] = now]
  BY DEF Pushes, Pushed
<1> HIDE DEF n
<1>3. \A k \in 1 .. Len(Roles) : Roles[k] \in Role /\ (Roles[k] = Roles[n] => k = n)
  BY <1>1, RolesAre, SettingsAssumption DEF IsInjective
<1> SUFFICES ASSUME NEW k \in 1 .. n, all.roles[Roles[k]].provider \in ToSet(Listed)
             PROVE  gateway'[<<all.roles[Roles[k]].provider, Roles[k]>>] = all.roles[Roles[k]]
  BY <1>2 DEF n
<1> DEFINE rs == all.roles[Roles[k]]
<1>4. k \in 1 .. Len(Roles) /\ <<rs.provider, Roles[k]>> \in DOMAIN gateway
  BY <1>1, <1>3
<1>5. CASE k = n
  BY <1>2, <1>4, <1>5
<1>6. CASE k # n
  <2>1. Roles[k] # Roles[n]
    BY <1>3, <1>4, <1>6
  <2>2. gateway'[<<rs.provider, Roles[k]>>] = gateway[<<rs.provider, Roles[k]>>]
    BY <1>2, <1>4, <2>1
  <2>3. k \in 1 .. t.next - 1
    <3>1. k \notin t.next .. n - 1
      BY <1>1, SettingsAssumption
    <3> QED BY <1>1, <1>6, <3>1
  <2> QED BY <2>2, <2>3 DEF InGateway
<1> QED BY <1>5, <1>6

\* A writer that has no role left has brought all of them.
LEMMA AllInGateway ==
  ASSUME NEW t, t.next \in 1 .. Len(Roles) + 1, Waiting(t) = {}, InGateway(t.all, t.next)
  PROVE  \A k \in 1 .. Len(Roles) :
           LET rs == t.all.roles[Roles[k]] IN
           rs.provider \in ToSet(Listed) => gateway[<<rs.provider, Roles[k]>>] = rs
<1>1. Len(Roles) \in Nat
  BY RolesAre
<1>2. \A k \in t.next .. Len(Roles) : t.all.roles[Roles[k]].provider = None
  BY DEF Waiting
<1> SUFFICES ASSUME NEW k \in 1 .. Len(Roles), t.all.roles[Roles[k]].provider \in ToSet(Listed)
             PROVE  gateway[<<t.all.roles[Roles[k]].provider, Roles[k]>>] = t.all.roles[Roles[k]]
  OBVIOUS
<1>3. k \notin t.next .. Len(Roles)
  BY <1>2, SettingsAssumption
<1>4. k \in 1 .. t.next - 1
  BY <1>1, <1>3
<1> QED BY <1>4 DEF InGateway

\* The i-th thread writes and goes on as v.
LEMMA AgreeGoesOn ==
  ASSUME AgreeAll, NEW i \in DOMAIN threads, Writes(threads[i]), NEW v, threads' = [threads EXCEPT ![i] = v],
         v.kind = threads[i].kind, v.kind = "push" => v.read, UNCHANGED <<file, core>>,
         DOMAIN gateway' = ToSet(Listed) \X Role,
         calm' => /\ calm
                  /\ IsSave(v) => ~v.told
                  /\ v.kind = "push" => v.all = file
                  /\ \A k \in 1 .. v.next - 1 :
                       LET rs == v.all.roles[Roles[k]] IN
                       rs.provider \in ToSet(Listed) => gateway'[<<rs.provider, Roles[k]>>] = rs
  PROVE  AgreeInv'
<1>1. /\ DOMAIN threads' = DOMAIN threads /\ threads'[i] = v
      /\ \A j \in DOMAIN threads \ {i} : threads'[j] = threads[j]
  BY UpdateOf DEF AgreeAll, DialogInv, ShapeInv
<1>2. Writers' = Writers /\ i \in Writers
  <2>1. \A j \in DOMAIN threads : threads'[j].kind = threads[j].kind
    BY <1>1
  <2> QED BY <1>1, <2>1 DEF Writers, Writes
<1>3. AgreeInv
  BY DEF AgreeAll
<1>4. \A j \in DOMAIN threads' : threads'[j].kind = "push" /\ ~threads'[j].read => threads'[j].next = 1
  BY <1>1, <1>3 DEF AgreeInv
<1>5. ASSUME calm'
      PROVE  /\ \A j, k \in Writers' : j = k
             /\ Writers' # {}
             /\ (\A j \in Writers' : ~IsSave(threads'[j])) => InCore(file)'
             /\ \A j \in Writers' :
                  /\ IsSave(threads'[j]) => ~threads'[j].told
                  /\ threads'[j].kind = "push" /\ threads'[j].read => threads'[j].all = file'
                  /\ InGateway(threads[j].all, threads[j].next)'
  <2>1. /\ \A j, k \in Writers : j = k
        /\ (\A j \in Writers : ~IsSave(threads[j])) => InCore(file)
    BY <1>3, <1>5 DEF AgreeInv
  <2>2. \A j \in Writers' : j = i
    BY <1>2, <2>1
  <2>3. InGateway(threads[i].all, threads[i].next)'
    BY <1>1, <1>5 DEF InGateway
  <2>4. (IsSave(threads'[i]) => ~threads'[i].told) /\ (threads'[i].kind = "push" => threads'[i].all = file')
    BY <1>1, <1>5
  <2>5. IsSave(threads'[i]) => IsSave(threads[i])
    BY <1>1 DEF IsSave
  <2>6. IsSave(threads[i]) => IsSave(threads'[i])
    BY <1>1 DEF IsSave
  <2>7. ASSUME \A j \in Writers' : ~IsSave(threads'[j]) PROVE InCore(file)'
    <3>1. \A j \in Writers : ~IsSave(threads[j])
      BY <1>2, <2>1, <2>6, <2>7
    <3>2. InCore(file)
      BY <2>1, <3>1
    <3> QED BY <3>2 DEF InCore, Arrived, Coming, IsFor
  <2>8. (\A j \in Writers' : ~IsSave(threads'[j])) => InCore(file)'
    BY <2>7
  <2>9. \A j, k \in Writers' : j = k
    BY <2>2
  <2>10. Writers' # {}
    BY <1>2
  <2>11. ASSUME NEW j \in Writers'
         PROVE  /\ IsSave(threads'[j]) => ~threads'[j].told
                /\ threads'[j].kind = "push" /\ threads'[j].read => threads'[j].all = file'
                /\ InGateway(threads[j].all, threads[j].next)'
    <3>1. j = i
      BY <2>2
    <3> QED BY <2>3, <2>4, <3>1
  <2> QED BY <2>8, <2>9, <2>10, <2>11
<1> QED BY <1>4, <1>5 DEF AgreeInv, IsSave

\* The i-th thread has written all: it ends.
LEMMA AgreeEnds ==
  ASSUME AgreeAll, NEW i \in DOMAIN threads, Writes(threads[i]), ThreadEnds(i), UNCHANGED gateway,
         calm' => /\ calm /\ InCore(file)'
                  /\ \A k \in 1 .. Len(Roles) :
                       LET rs == file'.roles[Roles[k]] IN
                       rs.provider \in ToSet(Listed) => gateway[<<rs.provider, Roles[k]>>] = rs
  PROVE  AgreeInv'
<1>1. ShapeInv /\ AgreeInv /\ i \in Writers
  BY DEF AgreeAll, DialogInv, Writers, Writes
<1>2. PICK f :
        /\ \A j \in DOMAIN threads' : f[j] \in DOMAIN threads /\ threads'[j] = threads[f[j]] /\ f[j] # i
        /\ \A j, k \in DOMAIN threads' : f[j] = f[k] => j = k
  BY <1>1, EndMap
<1>3. \A j \in Writers' : f[j] \in Writers /\ f[j] # i
  BY <1>2 DEF Writers
<1>4. ASSUME calm' PROVE Writers' = {}
  BY <1>1, <1>3, <1>4 DEF AgreeInv
<1>5. \A j \in DOMAIN threads' : threads'[j].kind = "push" /\ ~threads'[j].read => threads'[j].next = 1
  BY <1>1, <1>2 DEF AgreeInv
<1>6. DOMAIN gateway' = ToSet(Listed) \X Role
  BY <1>1 DEF AgreeInv
<1>7. ASSUME calm' PROVE InGateway(file, Len(Roles) + 1)'
  <2>1. Len(Roles) + 1 - 1 = Len(Roles)
    BY RolesAre
  <2> QED BY <1>7, <2>1 DEF InGateway
<1> QED BY <1>4, <1>5, <1>6, <1>7 DEF AgreeInv

LEMMA AgreePushLoads ==
  ASSUME AgreeAll, NEW i \in DOMAIN threads, PushLoads(i) PROVE CoreShape' /\ AgreeInv'
<1> DEFINE v == [threads[i] EXCEPT !.read = TRUE, !.all = file]
<1>1. /\ threads[i].kind = "push" /\ ~threads[i].read /\ UNCHANGED <<file, gateway, core, trouble, calm>>
      /\ ShapeInv /\ IsThread(threads[i]) /\ CoreShape /\ AgreeInv /\ trouble \in Nat
  BY DEF PushLoads, AgreeAll, DialogInv, ShapeInv, CoreShape
<1>2. threads' = [threads EXCEPT ![i] = v]
  BY <1>1 DEF PushLoads, ShapeInv
<1>3. v.kind = "push" /\ v.read = TRUE /\ v.all = file /\ v.next = threads[i].next
  BY <1>1 DEF IsThread, ThreadFields
<1>4. threads[i].next = 1
  BY <1>1 DEF AgreeInv
<1> HIDE DEF v
<1>5. CoreShape'
  BY <1>1, ApartKeeps
<1>6. Writes(threads[i]) /\ ~IsSave(v) /\ v.next = 1
  BY <1>1, <1>3, <1>4 DEF Writes, IsSave
<1>7. DOMAIN gateway' = ToSet(Listed) \X Role
  BY <1>1 DEF AgreeInv
<1>8. calm' => /\ calm
               /\ IsSave(v) => ~v.told
               /\ v.kind = "push" => v.all = file
               /\ \A k \in 1 .. v.next - 1 :
                    LET rs == v.all.roles[Roles[k]] IN
                    rs.provider \in ToSet(Listed) => gateway'[<<rs.provider, Roles[k]>>] = rs
  BY <1>1, <1>3, <1>6
<1>9. AgreeInv'
  BY <1>1, <1>2, <1>3, <1>6, <1>7, <1>8, AgreeGoesOn
<1> QED BY <1>5, <1>9

LEMMA ThreadPushesNext ==
  ASSUME DOMAIN gateway = ToSet(Listed) \X Role, NEW i \in DOMAIN threads, threads[i].next \in 1 .. Len(Roles) + 1,
         Waiting(threads[i]) # {}, InGateway(threads[i].all, threads[i].next),
         Pushes(threads[i], Roles[Min(Waiting(threads[i]))])
  PROVE  \A k \in 1 .. Min(Waiting(threads[i])) :
           LET rs == threads[i].all.roles[Roles[k]] IN
           rs.provider \in ToSet(Listed) => gateway'[<<rs.provider, Roles[k]>>] = rs
<1> PICK one : one = threads[i]
  OBVIOUS
<1> PICK all : all = one.all
  OBVIOUS
<1>1. one.next \in 1 .. Len(Roles) + 1 /\ Waiting(one) # {} /\ InGateway(one.all, one.next)
  OBVIOUS
<1>2. Pushes(one, Roles[Min(Waiting(one))])
  OBVIOUS
<1>3. \A k \in 1 .. Min(Waiting(one)) :
        LET rs == all.roles[Roles[k]] IN
        rs.provider \in ToSet(Listed) => gateway'[<<rs.provider, Roles[k]>>] = rs
  BY <1>1, <1>2, PushesNext
<1> QED BY <1>3

\* The next role is pushed, or its push fails and the writer did not run without failure.
LEMMA AgreeRolePushed ==
  ASSUME AgreeAll, NEW i \in DOMAIN threads, Writes(threads[i]), threads[i].kind = "push" => threads[i].read,
         Waiting(threads[i]) # {}, threads' = [threads EXCEPT ![i].next = Min(Waiting(threads[i])) + 1],
         UNCHANGED <<file, core>>, calm' => calm,
         Pushes(threads[i], Roles[Min(Waiting(threads[i]))]) \/ (~calm' /\ UNCHANGED gateway)
  PROVE  AgreeInv'
<1> DEFINE t == threads[i]
           n == Min(Waiting(t))
           v == [t EXCEPT !.next = n + 1]
<1>1. /\ IsThread(t) /\ AgreeInv /\ threads' = [threads EXCEPT ![i] = v] /\ i \in Writers
      /\ t.next \in 1 .. Len(Roles) + 1
  BY DEF AgreeAll, DialogInv, ShapeInv, IsThread, Writes, Writers
<1>2. n \in 1 .. Len(Roles)
  BY <1>1, NextOf, RolesAre
<1> HIDE DEF n
<1>3. /\ v.kind = t.kind /\ v.next = n + 1 /\ v.all = t.all
      /\ t.kind = "push" => v.read = t.read
      /\ t.kind = "save" => v.told = t.told
  BY <1>1 DEF IsThread, ThreadFields, Writes
<1> HIDE DEF v
<1>4. DOMAIN gateway' = ToSet(Listed) \X Role
  BY <1>1 DEF AgreeInv, Pushes, Pushed
<1>5. ASSUME calm'
      PROVE  /\ calm
             /\ IsSave(v) => ~v.told
             /\ v.kind = "push" => v.all = file
             /\ \A k \in 1 .. v.next - 1 :
                  LET rs == v.all.roles[Roles[k]] IN
                  rs.provider \in ToSet(Listed) => gateway'[<<rs.provider, Roles[k]>>] = rs
  <2>1. /\ IsSave(t) => ~t.told
        /\ t.kind = "push" /\ t.read => t.all = file
        /\ InGateway(t.all, t.next) /\ DOMAIN gateway = ToSet(Listed) \X Role
    BY <1>1, <1>5 DEF AgreeInv
  <2>4. t.next \in 1 .. Len(Roles) + 1 /\ Waiting(t) # {} /\ Pushes(t, Roles[Min(Waiting(t))])
    BY <1>1, <1>5
  <2>6. \A k \in 1 .. Min(Waiting(threads[i])) :
          LET rs == threads[i].all.roles[Roles[k]] IN
          rs.provider \in ToSet(Listed) => gateway'[<<rs.provider, Roles[k]>>] = rs
    BY <2>1, <2>4, ThreadPushesNext
  <2>2. \A k \in 1 .. n :
          LET rs == t.all.roles[Roles[k]] IN
          rs.provider \in ToSet(Listed) => gateway'[<<rs.provider, Roles[k]>>] = rs
    BY <2>6 DEF n
  <2>3. v.next - 1 = n
    BY <1>2, <1>3
  <2> QED BY <1>3, <1>5, <2>1, <2>2, <2>3 DEF IsSave
<1> QED BY <1>1, <1>3, <1>4, <1>5, AgreeGoesOn

LEMMA AgreePushRole ==
  ASSUME AgreeAll, NEW i \in DOMAIN threads, PushRole(i) PROVE CoreShape' /\ AgreeInv'
<1> DEFINE t == threads[i]
<1>1. /\ t.kind = "push" /\ t.read /\ UNCHANGED <<file, core>> /\ Writes(t)
      /\ ShapeInv /\ IsThread(t) /\ CoreShape /\ AgreeInv /\ trouble \in Nat /\ i \in Writers
      /\ t.next \in 1 .. Len(Roles) + 1
  BY DEF PushRole, AgreeAll, DialogInv, ShapeInv, CoreShape, Writes, Writers, IsThread
<1>2. CASE Waiting(t) = {}
  <2>1. ThreadEnds(i) /\ UNCHANGED <<gateway, trouble, calm>>
    BY <1>2 DEF PushRole
  <2>2. CoreShape'
    BY <1>1, <2>1, ApartKeeps
  <2>3. ASSUME calm'
        PROVE  /\ calm /\ InCore(file)'
               /\ \A k \in 1 .. Len(Roles) :
                    LET rs == file'.roles[Roles[k]] IN
                    rs.provider \in ToSet(Listed) => gateway[<<rs.provider, Roles[k]>>] = rs
    <3>1. /\ \A j, k \in Writers : j = k
          /\ (\A j \in Writers : ~IsSave(threads[j])) => InCore(file)
          /\ t.all = file /\ InGateway(t.all, t.next)
      BY <1>1, <2>1, <2>3 DEF AgreeInv
    <3>2. InCore(file)
      BY <1>1, <3>1 DEF IsSave
    <3>3. InCore(file)'
      BY <1>1, <3>2 DEF InCore, Arrived, Coming, IsFor
    <3>4. \A k \in 1 .. Len(Roles) :
            LET rs == t.all.roles[Roles[k]] IN
            rs.provider \in ToSet(Listed) => gateway[<<rs.provider, Roles[k]>>] = rs
      BY <1>1, <1>2, <3>1, AllInGateway
    <3> QED BY <1>1, <2>1, <2>3, <3>1, <3>3, <3>4
  <2>4. AgreeInv'
    BY <1>1, <2>1, <2>3, AgreeEnds
  <2> QED BY <2>2, <2>4
<1>3. CASE Waiting(t) # {}
  <2>1. PICK outcome :
          /\ Failing(outcome)
          /\ calm' = (calm /\ outcome = "ok")
          /\ IF outcome = "ok" THEN Pushes(t, Roles[Min(Waiting(t))]) ELSE UNCHANGED gateway
    BY <1>3 DEF PushRole
  <2>2. threads' = [threads EXCEPT ![i].next = Min(Waiting(t)) + 1]
    BY <1>3 DEF PushRole
  <2>3. CoreShape'
    BY <1>1, <2>1, ApartKeeps DEF Failing
  <2>4. calm' => calm
    BY <2>1
  <2>5. Pushes(t, Roles[Min(Waiting(t))]) \/ (~calm' /\ UNCHANGED gateway)
    BY <2>1
  <2>6. AgreeInv'
    BY <1>1, <1>3, <2>2, <2>4, <2>5, AgreeRolePushed
  <2> QED BY <2>3, <2>6
<1> QED BY <1>2, <1>3

LEMMA AgreeSaveRole ==
  ASSUME AgreeAll, NEW i \in DOMAIN threads, SaveRole(i) PROVE CoreShape' /\ AgreeInv'
<1> DEFINE t == threads[i]
<1>1. /\ t.kind = "save" /\ UNCHANGED <<file, core>> /\ Writes(t) /\ Waiting(t) # {}
      /\ ShapeInv /\ IsThread(t) /\ CoreShape /\ AgreeInv /\ trouble \in Nat /\ i \in Writers
  BY DEF SaveRole, IsSave, AgreeAll, DialogInv, ShapeInv, CoreShape, Writes, Writers
<1>2. PICK outcome :
        /\ Failing(outcome)
        /\ calm' = (calm /\ outcome = "ok")
        /\ IF outcome = "ok"
           THEN /\ Pushes(t, Roles[Min(Waiting(t))])
                /\ threads' = [threads EXCEPT ![i].next = Min(Waiting(t)) + 1]
           ELSE ThreadEnds(i) /\ UNCHANGED gateway
  BY DEF SaveRole
<1>3. CoreShape'
  BY <1>1, <1>2, ApartKeeps DEF Failing
<1>4. CASE outcome = "ok"
  <2>1. Pushes(t, Roles[Min(Waiting(t))]) /\ threads' = [threads EXCEPT ![i].next = Min(Waiting(t)) + 1]
        /\ (calm' => calm)
    BY <1>2, <1>4
  <2>2. AgreeInv'
    BY <1>1, <2>1, AgreeRolePushed
  <2> QED BY <1>3, <2>2
<1>5. CASE outcome # "ok"
  <2>1. ThreadEnds(i) /\ UNCHANGED gateway /\ ~calm'
    BY <1>2, <1>5
  <2>2. AgreeInv'
    BY <1>1, <2>1, AgreeEnds
  <2> QED BY <1>3, <2>2
<1> QED BY <1>4, <1>5

LEMMA AgreeSaveFile ==
  ASSUME AgreeAll, NEW i \in DOMAIN threads, SaveFile(i) PROVE CoreShape' /\ AgreeInv'
<1> DEFINE t == threads[i]
<1>1. /\ t.kind = "save" /\ ThreadEnds(i) /\ UNCHANGED gateway /\ Writes(t) /\ Waiting(t) = {}
      /\ ShapeInv /\ IsThread(t) /\ CoreShape /\ AgreeInv /\ trouble \in Nat /\ i \in Writers
      /\ t.next \in 1 .. Len(Roles) + 1
  BY DEF SaveFile, IsSave, AgreeAll, DialogInv, ShapeInv, CoreShape, Writes, Writers, IsThread
<1>2. CASE trouble' = trouble + 1 /\ calm' = FALSE /\ UNCHANGED <<file, core>>
  <2>1. CoreShape'
    BY <1>1, <1>2, ApartKeeps
  <2>2. AgreeInv'
    BY <1>1, <1>2, AgreeEnds
  <2> QED BY <2>1, <2>2
<1>3. CASE /\ file' = t.all
           /\ IF t.told THEN UNCHANGED <<core, trouble>>
              ELSE Sent(Append(ProviderMessages(t.all), ObserverMessage(t.all)))
           /\ calm' = (calm /\ ~t.told /\ UNCHANGED trouble)
  <2> PICK all : all = t.all
    OBVIOUS
  <2> DEFINE m == ObserverMessage(all)
  <2>1. m.type # "provider"
    BY DEF ObserverMessage
  <2> HIDE DEF m
  <2>2. CASE t.told
    <3>1. UNCHANGED <<core, trouble>> /\ ~calm'
      BY <1>3, <2>2
    <3>2. CoreShape'
      BY <1>1, <3>1 DEF CoreShape
    <3>3. AgreeInv'
      BY <1>1, <3>1, AgreeEnds
    <3> QED BY <3>2, <3>3
  <2>3. CASE ~t.told
    <3>1. Sent(Append(ProviderMessages(all), m)) /\ file' = all /\ calm' = (calm /\ ~t.told /\ UNCHANGED trouble)
      BY <1>3, <2>3 DEF m
    <3>2. /\ CoreShape'
          /\ UNCHANGED trouble =>
               \A r \in Role : Complete(all.roles[r]) => (Arrived(r, all.roles[r]) \/ Coming(r, all.roles[r]))'
      BY <1>1, <2>1, <3>1, SentKeeps
    <3>3. ASSUME calm'
          PROVE  /\ calm /\ InCore(file)'
                 /\ \A k \in 1 .. Len(Roles) :
                      LET rs == file'.roles[Roles[k]] IN
                      rs.provider \in ToSet(Listed) => gateway[<<rs.provider, Roles[k]>>] = rs
      <4>1. calm /\ UNCHANGED trouble /\ file' = all
        BY <3>1, <3>3
      <4>2. InGateway(t.all, t.next)
        BY <1>1, <4>1 DEF AgreeInv
      <4>3. \A k \in 1 .. Len(Roles) :
              LET rs == t.all.roles[Roles[k]] IN
              rs.provider \in ToSet(Listed) => gateway[<<rs.provider, Roles[k]>>] = rs
        BY <1>1, <4>2, AllInGateway
      <4>4. InCore(file)'
        <5>1. \A r \in Role : Complete(all.roles[r]) => (Arrived(r, all.roles[r]) \/ Coming(r, all.roles[r]))'
          BY <3>2, <4>1
        <5> QED BY <4>1, <5>1 DEF InCore, Arrived, Coming, IsFor
      <4> QED BY <4>1, <4>3, <4>4
    <3>4. AgreeInv'
      BY <1>1, <3>3, AgreeEnds
    <3> QED BY <3>2, <3>4
  <2> QED BY <2>2, <2>3
<1> QED BY <1>2, <1>3 DEF SaveFile

LEMMA AgreeSaveTimesOut ==
  ASSUME AgreeAll, NEW i \in DOMAIN threads, SaveTimesOut(i) PROVE CoreShape' /\ AgreeInv'
<1> DEFINE v == [threads[i] EXCEPT !.told = TRUE]
<1>1. /\ threads[i].kind = "save" /\ UNCHANGED <<file, gateway, core>> /\ ~calm' /\ trouble' = trouble + 1
      /\ ShapeInv /\ IsThread(threads[i]) /\ CoreShape /\ AgreeInv /\ trouble \in Nat
  BY DEF SaveTimesOut, IsSave, AgreeAll, DialogInv, ShapeInv, CoreShape
<1>2. threads' = [threads EXCEPT ![i] = v]
  BY <1>1 DEF SaveTimesOut, ShapeInv
<1>3. v.kind = "save"
  BY <1>1 DEF IsThread, ThreadFields
<1> HIDE DEF v
<1>4. CoreShape'
  BY <1>1, ApartKeeps
<1>5. Writes(threads[i]) /\ DOMAIN gateway' = ToSet(Listed) \X Role
  BY <1>1 DEF Writes, AgreeInv
<1>6. AgreeInv'
  BY <1>1, <1>2, <1>3, <1>5, AgreeGoesOn
<1> QED BY <1>4, <1>6

LEMMA AgreeInit == ASSUME SettingsInit PROVE CoreShape /\ AgreeInv
<1> DEFINE t == [kind |-> "push", from |-> 0, all |-> file, next |-> 1, read |-> FALSE]
           box == ProviderMessages(file)
<1>1. /\ threads = <<t>> /\ trouble = 0 /\ gateway = [k \in ToSet(Listed) \X Role |-> NoRole]
      /\ core = [inbox |-> box, defaults |-> [r \in Role |-> NoRole], agents |-> <<>>]
  BY DEF SettingsInit
<1>2. /\ IsSeq(box)
      /\ \A j \in DOMAIN box : box[j].type = "provider" /\ box[j].role \in Role /\ box[j].rs = file.roles[box[j].role]
      /\ \A r \in Role : Complete(file.roles[r]) => \E j \in DOMAIN box : IsFor(box[j], r)
  BY MessagesKnown
<1> HIDE DEF box
<1>3. CoreShape
  BY <1>1, <1>2, NoThread DEF CoreShape
<1>4. InCore(file)
  <2> SUFFICES ASSUME NEW r \in Role, Complete(file.roles[r]) PROVE Coming(r, file.roles[r])
    BY DEF InCore
  <2>1. PICK j \in DOMAIN box : IsFor(box[j], r)
    BY <1>2
  <2>2. core.inbox = box
    BY <1>1
  <2>3. \A k \in DOMAIN box : IsFor(box[k], r) => box[k].rs = file.roles[r]
    BY <1>2 DEF IsFor
  <2> QED BY <2>1, <2>2, <2>3 DEF Coming
<1>5. t.kind = "push" /\ ~t.read /\ t.next = 1
  OBVIOUS
<1> HIDE DEF t
<1>6. DOMAIN threads = {1} /\ threads[1] = t
  BY <1>1, OneThread
<1>7. Writers = {1} /\ ~IsSave(threads[1])
  BY <1>5, <1>6 DEF Writers, IsSave
<1>8. InGateway(threads[1].all, threads[1].next)
  BY <1>5, <1>6 DEF InGateway
<1>9. DOMAIN gateway = ToSet(Listed) \X Role
  BY <1>1
<1> QED BY <1>3, <1>4, <1>5, <1>6, <1>7, <1>8, <1>9 DEF AgreeInv

LEMMA AgreeNext == ASSUME AgreeAll, [SettingsNext]_settingsVars PROVE AgreeAll'
<1>1. DialogInv'
  BY DialogNext DEF AgreeAll
<1>2. CASE Key \/ View \/ Esc \/ UNCHANGED settingsVars
  BY <1>1, <1>2, AgreeKey, AgreeView DEF AgreeAll
<1>3. CASE Open \/ NewAgent \/ TakeMessage
  BY <1>1, <1>3, AgreeOpen, AgreeNewAgent, AgreeTakeMessage DEF AgreeAll
<1>4. CASE Threads
  <2> PICK i \in DOMAIN threads :
        \/ ReadFile(i) \/ InitialLoad(i) \/ ProviderChanged(i)
        \/ PushLoads(i) \/ PushRole(i)
        \/ SaveRole(i) \/ SaveFile(i) \/ SaveTimesOut(i)
    BY <1>4 DEF Threads
  <2>1. CoreShape' /\ AgreeInv'
    BY AgreeReadFile, AgreeAnswer, AgreePushLoads, AgreePushRole, AgreeSaveRole, AgreeSaveFile,
       AgreeSaveTimesOut
  <2> QED BY <1>1, <2>1 DEF AgreeAll
<1> QED BY <1>2, <1>3, <1>4 DEF SettingsNext

\* After a writer that ran alone and met no failure, the gateway and di-core have what the
\* file says, for every provider the gateway lists and every complete role (settings.rs
\* push_all_to_gateway and save; main.rs, the save thread; di-core, set_provider_config).
THEOREM AllAgreeInvariance == SettingsSpec => []AllAgree
<1>1. SettingsInit => AgreeAll
  BY DialogInit, AgreeInit DEF AgreeAll
<1>2. AgreeAll => AllAgree
  <2> SUFFICES ASSUME AgreeAll, calm, Quiet, NEW r \in Role
               PROVE  LET rs == file.roles[r] IN
                      /\ rs.provider \in ToSet(Listed) => gateway[<<rs.provider, r>>] = rs
                      /\ Complete(rs) =>
                           core.defaults[r] = rs /\ \A a \in DOMAIN core.agents : core.agents[a].roles[r] = rs
    BY DEF AllAgree
  <2>1. InGateway(file, Len(Roles) + 1) /\ InCore(file)
    BY DEF AgreeAll, AgreeInv, Quiet
  <2>2. PICK k \in 1 .. Len(Roles) : Roles[k] = r
    BY RolesAre DEF Role, ToSet
  <2>3. k \in 1 .. (Len(Roles) + 1) - 1
    BY RolesAre
  <2>4. file.roles[r].provider \in ToSet(Listed) => gateway[<<file.roles[r].provider, r>>] = file.roles[r]
    BY <2>1, <2>2, <2>3 DEF InGateway
  <2>5. ~Coming(r, file.roles[r])
    BY NoThread DEF Coming, Quiet
  <2>6. Complete(file.roles[r]) => Arrived(r, file.roles[r])
    BY <2>1, <2>5 DEF InCore
  <2> QED BY <2>4, <2>6 DEF Arrived
<1> QED BY <1>1, <1>2, AgreeNext, PTL DEF SettingsSpec

-----------------------------------------------------------------------------
(* The rows above a block.                                                 *)

SumTo(rows, m, f) ==
  f = [k \in 1 .. m |-> IF k = 1 THEN 0 ELSE f[k - 1] + rows[k - 1]]

LEMMA SumsExist ==
  ASSUME NEW rows, NEW n \in Nat, Len(rows) = n PROVE \E f : SumTo(rows, n + 1, f)
<1> DEFINE Body(f, k) == IF k = 1 THEN 0 ELSE f[k - 1] + rows[k - 1]
           Partly == {m \in 0 .. n : \E f : f = [k \in 1 .. m + 1 |-> Body(f, k)]}
<1>1. 0 \in Partly
  <2> DEFINE f == [k \in 1 .. 0 + 1 |-> 0]
  <2>1. f = [k \in 1 .. 0 + 1 |-> Body(f, k)]
    BY SMT
  <2> HIDE DEF f, Body
  <2> QED BY <2>1
<1>2. ASSUME NEW m \in 1 .. n, m - 1 \in Partly PROVE m \in Partly
  <2>1. PICK g : g = [k \in 1 .. (m - 1) + 1 |-> Body(g, k)]
    BY <1>2
  <2>2. g = [k \in 1 .. m |-> Body(g, k)]
    <3>1. (m - 1) + 1 = m
      OBVIOUS
    <3> HIDE DEF Body
    <3> QED BY <2>1, <3>1
  <2> DEFINE f == [k \in 1 .. m + 1 |-> IF k = m + 1 THEN Body(g, m + 1) ELSE g[k]]
  <2>3. \A k \in 1 .. m : f[k] = g[k] /\ g[k] = Body(g, k)
    <3>1. \A k \in 1 .. m : f[k] = g[k]
      OBVIOUS
    <3> HIDE DEF f, Body
    <3> QED BY <2>2, <3>1
  <2>4. f[m + 1] = Body(g, m + 1)
    OBVIOUS
  <2>5. ASSUME NEW k \in 1 .. m + 1 PROVE f[k] = Body(f, k)
    <3>1. CASE k = 1
      <4>1. 1 \in 1 .. m
        OBVIOUS
      <4>2. f[1] = Body(g, 1)
        <5> HIDE DEF f, Body
        <5> QED BY <2>3, <4>1
      <4> HIDE DEF f
      <4> QED BY <3>1, <4>2
    <3>2. CASE k # 1
      <4>1. k - 1 \in 1 .. m
        BY <3>2
      <4>2. f[k - 1] = g[k - 1]
        BY <2>3, <4>1
      <4>3. f[k] = Body(g, k)
        <5>1. CASE k = m + 1
          BY <2>4, <5>1
        <5>2. CASE k # m + 1
          <6>1. k \in 1 .. m
            BY <5>2
          <6> QED BY <2>3, <6>1
        <5> QED BY <5>1, <5>2
      <4> HIDE DEF f
      <4> QED BY <3>2, <4>2, <4>3
    <3> QED BY <3>1, <3>2
  <2>6. f = [k \in 1 .. m + 1 |-> Body(f, k)]
    <3>1. f = [k \in 1 .. m + 1 |-> f[k]]
      OBVIOUS
    <3> HIDE DEF f, Body
    <3> QED BY <2>5, <3>1
  <2> HIDE DEF f, Body
  <2> QED BY <2>6
<1> HIDE DEF Partly
<1>3. \A m \in 0 .. n : m \in Partly
  BY <1>1, <1>2, UpTo
<1>4. n \in Partly
  BY <1>3
<1> QED BY <1>4 DEF Partly, SumTo

\* For rows that are counts: nothing is above the first block, and each adds its own.
IsRows(rows) == IsSeq(rows) /\ \A i \in DOMAIN rows : rows[i] \in Nat \ {0}

LEMMA AboveIs ==
  ASSUME NEW rows, IsRows(rows)
  PROVE  /\ \A i \in 1 .. Len(rows) + 1 : RowsAbove(rows, i) \in Nat
         /\ \A i \in 1 .. Len(rows) : RowsAbove(rows, i + 1) = RowsAbove(rows, i) + rows[i]
         /\ \A i \in 1 .. Len(rows) + 1 : RowsAbove(rows, i) <= Total(rows)
<1> DEFINE n == Len(rows)
<1>1. n \in Nat /\ DOMAIN rows = 1 .. n
  BY SeqDomain DEF IsRows
<1>2. PICK sum : SumTo(rows, n + 1, sum) /\ \A i : RowsAbove(rows, i) = sum[i]
  BY <1>1, SumsExist DEF RowsAbove, SumTo
<1>3. \A i \in 1 .. n : rows[i] \in Nat
  BY <1>1 DEF IsRows
<1>4. sum[1] = 0 /\ \A i \in 1 .. n : sum[i + 1] = sum[i] + rows[i]
  BY <1>1, <1>2 DEF SumTo
<1> HIDE DEF n
<1>5. \A i \in 1 .. n + 1 : sum[i] \in Nat
  <2> DEFINE S == {i \in 0 .. n : sum[i + 1] \in Nat}
  <2>1. 0 \in S /\ \A i \in 1 .. n : i - 1 \in S => i \in S
    BY <1>1, <1>3, <1>4
  <2>2. \A i \in 0 .. n : i \in S
    <3> HIDE DEF S
    <3> QED BY <1>1, <2>1, UpTo
  <2>3. \A i \in 1 .. n + 1 : i - 1 \in 0 .. n /\ (i - 1) + 1 = i
    BY <1>1
  <2> QED BY <2>2, <2>3
<1>6. \A i \in 1 .. n + 1 : sum[i] <= sum[n + 1]
  <2> DEFINE S == {i \in 0 .. n : sum[n + 1 - i] <= sum[n + 1]}
  <2>1. 0 \in S
    BY <1>1, <1>5
  <2>2. ASSUME NEW i \in 1 .. n, i - 1 \in S PROVE i \in S
    <3>1. n + 1 - i \in 1 .. n /\ (n + 1 - i) + 1 = n + 1 - (i - 1)
      BY <1>1
    <3>2. sum[n + 1 - (i - 1)] = sum[n + 1 - i] + rows[n + 1 - i]
      BY <1>4, <3>1
    <3>3. rows[n + 1 - i] \in Nat /\ sum[n + 1 - i] \in Nat /\ sum[n + 1] \in Nat
      BY <1>1, <1>3, <1>5, <3>1
    <3>4. sum[n + 1 - (i - 1)] <= sum[n + 1]
      BY <2>2
    <3>5. sum[n + 1 - i] <= sum[n + 1]
      BY <3>2, <3>3, <3>4
    <3>6. i \in 0 .. n
      OBVIOUS
    <3> QED BY <3>5, <3>6
  <2>3. \A i \in 0 .. n : i \in S
    <3> HIDE DEF S
    <3> QED BY <1>1, <2>1, <2>2, UpTo
  <2>4. ASSUME NEW i \in 1 .. n + 1 PROVE sum[i] <= sum[n + 1]
    <3>1. n + 1 - i \in 0 .. n /\ n + 1 - (n + 1 - i) = i
      BY <1>1
    <3> QED BY <2>3, <3>1
  <2> QED BY <2>4
<1>7. Total(rows) = sum[n + 1]
  BY <1>2 DEF Total, n
<1>8. ASSUME NEW i \in 1 .. n + 1 PROVE RowsAbove(rows, i) \in Nat /\ RowsAbove(rows, i) <= Total(rows)
  <2>1. RowsAbove(rows, i) = sum[i]
    BY <1>2
  <2> QED BY <1>5, <1>6, <1>7, <2>1
<1>9. ASSUME NEW i \in 1 .. n PROVE RowsAbove(rows, i + 1) = RowsAbove(rows, i) + rows[i]
  <2>1. RowsAbove(rows, i + 1) = sum[i + 1] /\ RowsAbove(rows, i) = sum[i]
    BY <1>2
  <2> QED BY <1>4, <2>1
<1> QED BY <1>8, <1>9 DEF n
-----------------------------------------------------------------------------
(* The cache of a tab.                                                     *)

IsBlock(b) ==
  /\ b = [at |-> b.at, kind |-> b.kind, size |-> b.size, result |-> b.result]
  /\ b.kind \in {"text", "tool", "finish"} /\ b.size \in Nat \ {0} /\ b.result \in Nat
IsTab(t) ==
  /\ DOMAIN t = {"born", "log", "streaming", "generation", "expanded", "wrapped", "pending", "ended"}
  /\ IsSeq(t.log) /\ \A i \in DOMAIN t.log : IsBlock(t.log[i])
  /\ t.generation \in Nat

\* The lines of a block before its result came.
Await(t, i, w) == Look([t EXCEPT !.log[i].result = 0], i, w)

IsCache(c) == DOMAIN c = {"width", "generation", "expanded", "wrapped", "lines", "rows"}

\* What is kept of a block is what it is, or what it was before its result came; lines of
\* such a block come with the count of that time.
FitsBlock(c, t, w, i) ==
  /\ c.lines[i] \in {Unseen, Look(t, i, w), Await(t, i, w)}
  /\ c.rows[i] \in {Rows(Look(t, i, w)), Rows(Await(t, i, w))}
  /\ c.lines[i] \in {Unseen, Look(t, i, w)} \/ c.rows[i] = Rows(Await(t, i, w))

FitsBlocks(c, t, w) ==
  /\ IsCache(c)
  /\ c.rows = [i \in DOMAIN t.log |-> c.rows[i]] /\ c.lines = [i \in DOMAIN t.log |-> c.lines[i]]
  /\ \A i \in DOMAIN t.log : FitsBlock(c, t, w, i)

Fits(c, t, w) == IF t.log = <<>> THEN c = NoCache ELSE Valid(c, t, w) /\ FitsBlocks(c, t, w)

\* The cache as the redraw finds it.
Usable(c, t, w) ==
  \/ c = NoCache
  \/ t.log # <<>> /\ (Valid(c, t, w) \/ Reusable(c, t, w) => FitsBlocks(c, t, w))

\* A later state of the tab: the generation tells of every change, blocks stay, and a block
\* changes only by the result it waited for.
Follows(t, u) ==
  /\ u.generation >= t.generation /\ (u.generation = t.generation => u.log = t.log)
  /\ Len(u.log) >= Len(t.log)
  /\ \A i \in DOMAIN t.log :
       t.log[i] = u.log[i] \/ (t.log[i].result = 0 /\ t.log[i] = [u.log[i] EXCEPT !.result = 0])

Widths == {"narrow", "wide"}

LEMMA RowsCounted ==
  ASSUME NEW t, IsTab(t), NEW i \in DOMAIN t.log, NEW w
  PROVE  Rows(Look(t, i, w)) \in Nat \ {0} /\ Rows(Await(t, i, w)) \in Nat \ {0}
<1>1. IsBlock(t.log[i])
  BY DEF IsTab
<1>2. ASSUME NEW b, IsBlock(b), NEW l, l.block \in {b, [b EXCEPT !.result = 0]}, l.isOpen \in BOOLEAN
      PROVE  Rows(l) \in Nat \ {0}
  <2>1. /\ l.block.kind \in {"text", "tool", "finish"} /\ l.block.size \in Nat \ {0}
        /\ l.block.result \in Nat
    BY <1>2 DEF IsBlock
  <2> QED BY <1>2, <2>1 DEF Rows
<1>3. Look(t, i, w).block \in {t.log[i], [t.log[i] EXCEPT !.result = 0]} /\ Look(t, i, w).isOpen \in BOOLEAN
  BY DEF Look
<1>4. Rows(Look(t, i, w)) \in Nat \ {0}
  BY <1>1, <1>2, <1>3
<1> DEFINE u == [t EXCEPT !.log[i].result = 0]
           b == [t.log[i] EXCEPT !.result = 0]
<1>5. u.log[i] = b /\ IsBlock(b)
  BY <1>1 DEF IsTab, IsBlock
<1>6. [b EXCEPT !.result = 0] = b
  BY <1>1 DEF IsBlock
<1>7. Look(u, i, w).block \in {b, [b EXCEPT !.result = 0]} /\ Look(u, i, w).isOpen \in BOOLEAN
  BY <1>5 DEF Look
<1>8. Rows(Look(u, i, w)) \in Nat \ {0}
  <2> HIDE DEF u, b
  <2> QED BY <1>2, <1>5, <1>7
<1> QED BY <1>4, <1>8 DEF Await

\* The lines of a block depend on the block, its folds and the width.
LEMMA LookIs ==
  ASSUME NEW t, IsTab(t), NEW u, IsTab(u), NEW i \in DOMAIN t.log, i \in DOMAIN u.log, NEW w,
         t.expanded = u.expanded, t.wrapped = u.wrapped
  PROVE  /\ t.log[i] = u.log[i] => Look(t, i, w) = Look(u, i, w) /\ Await(t, i, w) = Await(u, i, w)
         /\ t.log[i].result = 0 /\ t.log[i] = [u.log[i] EXCEPT !.result = 0] =>
              Look(t, i, w) = Await(u, i, w) /\ Await(t, i, w) = Await(u, i, w)
<1> DEFINE Awaited(s) == [s EXCEPT !.log[i].result = 0]
<1>1. \A s \in {t, u} : /\ Awaited(s).log[i] = [s.log[i] EXCEPT !.result = 0]
                        /\ Awaited(s).expanded = s.expanded /\ Awaited(s).wrapped = s.wrapped
  BY DEF IsTab
<1>2. ASSUME t.log[i] = u.log[i]
      PROVE  Look(t, i, w) = Look(u, i, w) /\ Await(t, i, w) = Await(u, i, w)
  <2>1. Look(t, i, w) = Look(u, i, w)
    BY <1>2 DEF Look
  <2>2. Look(Awaited(t), i, w) = Look(Awaited(u), i, w)
    <3> HIDE DEF Awaited
    <3> QED BY <1>1, <1>2 DEF Look
  <2> QED BY <2>1, <2>2 DEF Await
<1>3. ASSUME t.log[i].result = 0, t.log[i] = [u.log[i] EXCEPT !.result = 0]
      PROVE  Look(t, i, w) = Await(u, i, w) /\ Await(t, i, w) = Await(u, i, w)
  <2>1. [t.log[i] EXCEPT !.result = 0] = [u.log[i] EXCEPT !.result = 0]
    BY <1>3 DEF IsTab, IsBlock
  <2>2. Look(Awaited(t), i, w) = Look(Awaited(u), i, w) /\ Look(t, i, w) = Look(Awaited(u), i, w)
    <3> HIDE DEF Awaited
    <3> QED BY <1>1, <1>3, <2>1 DEF Look
  <2> QED BY <2>2 DEF Await
<1> QED BY <1>2, <1>3
LEMMA FollowedCache ==
  ASSUME NEW t, IsTab(t), NEW u, IsTab(u), NEW c, NEW w \in Widths, NEW v \in Widths, Fits(c, t, w), Follows(t, u)
  PROVE  Usable(c, u, v)
<1>1. CASE t.log = <<>>
  BY <1>1 DEF Fits, Usable
<1>2. CASE t.log # <<>>
  <2>1. Valid(c, t, w) /\ FitsBlocks(c, t, w)
    BY <1>2 DEF Fits
  <2>2. Len(t.log) \in Nat /\ DOMAIN t.log = 1 .. Len(t.log) /\ Len(u.log) \in Nat /\ DOMAIN u.log = 1 .. Len(u.log)
    BY SeqDomain DEF IsTab
  <2>3. Len(t.log) > 0
    BY <1>2, <2>2 DEF IsTab, IsSeq
  <2>4. u.log # <<>>
    BY <2>2, <2>3, NoThread DEF Follows
  <2>5. ASSUME Valid(c, u, v) \/ Reusable(c, u, v) PROVE FitsBlocks(c, u, v)
    <3>1. v = w /\ t.expanded = u.expanded /\ t.wrapped = u.wrapped
      BY <2>1, <2>5 DEF Valid, Reusable
    <3>2. DOMAIN u.log = DOMAIN t.log
      <4>1. CASE Valid(c, u, v)
        BY <2>1, <4>1 DEF Valid, Follows
      <4>2. CASE Reusable(c, u, v)
        <5>1. DOMAIN c.rows = 1 .. Len(t.log)
          BY <2>1, <2>2 DEF FitsBlocks
        <5>2. Len(c.rows) = Len(t.log)
          BY <2>2, <5>1, LenOf
        <5> QED BY <2>2, <4>2, <5>2 DEF Reusable
      <4> QED BY <2>5, <4>1, <4>2
    <3>3. ASSUME NEW i \in DOMAIN t.log PROVE FitsBlock(c, u, w, i)
      <4>1. FitsBlock(c, t, w, i)
        BY <2>1 DEF FitsBlocks
      <4>2. t.log[i] = u.log[i] \/ (t.log[i].result = 0 /\ t.log[i] = [u.log[i] EXCEPT !.result = 0])
        BY DEF Follows
      <4>3. \/ Look(t, i, w) = Look(u, i, w) /\ Await(t, i, w) = Await(u, i, w)
            \/ Look(t, i, w) = Await(u, i, w) /\ Await(t, i, w) = Await(u, i, w)
        BY <3>1, <3>2, <4>2, LookIs
      <4> QED BY <4>1, <4>3 DEF FitsBlock
    <3> QED BY <2>1, <3>1, <3>2, <3>3 DEF FitsBlocks
  <2> QED BY <2>4, <2>5 DEF Usable
<1> QED BY <1>1, <1>2

LEMMA WarmCache ==
  ASSUME NEW t, IsTab(t), NEW c, NEW w \in Widths, Usable(c, t, w), NEW top, NEW screen
  PROVE  Fits(Ensured(c, t, w, top, screen), t, w)
<1>1. Len(t.log) \in Nat /\ DOMAIN t.log = 1 .. Len(t.log) /\ (t.log # <<>> => Len(t.log) > 0)
  BY SeqDomain DEF IsTab, IsSeq
<1>2. NoCache.width \notin Widths
  BY DEF NoCache, Widths
<1>3. CASE Valid(c, t, w)
  <2> DEFINE Kept == {i \in DOMAIN c.lines : c.lines[i] # Unseen}
             Far(i) == Cardinality(Kept) > 3 * screen /\ ~Near(c.rows, i, top, screen, 2 * screen)
             lines == [i \in DOMAIN c.lines |->
                         IF i \in Kept THEN IF Far(i) THEN Unseen ELSE c.lines[i]
                         ELSE IF Near(c.rows, i, top, screen, screen) THEN Look(t, i, c.width) ELSE Unseen]
             e == [c EXCEPT !.lines = lines]
  <2>1. t.log # <<>> /\ FitsBlocks(c, t, w) /\ c # NoCache /\ c.width = w
    BY <1>3 DEF Usable, Valid
  <2>2. Ensured(c, t, w, top, screen) = e
    BY <1>3 DEF Ensured, Seen
  <2>3. DOMAIN lines = DOMAIN t.log
    BY <2>1 DEF FitsBlocks
  <2>4. \A i \in DOMAIN t.log : lines[i] \in {Unseen, c.lines[i], Look(t, i, w)}
    BY <2>1, <2>3
  <2>6. lines = [i \in DOMAIN t.log |-> lines[i]]
    BY <2>3
  <2> HIDE DEF lines
  <2>5. /\ e.lines = lines /\ e.rows = c.rows /\ e.width = w /\ e.generation = c.generation
        /\ e.expanded = c.expanded /\ e.wrapped = c.wrapped /\ IsCache(e)
    BY <2>1 DEF FitsBlocks, IsCache
  <2> HIDE DEF e
  <2>7. e # NoCache
    BY <1>2, <2>5
  <2>8. Valid(e, t, w)
    BY <1>3, <2>5, <2>7 DEF Valid
  <2>9. \A i \in DOMAIN t.log : FitsBlock(e, t, w, i)
    BY <2>1, <2>4, <2>5 DEF FitsBlocks, FitsBlock
  <2>10. FitsBlocks(e, t, w)
    BY <2>1, <2>5, <2>6, <2>9 DEF FitsBlocks
  <2> QED BY <2>1, <2>2, <2>8, <2>10 DEF Fits
<1>4. CASE ~Valid(c, t, w) /\ t.log = <<>>
  <2>1. Ensured(c, t, w, top, screen) = c
    BY <1>4 DEF Ensured
  <2> QED BY <1>4, <2>1 DEF Usable, Fits
<1>5. CASE ~Valid(c, t, w) /\ t.log # <<>> /\ Reusable(c, t, w)
  <2> DEFINE n == Len(t.log)
             look == Look(t, n, w)
             e == [c EXCEPT !.generation = t.generation, !.rows[n] = Rows(look), !.lines[n] = look]
  <2>1. FitsBlocks(c, t, w) /\ n \in DOMAIN t.log
    BY <1>1, <1>5 DEF Usable, Reusable
  <2>2. Ensured(c, t, w, top, screen) = e
    BY <1>5 DEF Ensured, LastAnew
  <2> HIDE DEF n, look
  <2>3. /\ e.lines = [c.lines EXCEPT ![n] = look] /\ e.rows = [c.rows EXCEPT ![n] = Rows(look)]
        /\ e.generation = t.generation /\ e.width = w /\ e.expanded = t.expanded /\ e.wrapped = t.wrapped
        /\ IsCache(e)
    BY <1>5, <2>1 DEF FitsBlocks, IsCache, Reusable
  <2> HIDE DEF e
  <2>4. Valid(e, t, w)
    BY <1>2, <2>3 DEF Valid
  <2>5. ASSUME NEW i \in DOMAIN t.log PROVE FitsBlock(e, t, w, i)
    <3>1. i = n => e.lines[i] = look /\ e.rows[i] = Rows(look)
      BY <2>1, <2>3 DEF FitsBlocks
    <3>2. i # n => e.lines[i] = c.lines[i] /\ e.rows[i] = c.rows[i]
      BY <2>1, <2>3 DEF FitsBlocks
    <3>3. FitsBlock(c, t, w, i)
      BY <2>1 DEF FitsBlocks
    <3> QED BY <3>1, <3>2, <3>3 DEF FitsBlock, look
  <2>6. e.rows = [i \in DOMAIN t.log |-> e.rows[i]] /\ e.lines = [i \in DOMAIN t.log |-> e.lines[i]]
    BY <2>1, <2>3 DEF FitsBlocks
  <2>7. FitsBlocks(e, t, w)
    BY <2>3, <2>5, <2>6 DEF FitsBlocks
  <2> QED BY <1>5, <2>2, <2>4, <2>7 DEF Fits
<1>6. CASE ~Valid(c, t, w) /\ t.log # <<>> /\ ~Reusable(c, t, w)
  <2> DEFINE e == AllAnew(t, w)
  <2>1. Ensured(c, t, w, top, screen) = e
    BY <1>6 DEF Ensured
  <2>2. /\ e.lines = [i \in DOMAIN t.log |-> Look(t, i, w)]
        /\ e.rows = [i \in DOMAIN t.log |-> Rows(Look(t, i, w))]
        /\ e.generation = t.generation /\ e.width = w /\ e.expanded = t.expanded /\ e.wrapped = t.wrapped
        /\ IsCache(e)
    BY DEF AllAnew, IsCache
  <2> HIDE DEF e
  <2>3. Valid(e, t, w)
    BY <1>2, <2>2 DEF Valid
  <2>4. FitsBlocks(e, t, w)
    BY <2>2 DEF FitsBlocks, FitsBlock
  <2> QED BY <1>6, <2>1, <2>3, <2>4 DEF Fits
<1> QED BY <1>3, <1>4, <1>5, <1>6

\* The rows of a cache are counts.
LEMMA CacheCounts ==
  ASSUME NEW t, IsTab(t), t.log # <<>>, NEW c, NEW w, Fits(c, t, w)
  PROVE  IsRows(c.rows) /\ Len(c.rows) = Len(t.log) /\ c # NoCache
<1>1. FitsBlocks(c, t, w) /\ c # NoCache
  BY DEF Fits, Valid
<1>2. Len(t.log) \in Nat /\ DOMAIN t.log = 1 .. Len(t.log)
  BY SeqDomain DEF IsTab
<1>3. DOMAIN c.rows = 1 .. Len(t.log)
  BY <1>1, <1>2 DEF FitsBlocks
<1>4. Len(c.rows) = Len(t.log)
  BY <1>2, <1>3, LenOf
<1>5. IsSeq(c.rows)
  <2>1. \A i \in DOMAIN c.rows : c.rows[i] \in ToSet(c.rows)
    BY DEF ToSet
  <2>2. c.rows = [i \in 1 .. Len(t.log) |-> c.rows[i]]
    BY <1>1, <1>2 DEF FitsBlocks
  <2> QED BY <1>2, <1>3, <2>1, <2>2 DEF IsSeq
<1>6. ASSUME NEW i \in DOMAIN c.rows PROVE c.rows[i] \in Nat \ {0}
  <2>1. FitsBlock(c, t, w, i) /\ i \in DOMAIN t.log
    BY <1>1, <1>2, <1>3 DEF FitsBlocks
  <2> QED BY <2>1, RowsCounted DEF FitsBlock
<1> QED BY <1>1, <1>4, <1>5, <1>6 DEF IsRows
-----------------------------------------------------------------------------
(* What happens to a tab.                                                  *)

LEMMA FollowsItself == ASSUME NEW t, IsTab(t) PROVE Follows(t, t)
BY SeqDomain DEF Follows, IsTab

LEMMA FollowsOn ==
  ASSUME NEW t, IsTab(t), NEW u, IsTab(u), NEW v, IsTab(v), Follows(t, u), Follows(u, v) PROVE Follows(t, v)
<1>1. /\ Len(t.log) \in Nat /\ DOMAIN t.log = 1 .. Len(t.log)
      /\ Len(u.log) \in Nat /\ DOMAIN u.log = 1 .. Len(u.log)
      /\ Len(v.log) \in Nat /\ DOMAIN v.log = 1 .. Len(v.log)
  BY SeqDomain DEF IsTab
<1>2. v.generation >= t.generation /\ (v.generation = t.generation => v.log = t.log)
  BY DEF Follows, IsTab
<1>3. Len(v.log) >= Len(t.log)
  BY <1>1 DEF Follows
<1>4. ASSUME NEW i \in DOMAIN t.log
      PROVE  t.log[i] = v.log[i] \/ (t.log[i].result = 0 /\ t.log[i] = [v.log[i] EXCEPT !.result = 0])
  <2>1. i \in DOMAIN u.log /\ i \in DOMAIN v.log
    BY <1>1 DEF Follows
  <2>2. t.log[i] = u.log[i] \/ (t.log[i].result = 0 /\ t.log[i] = [u.log[i] EXCEPT !.result = 0])
    BY DEF Follows
  <2>3. u.log[i] = v.log[i] \/ (u.log[i].result = 0 /\ u.log[i] = [v.log[i] EXCEPT !.result = 0])
    BY <2>1 DEF Follows
  <2>4. IsBlock(t.log[i]) /\ IsBlock(u.log[i]) /\ IsBlock(v.log[i])
    BY <2>1 DEF IsTab
  <2>5. u.log[i].result = 0 => [u.log[i] EXCEPT !.result = 0] = u.log[i]
    BY <2>4 DEF IsBlock
  <2> QED BY <2>2, <2>3, <2>5
<1> QED BY <1>2, <1>3, <1>4 DEF Follows

\* A tab in a later state of itself.
Later(t, u) == IsTab(u) /\ Follows(t, u)

LEMMA LaterOn ==
  ASSUME NEW t, IsTab(t), NEW u, Later(t, u), NEW v, Later(u, v) PROVE Later(t, v)
BY FollowsOn DEF Later

LEMMA AsideTab ==
  ASSUME NEW t, IsTab(t), NEW u, DOMAIN u = DOMAIN t, u.log = t.log, u.generation = t.generation
  PROVE  Later(t, u)
<1>1. IsTab(u)
  BY DEF IsTab
<1> QED BY <1>1, FollowsItself DEF Follows, Later

LEMMA ChangedTab == ASSUME NEW t, IsTab(t) PROVE Later(t, Changed(t))
<1>1. /\ DOMAIN Changed(t) = DOMAIN t /\ Changed(t).log = t.log
      /\ Changed(t).generation = t.generation + 1
  BY DEF Changed, IsTab
<1>2. IsTab(Changed(t))
  BY <1>1 DEF IsTab
<1> QED BY <1>1, <1>2, FollowsItself DEF Follows, IsTab, Later

LEMMA LoggedTab ==
  ASSUME NEW t, IsTab(t), NEW kind \in {"text", "tool", "finish"}, NEW size \in Nat \ {0}
  PROVE  Later(t, Logged(t, kind, size)) /\ Len(Logged(t, kind, size).log) = Len(t.log) + 1
<1> DEFINE b == Block(t, kind, size)
           u == Logged(t, kind, size)
<1>1. IsBlock(b)
  BY DEF Block, IsBlock
<1> HIDE DEF b
<1>2. DOMAIN u = DOMAIN t /\ u.log = Append(t.log, b) /\ u.generation = t.generation + 1
  BY DEF Logged, Changed, IsTab, b
<1> HIDE DEF u
<1>3. Len(t.log) \in Nat /\ DOMAIN t.log = 1 .. Len(t.log)
  BY SeqDomain DEF IsTab
<1>4. /\ IsSeq(u.log) /\ DOMAIN u.log = 1 .. Len(t.log) + 1
      /\ \A j \in DOMAIN t.log : u.log[j] = t.log[j]
      /\ u.log[Len(t.log) + 1] = b
  BY <1>2, AppendOf DEF IsTab
<1>5. Len(u.log) = Len(t.log) + 1
  BY <1>3, <1>4, LenOf
<1>6. \A j \in DOMAIN u.log : IsBlock(u.log[j])
  BY <1>1, <1>3, <1>4 DEF IsTab
<1>7. IsTab(u)
  BY <1>2, <1>4, <1>6 DEF IsTab
<1>8. Follows(t, u)
  BY <1>2, <1>3, <1>4, <1>5 DEF Follows, IsTab
<1> QED BY <1>5, <1>7, <1>8 DEF u, Later

LEMMA FinalizedTab ==
  ASSUME NEW t, IsTab(t), NEW size \in Sizes(t)
  PROVE  Later(t, Finalized(t, size))
<1>1. size \in Nat
  <2>1. \A n \in Lengths : n \in Nat
    BY ConversationAssumption
  <2>2. size = 0 \/ size \in Lengths
    BY DEF Sizes
  <2> QED BY <2>1, <2>2
<1>2. CASE t.streaming = "none"
  BY <1>2, FollowsItself DEF Finalized, Later
<1>3. CASE t.streaming # "none"
  <2> DEFINE u == IF size = 0 THEN Changed(t) ELSE Logged(t, "text", size)
  <2>1. Later(t, u)
    BY <1>1, ChangedTab, LoggedTab
  <2>2. Finalized(t, size) = [u EXCEPT !.streaming = "none"]
    BY <1>3 DEF Finalized
  <2> HIDE DEF u
  <2>3. Later(u, [u EXCEPT !.streaming = "none"])
    BY <2>1, AsideTab DEF Later, IsTab
  <2> QED BY <2>1, <2>2, <2>3, LaterOn
<1> QED BY <1>2, <1>3

LEMMA AwaitedBlock ==
  ASSUME NEW a, IsBlock(a), a.result = 0, NEW size \in Nat
  PROVE  IsBlock([a EXCEPT !.result = size]) /\ a = [[a EXCEPT !.result = size] EXCEPT !.result = 0]
<1> DEFINE b == [a EXCEPT !.result = size]
<1>1. b = [at |-> a.at, kind |-> a.kind, size |-> a.size, result |-> size]
  BY DEF IsBlock
<1> HIDE DEF b
<1>2. IsBlock(b)
  BY <1>1 DEF IsBlock
<1>3. [b EXCEPT !.result = 0] = [at |-> a.at, kind |-> a.kind, size |-> a.size, result |-> 0]
  BY <1>1
<1>4. a = [b EXCEPT !.result = 0]
  BY <1>3 DEF IsBlock
<1> QED BY <1>2, <1>4 DEF b

LEMMA ResultedTab ==
  ASSUME NEW t, IsTab(t), NEW i \in DOMAIN t.log, t.log[i].result = 0, NEW size \in Nat
  PROVE  Later(t, Resulted(t, i, size))
<1> DEFINE u == Resulted(t, i, size)
           b == [t.log[i] EXCEPT !.result = size]
<1>1. IsBlock(t.log[i])
  BY DEF IsTab
<1>2. IsBlock(b) /\ t.log[i] = [b EXCEPT !.result = 0]
  BY <1>1, AwaitedBlock
<1>3. DOMAIN u = DOMAIN t /\ u.log = [t.log EXCEPT ![i] = b] /\ u.generation = t.generation + 1
  BY DEF Resulted, Changed, IsTab
<1> HIDE DEF u, b
<1>4. /\ IsSeq(u.log) /\ DOMAIN u.log = DOMAIN t.log /\ u.log[i] = b
      /\ \A j \in DOMAIN t.log \ {i} : u.log[j] = t.log[j]
  BY <1>3, UpdateOf DEF IsTab
<1>5. Len(t.log) \in Nat /\ Len(u.log) = Len(t.log)
  BY <1>4, SeqDomain, LenOf DEF IsTab
<1>6. IsTab(u)
  BY <1>2, <1>3, <1>4 DEF IsTab
<1>7. Follows(t, u)
  <2>1. u.generation >= t.generation /\ u.generation # t.generation
    BY <1>3 DEF IsTab
  <2>2. ASSUME NEW j \in DOMAIN t.log
        PROVE  t.log[j] = u.log[j] \/ (t.log[j].result = 0 /\ t.log[j] = [u.log[j] EXCEPT !.result = 0])
    <3>1. CASE j = i
      BY <1>2, <1>4, <3>1
    <3>2. CASE j # i
      BY <1>4, <3>2
    <3> QED BY <3>1, <3>2
  <2> QED BY <1>5, <2>1, <2>2 DEF Follows
<1> QED BY <1>6, <1>7 DEF u, Later

-----------------------------------------------------------------------------
(* The screen.                                                             *)

LEMMA ScreenRows == ASSUME NEW ts, IsSeq(ts) PROVE Screen(ts) \in Nat \ {0}
<1> DEFINE Q == {n \in DOMAIN ts : ts[n].pending # "none"}
<1>1. Len(ts) \in Nat /\ DOMAIN ts = 1 .. Len(ts)
  BY SeqDomain
<1>2. IsFiniteSet(1 .. Len(ts))
  BY <1>1, FS_Interval
<1>3. Q \subseteq 1 .. Len(ts)
  BY <1>1
<1>4. IsFiniteSet(Q)
  BY <1>2, <1>3, FS_Subset
<1>5. Cardinality(Q) \in Nat
  BY <1>4, FS_CardinalityType
<1> QED BY <1>5, ConversationAssumption DEF Screen, Queued

LEMMA ContentCounts ==
  ASSUME NEW t, IsTab(t), NEW c, NEW w, Fits(c, t, w)
  PROVE  Content(c, t) \in Nat /\ (t.log # <<>> => Total(c.rows) <= Content(c, t))
<1>1. CASE t.log = <<>>
  BY <1>1 DEF Fits, Content
<1>2. CASE t.log # <<>>
  <2>1. IsRows(c.rows) /\ c # NoCache
    BY <1>2, CacheCounts
  <2>2. Len(c.rows) \in Nat
    BY <2>1, SeqDomain DEF IsRows
  <2>3. RowsAbove(c.rows, Len(c.rows) + 1) \in Nat
    BY <2>1, <2>2, AboveIs
  <2> QED BY <2>1, <2>3 DEF Content, Total
<1> QED BY <1>1, <1>2

LEMMA TopCounts ==
  ASSUME NEW top \in Nat, NEW content \in Nat, NEW screen \in Nat, NEW follows
  PROVE  ClampedTop(top, content, screen, follows) \in Nat
BY DEF ClampedTop, Monus

\* After the cursor has been moved, its block is on the screen, or fills it.
Showing ==
  LET above == RowsAbove(cache.rows, chosen)
      below == RowsAbove(cache.rows, chosen + 1)
      bottom == scroll + Screen(tabs)
  IN  (above >= scroll /\ below <= bottom) \/ (above <= scroll /\ below >= bottom)

TalkInv ==
  /\ IsSeq(tabs) /\ \A n \in DOMAIN tabs : IsTab(tabs[n])
  /\ width \in Widths /\ scroll \in Nat /\ chosen \in Nat \ {0} /\ (palette # "none" => tabs # <<>>)
  /\ tabs = <<>> => active = 1 /\ chosen = 1 /\ cache = NoCache /\ ~placed
  /\ tabs # <<>> =>
       /\ active \in DOMAIN tabs
       /\ chosen = 1 \/ chosen <= Len(tabs[active].log)
       /\ Fits(cache, tabs[active], width)
  /\ placed => chosen \in DOMAIN tabs[active].log /\ Showing

\* What a step leaves that redraws with the cache c and does not move the cursor.
Redraws(c) ==
  /\ IsSeq(tabs') /\ \A n \in DOMAIN tabs' : IsTab(tabs'[n])
  /\ width' \in Widths /\ chosen' \in Nat \ {0} /\ ~placed' /\ (palette' # "none" => tabs' # <<>>)
  /\ tabs' = <<>> => active' = 1 /\ chosen' = 1
  /\ tabs' # <<>> =>
       /\ active' \in DOMAIN tabs'
       /\ chosen' = 1 \/ chosen' <= Len(tabs'[active'].log)
       /\ Usable(c, tabs'[active'], width')

LEMMA Redrawn ==
  ASSUME tabs' # <<>>, IsSeq(tabs'), IsTab(tabs'[active']), width' \in Widths, NEW c, NEW top \in Nat,
         Usable(c, tabs'[active'], width'), Redraw(c, top)
  PROVE  /\ Fits(cache', tabs'[active'], width') /\ scroll' \in Nat
         /\ cache' = Ensured(c, tabs'[active'], width', top, Screen(tabs'))
         /\ scroll' = ClampedTop(top, Content(cache', tabs'[active']), Screen(tabs'), follow')
<1> PICK t : t = tabs'[active']
  OBVIOUS
<1> PICK w : w = width'
  OBVIOUS
<1> PICK ts : ts = tabs'
  OBVIOUS
<1>1. /\ cache' = Ensured(c, t, w, top, Screen(ts))
      /\ scroll' = ClampedTop(top, Content(cache', t), Screen(ts), follow')
  BY DEF Redraw
<1>2. IsTab(t) /\ Usable(c, t, w) /\ w \in Widths /\ IsSeq(ts)
  OBVIOUS
<1>3. Fits(cache', t, w)
  BY <1>1, <1>2, WarmCache
<1>4. Content(cache', t) \in Nat
  BY <1>2, <1>3, ContentCounts
<1>5. Screen(ts) \in Nat
  BY <1>2, ScreenRows
<1>6. scroll' \in Nat
  BY <1>1, <1>4, <1>5, TopCounts
<1> QED BY <1>1, <1>3, <1>6

LEMMA RedrawKeeps ==
  ASSUME NEW c, NEW top \in Nat, Redraw(c, top), Redraws(c) PROVE TalkInv'
<1>1. CASE tabs' = <<>>
  <2>1. cache' = NoCache /\ scroll' = 0
    BY <1>1 DEF Redraw
  <2> QED BY <1>1, <2>1 DEF Redraws, TalkInv
<1>2. CASE tabs' # <<>>
  <2>1. Fits(cache', tabs'[active'], width') /\ scroll' \in Nat
    BY <1>2, Redrawn DEF Redraws
  <2> QED BY <1>2, <2>1 DEF Redraws, TalkInv
<1> QED BY <1>1, <1>2

\* One tab goes on, the rest of the screen's state stays.
LEMMA OneTabGoesOn ==
  ASSUME TalkInv, NEW n \in DOMAIN tabs, NEW u, Later(tabs[n], u), tabs' = [tabs EXCEPT ![n] = u],
         UNCHANGED <<active, chosen, width>>, ~placed'
  PROVE  Redraws(cache)
<1>1. IsSeq(tabs) /\ \A k \in DOMAIN tabs : IsTab(tabs[k])
  BY DEF TalkInv
<1>2. IsSeq(tabs') /\ DOMAIN tabs' = DOMAIN tabs /\ tabs'[n] = u /\ \A k \in DOMAIN tabs \ {n} : tabs'[k] = tabs[k]
  BY <1>1, UpdateOf
<1>3. tabs # <<>> /\ tabs' # <<>>
  BY <1>2, NoThread
<1>4. \A k \in DOMAIN tabs : Later(tabs[k], tabs'[k])
  BY <1>1, <1>2, FollowsItself DEF Later
<1>5. active \in DOMAIN tabs /\ Fits(cache, tabs[active], width) /\ width \in Widths
      /\ (chosen = 1 \/ chosen <= Len(tabs[active].log)) /\ chosen \in Nat \ {0}
  BY <1>3 DEF TalkInv
<1> PICK t : t = tabs[active]
  OBVIOUS
<1> PICK v : v = tabs'[active]
  OBVIOUS
<1>6. Follows(t, v) /\ IsTab(v) /\ IsTab(t)
  BY <1>1, <1>4, <1>5 DEF Later
<1>7. Usable(cache, v, width)
  BY <1>5, <1>6, FollowedCache
<1>8. chosen = 1 \/ chosen <= Len(v.log)
  <2>1. Len(t.log) \in Nat /\ Len(v.log) \in Nat /\ Len(v.log) >= Len(t.log)
    BY <1>6, SeqDomain DEF IsTab, Follows
  <2> QED BY <1>5, <2>1
<1>9. \A k \in DOMAIN tabs' : IsTab(tabs'[k])
  BY <1>2, <1>4 DEF Later
<1>10. active' = active /\ chosen' = chosen /\ width' = width
  OBVIOUS
<1> QED BY <1>2, <1>3, <1>5, <1>7, <1>8, <1>9, <1>10 DEF Redraws

LEMMA SameTabs ==
  ASSUME TalkInv, NEW c \in {cache, NoCache}, UNCHANGED <<tabs, active, chosen, palette>>, width' \in Widths, ~placed'
  PROVE  Redraws(c)
<1>1. CASE tabs = <<>>
  BY <1>1 DEF TalkInv, Redraws
<1>2. CASE tabs # <<>>
  <2> PICK t : t = tabs[active]
    OBVIOUS
  <2> PICK v : v = width'
    OBVIOUS
  <2>1. IsTab(t) /\ Fits(cache, t, width) /\ width \in Widths /\ v \in Widths
    BY <1>2 DEF TalkInv
  <2>2. Usable(cache, t, v)
    BY <2>1, FollowsItself, FollowedCache
  <2>3. Usable(c, t, v)
    BY <2>2 DEF Usable
  <2>4. /\ IsSeq(tabs) /\ \A n \in DOMAIN tabs : IsTab(tabs[n])
        /\ active \in DOMAIN tabs /\ chosen \in Nat \ {0} /\ (chosen = 1 \/ chosen <= Len(t.log))
    BY <1>2 DEF TalkInv
  <2> QED BY <1>2, <2>1, <2>3, <2>4 DEF Redraws
<1> QED BY <1>1, <1>2

LEMMA HearsKeeps ==
  ASSUME TalkInv, NEW n \in DOMAIN tabs, NEW u, Later(tabs[n], u), Hears(n, u) PROVE TalkInv'
<1>1. /\ tabs' = [tabs EXCEPT ![n] = u] /\ UNCHANGED <<active, chosen, width>> /\ ~placed'
      /\ Redraw(cache, scroll)
  BY DEF Hears
<1>2. Redraws(cache)
  BY <1>1, OneTabGoesOn
<1>3. scroll \in Nat
  BY DEF TalkInv
<1> QED BY <1>1, <1>2, <1>3, RedrawKeeps

LEMMA AltersKeeps ==
  ASSUME TalkInv, tabs # <<>>, NEW u, Later(tabs[active], u), Alters(u, cache) PROVE TalkInv'
<1>1. /\ tabs' = [tabs EXCEPT ![active] = u] /\ UNCHANGED <<active, chosen, width>> /\ ~placed'
      /\ Redraw(cache, scroll)
  BY DEF Alters
<1>2. active \in DOMAIN tabs /\ scroll \in Nat
  BY DEF TalkInv
<1>3. Redraws(cache)
  BY <1>1, <1>2, OneTabGoesOn
<1> QED BY <1>1, <1>2, <1>3, RedrawKeeps

LEMMA CoreEventKeeps ==
  ASSUME TalkInv, NEW n \in DOMAIN tabs, CoreEvent(n) PROVE TalkInv'
<1> PICK t : t = tabs[n]
  OBVIOUS
<1>1. IsTab(t)
  BY DEF TalkInv
<1>2. \A u : Later(t, u) /\ Hears(n, u) => TalkInv'
  BY HearsKeeps
<1>3. ASSUME NEW u, Later(t, u), NEW v, DOMAIN v = DOMAIN u, v.log = u.log, v.generation = u.generation
      PROVE  Later(t, v)
  <2>1. Later(u, v)
    BY <1>3, AsideTab DEF Later
  <2> QED BY <1>1, <1>3, <2>1, LaterOn
<1>4. ASSUME NEW u, Later(t, u) PROVE Later(t, Changed(u))
  BY <1>1, <1>4, ChangedTab, LaterOn DEF Later
<1>5. ASSUME NEW u, Later(t, u), NEW kind \in {"text", "tool", "finish"}, NEW size \in Nat \ {0}
      PROVE  Later(t, Logged(u, kind, size))
  <2>1. Later(u, Logged(u, kind, size))
    BY <1>5, LoggedTab DEF Later
  <2> QED BY <1>1, <1>5, <2>1, LaterOn
<1>6. \A size \in Sizes(t) : Later(t, Finalized(t, size))
  BY <1>1, FinalizedTab
<1>7. Later(t, t)
  BY <1>1, FollowsItself DEF Later
<1>8. \A u : Later(t, u) => DOMAIN u = DOMAIN t
  BY <1>1 DEF Later, IsTab
<1>9. Lengths \subseteq Nat \ {0}
  BY ConversationAssumption
<1>10. ASSUME NEW kind, Delta(n, kind) PROVE TalkInv'
  <2>1. CASE t.streaming = "none" /\ Hears(n, [Changed(t) EXCEPT !.streaming = kind, !.ended = FALSE])
    <3> DEFINE u == Changed(t)
               v == [u EXCEPT !.streaming = kind, !.ended = FALSE]
    <3>1. Later(t, u)
      BY <1>4, <1>7
    <3> HIDE DEF u
    <3>2. DOMAIN v = DOMAIN u /\ v.log = u.log /\ v.generation = u.generation
      OBVIOUS
    <3>3. Hears(n, v)
      BY <2>1 DEF u
    <3> HIDE DEF v
    <3> QED BY <1>2, <1>3, <3>1, <3>2, <3>3
  <2>2. CASE t.streaming = kind /\ Hears(n, Changed(t))
    BY <1>2, <1>4, <1>7, <2>2
  <2>3. ASSUME NEW size \in Sizes(t), Hears(n, [Changed(Finalized(t, size)) EXCEPT !.streaming = kind])
        PROVE  TalkInv'
    <3> DEFINE u == Changed(Finalized(t, size))
               v == [u EXCEPT !.streaming = kind]
    <3>1. Later(t, u)
      BY <1>4, <1>6
    <3> HIDE DEF u
    <3>2. DOMAIN v = DOMAIN u /\ v.log = u.log /\ v.generation = u.generation
      OBVIOUS
    <3>3. Hears(n, v)
      BY <2>3 DEF u
    <3> HIDE DEF v
    <3> QED BY <1>2, <1>3, <3>1, <3>2, <3>3
  <2> QED BY <1>10, <2>1, <2>2, <2>3 DEF Delta
<1>11. ASSUME ThoughtEnds(n) PROVE TalkInv'
  BY <1>2, <1>6, <1>11 DEF ThoughtEnds
<1>12. ASSUME CallStarts(n) PROVE TalkInv'
  <2>1. PICK size \in Sizes(t) : Hears(n, [Logged(Finalized(t, size), "tool", 1) EXCEPT !.ended = FALSE])
    BY <1>12 DEF CallStarts
  <2> DEFINE u == Logged(Finalized(t, size), "tool", 1)
             v == [u EXCEPT !.ended = FALSE]
  <2>2. Later(t, u)
    BY <1>5, <1>6
  <2> HIDE DEF u
  <2>3. DOMAIN v = DOMAIN u /\ v.log = u.log /\ v.generation = u.generation
    OBVIOUS
  <2>4. Hears(n, v)
    BY <2>1 DEF u
  <2> HIDE DEF v
  <2> QED BY <1>2, <1>3, <2>2, <2>3, <2>4
<1>13. ASSUME CallEnds(n) PROVE TalkInv'
  <2>1. PICK i \in DOMAIN t.log, size \in Sizes(t), lines \in Lengths :
          t.log[i].result = 0 /\ Hears(n, Resulted(Finalized(t, size), i, lines))
    BY <1>13 DEF CallEnds
  <2> DEFINE u == Finalized(t, size)
  <2>2. Later(t, u) /\ IsTab(u)
    BY <1>6 DEF Later
  <2>3. lines \in Nat
    BY <1>9
  <2>4. i \in DOMAIN u.log /\ u.log[i] = t.log[i]
    <3>1. u.log = t.log \/ u.log = Append(t.log, Block(t, "text", size))
      <4>1. size = 0 => Changed(t).log = t.log
        BY <1>1 DEF Changed, IsTab
      <4>2. Logged(t, "text", size).log = Append(t.log, Block(t, "text", size))
        BY <1>1 DEF Logged, Changed, IsTab
      <4>3. u.log = t.log \/ u.log = (IF size = 0 THEN Changed(t) ELSE Logged(t, "text", size)).log
        BY <1>1 DEF Finalized, IsTab, Changed, Logged
      <4> QED BY <4>1, <4>2, <4>3
    <3> HIDE DEF u
    <3> QED BY <1>1, <3>1, AppendOf DEF IsTab
  <2> HIDE DEF u
  <2>5. Later(u, Resulted(u, i, lines))
    BY <2>1, <2>2, <2>3, <2>4, ResultedTab
  <2>6. Later(t, Resulted(u, i, lines))
    BY <1>1, <2>2, <2>5, LaterOn
  <2> QED BY <1>2, <2>1, <2>6 DEF u
<1>14. ASSUME NEW what \in {"approval", "followup"}, Asks(n, what) PROVE TalkInv'
  <2>1. PICK size \in Sizes(t) :
          LET v == [Finalized(t, size) EXCEPT !.pending = what, !.ended = FALSE]
          IN  \/ Hears(n, [t EXCEPT !.pending = "none"]) \/ Hears(n, v)
              \/ \E lines \in Lengths : Hears(n, Logged(v, "text", lines))
    BY <1>14 DEF Asks
  <2> DEFINE u == Finalized(t, size)
             v == [u EXCEPT !.pending = what, !.ended = FALSE]
  <2>2. Later(t, u)
    BY <1>6
  <2> HIDE DEF u
  <2>3. DOMAIN v = DOMAIN u /\ v.log = u.log /\ v.generation = u.generation
    OBVIOUS
  <2>4. Hears(n, [t EXCEPT !.pending = "none"]) \/ Hears(n, v)
        \/ \E lines \in Lengths : Hears(n, Logged(v, "text", lines))
    BY <2>1 DEF u
  <2> HIDE DEF v
  <2>5. Later(t, v)
    BY <1>3, <2>2, <2>3
  <2>6. Later(t, [t EXCEPT !.pending = "none"])
    <3> DEFINE s == [t EXCEPT !.pending = "none"]
    <3>1. DOMAIN s = DOMAIN t /\ s.log = t.log /\ s.generation = t.generation
      OBVIOUS
    <3> HIDE DEF s
    <3>2. Later(t, s)
      BY <1>1, <3>1, AsideTab
    <3> QED BY <3>2 DEF s
  <2>7. ASSUME NEW lines \in Lengths PROVE Later(t, Logged(v, "text", lines))
    BY <1>5, <1>9, <2>5
  <2> QED BY <1>2, <2>4, <2>5, <2>6, <2>7
<1>15. ASSUME Finishes(n) PROVE TalkInv'
  <2> DEFINE s == [t EXCEPT !.pending = "none", !.ended = TRUE]
             quiet == IF s.streaming = "none" THEN s ELSE [Changed(s) EXCEPT !.streaming = "none"]
  <2>1. Later(t, s)
    <3>1. DOMAIN s = DOMAIN t /\ s.log = t.log /\ s.generation = t.generation
      OBVIOUS
    <3> HIDE DEF s
    <3> QED BY <1>1, <3>1, AsideTab
  <2>2. \/ Hears(n, Logged(quiet, "finish", 1))
        \/ \E size \in Sizes(s) : Hears(n, Logged(Finalized(s, size), "text", 1))
    BY <1>15 DEF Finishes
  <2> HIDE DEF s
  <2>3. Later(t, quiet)
    <3> DEFINE u == Changed(s)
               v == [u EXCEPT !.streaming = "none"]
    <3>1. Later(t, u)
      BY <1>4, <2>1
    <3> HIDE DEF u
    <3>2. DOMAIN v = DOMAIN u /\ v.log = u.log /\ v.generation = u.generation
      OBVIOUS
    <3>3. Later(t, v)
      <4> HIDE DEF v
      <4> QED BY <1>3, <3>1, <3>2
    <3> QED BY <2>1, <3>3 DEF u
  <2> HIDE DEF quiet
  <2>4. Later(t, Logged(quiet, "finish", 1))
    BY <1>5, <2>3
  <2>5. ASSUME NEW size \in Sizes(s) PROVE Later(t, Logged(Finalized(s, size), "text", 1))
    <3>1. Later(s, Finalized(s, size))
      BY <2>1, FinalizedTab DEF Later
    <3>2. Later(t, Finalized(s, size))
      BY <1>1, <2>1, <3>1, LaterOn
    <3> QED BY <1>5, <3>2
  <2> QED BY <1>2, <2>2, <2>4, <2>5
<1>16. ASSUME Notice(n) PROVE TalkInv'
  <2>1. Later(t, Logged(t, "text", 1)) /\ \A size \in Sizes(t) : Later(t, Logged(Finalized(t, size), "text", 1))
    BY <1>5, <1>6, <1>7
  <2> DEFINE u == Logged(t, "text", 1)
             v == [u EXCEPT !.pending = "none"]
  <2>2. \/ Hears(n, u) \/ Hears(n, v)
        \/ \E size \in Sizes(t) : Hears(n, Logged(Finalized(t, size), "text", 1))
    BY <1>16 DEF Notice
  <2>3. Later(t, u)
    BY <2>1
  <2> HIDE DEF u
  <2>4. DOMAIN v = DOMAIN u /\ v.log = u.log /\ v.generation = u.generation
    OBVIOUS
  <2> HIDE DEF v
  <2>5. Later(t, v)
    BY <1>3, <2>3, <2>4
  <2> QED BY <1>2, <2>1, <2>2, <2>3, <2>5
<1> QED BY <1>10, <1>11, <1>12, <1>13, <1>14, <1>15, <1>16 DEF CoreEvent

LEMMA TabOpensKeeps == ASSUME TalkInv, TabOpens PROVE TalkInv'
<1> PICK new : new = NewTab(born + 1)
  OBVIOUS
<1> PICK more : more = Append(tabs, new)
  OBVIOUS
<1> DEFINE u == Logged(more[active], "text", 1)
<1>1. /\ tabs' = [more EXCEPT ![active] = u]
      /\ UNCHANGED <<active, chosen, width, palette>> /\ ~placed' /\ Redraw(cache, scroll)
  BY DEF TabOpens
<1>2. IsTab(new) /\ new.log = <<>>
  <2>1. new.log = <<>> /\ new.generation = 0
        /\ DOMAIN new = {"born", "log", "streaming", "generation", "expanded", "wrapped", "pending", "ended"}
    BY DEF NewTab
  <2> QED BY <2>1, NoThread DEF IsTab
<1>3. IsSeq(tabs) /\ (\A n \in DOMAIN tabs : IsTab(tabs[n])) /\ Len(tabs) \in Nat /\ DOMAIN tabs = 1 .. Len(tabs)
  BY SeqDomain DEF TalkInv
<1>4. /\ IsSeq(more) /\ DOMAIN more = 1 .. Len(tabs) + 1 /\ more[Len(tabs) + 1] = new
      /\ \A n \in DOMAIN tabs : more[n] = tabs[n]
  BY <1>3, AppendOf
<1>5. \A n \in DOMAIN more : IsTab(more[n])
  BY <1>2, <1>3, <1>4
<1>6. /\ active \in DOMAIN more
      /\ tabs # <<>> => active \in DOMAIN tabs /\ more[active] = tabs[active]
      /\ tabs = <<>> => more[active] = new
  <2>1. CASE tabs = <<>>
    <3>1. active = 1 /\ Len(tabs) = 0
      BY <2>1 DEF TalkInv
    <3> QED BY <1>4, <2>1, <3>1
  <2>2. CASE tabs # <<>>
    BY <1>3, <1>4, <2>2 DEF TalkInv
  <2> QED BY <2>1, <2>2
<1>7. Later(more[active], u)
  BY <1>5, <1>6, LoggedTab
<1> HIDE DEF u
<1>8. /\ IsSeq(tabs') /\ DOMAIN tabs' = DOMAIN more /\ tabs'[active] = u
      /\ \A k \in DOMAIN more \ {active} : tabs'[k] = more[k]
  BY <1>1, <1>4, <1>6, UpdateOf
<1>9. \A k \in DOMAIN tabs' : IsTab(tabs'[k])
  BY <1>5, <1>7, <1>8 DEF Later
<1>10. tabs' # <<>>
  BY <1>6, <1>8, NoThread
<1>11. width \in Widths /\ chosen \in Nat \ {0}
  BY DEF TalkInv
<1>12. Usable(cache, u, width) /\ (chosen = 1 \/ chosen <= Len(u.log))
  <2>1. CASE tabs = <<>>
    BY <2>1 DEF TalkInv, Usable
  <2>2. CASE tabs # <<>>
    <3> PICK t : t = tabs[active]
      OBVIOUS
    <3>1. IsTab(t) /\ IsTab(u) /\ Follows(t, u) /\ Fits(cache, t, width)
          /\ (chosen = 1 \/ chosen <= Len(t.log))
      BY <1>6, <1>7, <2>2 DEF Later, TalkInv
    <3>2. Usable(cache, u, width)
      BY <1>11, <3>1, FollowedCache
    <3>3. Len(t.log) \in Nat /\ Len(u.log) \in Nat /\ Len(u.log) >= Len(t.log)
      BY <3>1, SeqDomain DEF IsTab, Follows
    <3> QED BY <1>11, <3>1, <3>2, <3>3
  <2> QED BY <2>1, <2>2
<1>13. active' = active /\ chosen' = chosen /\ width' = width
  BY <1>1
<1>14. Redraws(cache)
  BY <1>1, <1>6, <1>8, <1>9, <1>10, <1>11, <1>12, <1>13 DEF Redraws
<1>15. scroll \in Nat
  BY DEF TalkInv
<1> QED BY <1>1, <1>14, <1>15, RedrawKeeps

LEMMA ScrollsKeeps ==
  ASSUME TalkInv, Scrolls, UNCHANGED <<tabs, active, chosen, width, palette>> PROVE TalkInv'
<1>1. ~placed' /\ width' \in Widths /\ scroll \in Nat /\ IsSeq(tabs)
  BY DEF Scrolls, TalkInv
<1> PICK screen : screen = Screen(tabs)
  OBVIOUS
<1> PICK content : content = IF tabs = <<>> THEN 0 ELSE Content(cache, tabs[active])
  OBVIOUS
<1>2. screen \in Nat \ {0}
  BY <1>1, ScreenRows
<1>3. content \in Nat
  <2>1. CASE tabs = <<>>
    BY <2>1
  <2>2. CASE tabs # <<>>
    BY <2>2, ContentCounts DEF TalkInv
  <2> QED BY <2>1, <2>2
<1> PICK page : page = IF screen > 3 THEN screen - 2 ELSE 1
  OBVIOUS
<1>4. page \in Nat
  BY <1>2
<1>5. \E top \in Nat : Redraw(cache, top)
  <2>1. \/ \E d \in {1, page} : Redraw(cache, ClampedTop(scroll + d, content, screen, FALSE))
        \/ \E d \in {1, page} : Redraw(cache, Monus(scroll, d))
        \/ Redraw(cache, 0)
        \/ Redraw(cache, ClampedTop(scroll, content, screen, TRUE))
    BY DEF Scrolls
  <2>2. \A d \in {1, page} : scroll + d \in Nat /\ Monus(scroll, d) \in Nat
    BY <1>1, <1>4 DEF Monus
  <2>3. \A d \in {1, page} : ClampedTop(scroll + d, content, screen, FALSE) \in Nat
    BY <1>2, <1>3, <2>2, TopCounts
  <2>4. ClampedTop(scroll, content, screen, TRUE) \in Nat
    BY <1>1, <1>2, <1>3, TopCounts
  <2> QED BY <2>1, <2>2, <2>3, <2>4
<1>6. Redraws(cache)
  BY <1>1, SameTabs
<1> QED BY <1>5, <1>6, RedrawKeeps

\* move_block_cursor: as far as the scrolling may go, the block ends on the screen or fills it.
StopsAt(start, tall, scrolled, screen) ==
  IF start < scrolled THEN start
  ELSE IF start + tall > scrolled + screen THEN start + Monus(tall, screen) ELSE scrolled

LEMMA CursorShows ==
  ASSUME NEW start \in Nat, NEW tall \in Nat \ {0}, NEW scrolled \in Nat, NEW screen \in Nat \ {0},
         NEW content \in Nat, start + tall <= content, NEW at \in Nat,
         at = ClampedTop(StopsAt(start, tall, scrolled, screen), content, screen, FALSE)
  PROVE  \/ start >= at /\ start + tall <= at + screen
         \/ start <= at /\ start + tall >= at + screen
<1>1. content - screen >= start + tall - screen
  OBVIOUS
<1>2. CASE start < scrolled
  BY <1>1, <1>2 DEF StopsAt, ClampedTop, Monus
<1>3. CASE ~(start < scrolled) /\ start + tall > scrolled + screen
  BY <1>1, <1>3 DEF StopsAt, ClampedTop, Monus
<1>4. CASE ~(start < scrolled) /\ ~(start + tall > scrolled + screen)
  BY <1>1, <1>4 DEF StopsAt, ClampedTop, Monus
<1> QED BY <1>2, <1>3, <1>4

LEMMA MovesKeeps ==
  ASSUME TalkInv, NEW d \in {-1, 1}, Moves(d), UNCHANGED <<tabs, active, width, palette>> PROVE TalkInv'
<1> PICK t : t = tabs[active]
  OBVIOUS
<1> PICK screen : screen = Screen(tabs)
  OBVIOUS
<1> PICK warm : warm = Ensured(cache, t, width, scroll, screen)
  OBVIOUS
<1> PICK to : to = IF d > 0 THEN IF chosen < Len(t.log) THEN chosen + 1 ELSE chosen
                   ELSE IF chosen > 1 THEN chosen - 1 ELSE 1
  OBVIOUS
<1>start. PICK start : start = RowsAbove(warm.rows, to)
  OBVIOUS
<1>tall. PICK tall : tall = warm.rows[to]
  OBVIOUS
<1>top. PICK top : top = IF start < scroll THEN start
                     ELSE IF start + tall > scroll + screen THEN start + Monus(tall, screen) ELSE scroll
  OBVIOUS
<1>1. tabs # <<>> /\ t.log # <<>> /\ chosen' = to /\ follow' = FALSE /\ placed' = TRUE /\ Redraw(warm, top)
  BY <1>start, <1>tall, <1>top DEF Moves
<1>2. /\ IsSeq(tabs) /\ \A n \in DOMAIN tabs : IsTab(tabs[n])
      /\ active \in DOMAIN tabs /\ IsTab(t) /\ Fits(cache, t, width) /\ width \in Widths
      /\ chosen \in Nat \ {0} /\ scroll \in Nat /\ (chosen = 1 \/ chosen <= Len(t.log))
  BY <1>1 DEF TalkInv
<1>3. Len(t.log) \in Nat \ {0} /\ DOMAIN t.log = 1 .. Len(t.log)
  BY <1>1, <1>2, SeqDomain DEF IsTab, IsSeq
<1>4. to \in 1 .. Len(t.log)
  BY <1>2, <1>3
<1>5. Usable(cache, t, width)
  BY <1>2, FollowsItself, FollowedCache
<1>6. Fits(warm, t, width)
  BY <1>2, <1>5, WarmCache
<1>7. Usable(warm, t, width)
  BY <1>2, <1>6, FollowsItself, FollowedCache
<1>8. IsRows(warm.rows) /\ Len(warm.rows) = Len(t.log)
  BY <1>1, <1>2, <1>6, CacheCounts
<1>9. /\ start \in Nat /\ tall \in Nat \ {0} /\ RowsAbove(warm.rows, to + 1) = start + tall
      /\ start + tall <= Total(warm.rows)
  <2>1. to \in DOMAIN warm.rows /\ DOMAIN warm.rows = 1 .. Len(t.log)
    BY <1>4, <1>8, SeqDomain DEF IsRows
  <2>2. tall \in Nat \ {0}
    BY <1>8, <1>tall, <2>1 DEF IsRows
  <2>3. to \in 1 .. Len(warm.rows) /\ to \in 1 .. Len(warm.rows) + 1 /\ to + 1 \in 1 .. Len(warm.rows) + 1
    BY <1>3, <1>4, <1>8
  <2>4. start \in Nat /\ RowsAbove(warm.rows, to + 1) = start + tall /\ RowsAbove(warm.rows, to + 1) <= Total(warm.rows)
    BY <1>8, <1>start, <1>tall, <2>3, AboveIs
  <2> QED BY <2>2, <2>4
<1>10. screen \in Nat \ {0}
  BY <1>2, ScreenRows
<1>11. top \in Nat
  <2>1. Monus(tall, screen) \in Nat
    BY <1>9, <1>10 DEF Monus
  <2>2. top \in {start, start + Monus(tall, screen), scroll}
    BY <1>top
  <2> QED BY <1>2, <1>9, <2>1, <2>2
<1>12. tabs' = tabs /\ active' = active /\ width' = width
  OBVIOUS
<1>13. /\ Fits(cache', t, width) /\ scroll' \in Nat
       /\ cache' = Ensured(warm, t, width, top, screen)
       /\ scroll' = ClampedTop(top, Content(cache', t), screen, FALSE)
  <2>1. tabs' # <<>> /\ IsSeq(tabs') /\ IsTab(tabs'[active']) /\ width' \in Widths /\ Usable(warm, tabs'[active'], width')
    BY <1>1, <1>2, <1>7, <1>12
  <2>2. /\ Fits(cache', tabs'[active'], width') /\ scroll' \in Nat
        /\ cache' = Ensured(warm, tabs'[active'], width', top, Screen(tabs'))
        /\ scroll' = ClampedTop(top, Content(cache', tabs'[active']), Screen(tabs'), follow')
    BY <1>1, <1>11, <2>1, Redrawn
  <2>3. tabs'[active'] = t /\ Screen(tabs') = screen
    BY <1>12
  <2> QED BY <1>1, <1>12, <2>2, <2>3
<1>14. cache'.rows = warm.rows
  <2>1. Valid(warm, t, width) /\ IsCache(warm)
    BY <1>1, <1>6 DEF Fits, FitsBlocks
  <2>2. cache' = Seen(warm, t, top, screen)
    BY <1>13, <2>1 DEF Ensured
  <2> QED BY <2>1, <2>2 DEF Seen, IsCache
<1>15. Content(cache', t) \in Nat /\ start + tall <= Content(cache', t)
  <2>1. Content(cache', t) \in Nat /\ Total(cache'.rows) <= Content(cache', t)
    BY <1>1, <1>2, <1>13, ContentCounts
  <2>2. Total(warm.rows) \in Nat
    <3>1. Len(warm.rows) + 1 \in 1 .. Len(warm.rows) + 1
      BY <1>3, <1>8
    <3> QED BY <1>8, <3>1, AboveIs DEF Total
  <2> QED BY <1>9, <1>14, <2>1, <2>2
<1>16. \/ start >= scroll' /\ start + tall <= scroll' + screen
       \/ start <= scroll' /\ start + tall >= scroll' + screen
  <2>1. PICK content \in Nat : start + tall <= content /\ scroll' = ClampedTop(top, content, screen, FALSE)
    BY <1>13, <1>15
  <2>2. top = StopsAt(start, tall, scroll, screen)
    BY <1>top DEF StopsAt
  <2>3. scroll' = ClampedTop(StopsAt(start, tall, scroll, screen), content, screen, FALSE)
    BY <2>1, <2>2
  <2>4. scroll \in Nat /\ start \in Nat /\ tall \in Nat \ {0} /\ screen \in Nat \ {0} /\ start + tall <= content
    BY <1>2, <1>9, <1>10, <2>1
  <2>5. scroll' \in Nat
    BY <1>13
  <2> QED BY <2>3, <2>4, <2>5, CursorShows
<1>17. Showing'
  <2>1. RowsAbove(cache'.rows, chosen') = start /\ RowsAbove(cache'.rows, chosen' + 1) = start + tall
    BY <1>start, <1>1, <1>9, <1>14
  <2>2. Screen(tabs') = screen
    BY <1>12
  <2> QED BY <1>16, <2>1, <2>2 DEF Showing
<1>18. /\ chosen' \in Nat \ {0} /\ chosen' <= Len(t.log) /\ chosen' \in DOMAIN t.log
  BY <1>1, <1>3, <1>4
<1> QED BY <1>1, <1>2, <1>12, <1>13, <1>17, <1>18 DEF TalkInv

LEMMA NextTabKeeps == ASSUME TalkInv, NextTab PROVE TalkInv'
<1>1. /\ tabs # <<>> /\ active' = (active % Len(tabs)) + 1 /\ chosen' = 1 /\ ~placed'
      /\ tabs' = tabs /\ width' = width /\ palette' = palette /\ Redraw(NoCache, 0)
  BY DEF NextTab
<1>2. /\ IsSeq(tabs) /\ (\A n \in DOMAIN tabs : IsTab(tabs[n])) /\ active \in DOMAIN tabs /\ width \in Widths
      /\ Len(tabs) \in Nat /\ DOMAIN tabs = 1 .. Len(tabs)
  BY <1>1, SeqDomain DEF TalkInv
<1>3. active' \in DOMAIN tabs
  BY <1>1, <1>2
<1>4. Redraws(NoCache)
  BY <1>1, <1>2, <1>3 DEF Redraws, Usable
<1> QED BY <1>1, <1>4, RedrawKeeps

LEMMA TabClosesKeeps == ASSUME TalkInv, TabCloses PROVE TalkInv'
<1>1. /\ tabs # <<>> /\ tabs' = RemoveAt(tabs, active) /\ palette' = "none"
      /\ active' = IF Len(tabs) > 1 /\ active = Len(tabs) THEN active - 1 ELSE active
      /\ chosen' = 1 /\ ~placed' /\ width' = width /\ Redraw(NoCache, 0)
  BY DEF TabCloses, Idle
<1>2. /\ IsSeq(tabs) /\ (\A n \in DOMAIN tabs : IsTab(tabs[n])) /\ active \in DOMAIN tabs /\ width \in Widths
      /\ Len(tabs) \in Nat /\ DOMAIN tabs = 1 .. Len(tabs)
  BY <1>1, SeqDomain DEF TalkInv
<1>3. IsSeq(tabs') /\ DOMAIN tabs' = 1 .. Len(tabs) - 1
  BY <1>1, <1>2, RemoveOf
<1>4. ASSUME NEW j \in DOMAIN tabs' PROVE IsTab(tabs'[j])
  <2>1. \/ j < active /\ j \in DOMAIN tabs /\ tabs'[j] = tabs[j]
        \/ j >= active /\ j + 1 \in DOMAIN tabs /\ tabs'[j] = tabs[j + 1]
    BY <1>1, <1>2, <1>3, RemoveOf
  <2> QED BY <1>2, <2>1
<1>5. CASE Len(tabs) > 1
  <2>1. active' \in DOMAIN tabs'
    BY <1>1, <1>2, <1>3, <1>5
  <2>2. tabs' # <<>>
    BY <2>1, NoThread
  <2>3. Redraws(NoCache)
    BY <1>1, <1>2, <1>3, <1>4, <2>1, <2>2 DEF Redraws, Usable
  <2> QED BY <1>1, <2>3, RedrawKeeps
<1>6. CASE ~(Len(tabs) > 1)
  <2>1. active = 1 /\ active' = 1 /\ DOMAIN tabs' = {}
    BY <1>1, <1>2, <1>3, <1>6
  <2>2. tabs' = <<>>
    <3>1. Len(tabs') = 0
      BY <1>3, <2>1, SeqDomain, LenOf
    <3> QED BY <1>3, <3>1 DEF IsSeq
  <2>3. Redraws(NoCache)
    BY <1>1, <1>2, <1>3, <1>4, <2>1, <2>2 DEF Redraws
  <2> QED BY <1>1, <2>3, RedrawKeeps
<1> QED BY <1>5, <1>6

LEMMA UserKeyKeeps == ASSUME TalkInv, UserKey PROVE TalkInv'
<1>1. /\ scroll \in Nat /\ width \in Widths /\ IsSeq(tabs) /\ (\A n \in DOMAIN tabs : IsTab(tabs[n]))
      /\ tabs # <<>> => active \in DOMAIN tabs
  BY DEF TalkInv
<1> PICK t : t = tabs[active]
  OBVIOUS
<1>2. tabs # <<>> => IsTab(t)
  BY <1>1
<1>3. ASSUME tabs # <<>>, NEW v, DOMAIN v = DOMAIN t, v.log = t.log, v.generation = t.generation, Alters(v, cache)
      PROVE  TalkInv'
  BY <1>2, <1>3, AsideTab, AltersKeeps
<1>4. ASSUME ViewKey PROVE TalkInv'
  BY <1>4, ScrollsKeeps, MovesKeeps DEF ViewKey
<1>5. ASSUME ExpandKey PROVE TalkInv'
  <2> DEFINE v == [t EXCEPT !.expanded = Toggled(@, chosen)]
  <2>1. DOMAIN v = DOMAIN t /\ v.log = t.log /\ v.generation = t.generation
    OBVIOUS
  <2>2. tabs # <<>> /\ Alters(v, cache)
    BY <1>5 DEF ExpandKey
  <2> HIDE DEF v
  <2> QED BY <1>3, <2>1, <2>2
<1>6. ASSUME ApproveKey PROVE TalkInv'
  <2>1. /\ UNCHANGED <<active, chosen, width, palette>> /\ ~placed' /\ Redraw(cache, scroll)
        /\ tabs' = IF tabs = <<>> THEN tabs ELSE [tabs EXCEPT ![active] = Logged(@, "text", 1)]
    BY <1>6 DEF ApproveKey
  <2>2. CASE tabs = <<>>
    <3>1. tabs' = tabs /\ width' \in Widths
      BY <1>1, <2>1, <2>2
    <3>2. Redraws(cache)
      BY <2>1, <3>1, SameTabs
    <3> QED BY <1>1, <2>1, <3>2, RedrawKeeps
  <2>3. CASE tabs # <<>>
    <3> DEFINE u == Logged(t, "text", 1)
    <3>1. tabs' = [tabs EXCEPT ![active] = u] /\ active \in DOMAIN tabs
      BY <1>1, <2>1, <2>3
    <3>2. Later(t, u)
      BY <1>2, <2>3, LoggedTab
    <3> HIDE DEF u
    <3>3. Redraws(cache)
      BY <2>1, <3>1, <3>2, OneTabGoesOn
    <3> QED BY <1>1, <2>1, <3>3, RedrawKeeps
  <2> QED BY <2>2, <2>3
<1>7. ASSUME PromptAnswered PROVE TalkInv'
  <2>1. PICK n \in DOMAIN tabs : tabs' = [tabs EXCEPT ![n].pending = "none"]
    BY <1>7 DEF PromptAnswered
  <2>2. UNCHANGED <<active, chosen, width, palette>> /\ ~placed' /\ Redraw(cache, scroll)
    BY <1>7 DEF PromptAnswered
  <2> PICK s : s = tabs[n]
    OBVIOUS
  <2> DEFINE u == [s EXCEPT !.pending = "none"]
  <2>3. DOMAIN u = DOMAIN s /\ u.log = s.log /\ u.generation = s.generation
    OBVIOUS
  <2>4. tabs' = [tabs EXCEPT ![n] = u]
    BY <2>1
  <2> HIDE DEF u
  <2>5. Later(s, u)
    BY <1>1, <2>3, AsideTab
  <2>6. Redraws(cache)
    BY <2>2, <2>4, <2>5, OneTabGoesOn
  <2> QED BY <1>1, <2>2, <2>6, RedrawKeeps
<1>8. ASSUME SendsText PROVE TalkInv'
  <2>1. tabs # <<>>
    BY <1>8 DEF SendsText
  <2>2. Alters(t, cache) \/ \E lines \in Lengths : Alters(Logged(t, "text", lines), cache)
    BY <1>8 DEF SendsText
  <2>3. Later(t, t)
    BY <1>2, <2>1, FollowsItself DEF Later
  <2>4. \A lines \in Lengths : Later(t, Logged(t, "text", lines))
    BY <1>2, <2>1, LoggedTab, ConversationAssumption
  <2> QED BY <2>1, <2>2, <2>3, <2>4, AltersKeeps
<1>9. ASSUME Resized PROVE TalkInv'
  <2>1. UNCHANGED <<tabs, active, chosen, palette>> /\ ~placed' /\ Redraw(cache, scroll) /\ width' \in Widths
    BY <1>9 DEF Resized, Widths
  <2>2. Redraws(cache)
    BY <2>1, SameTabs
  <2> QED BY <1>1, <2>1, <2>2, RedrawKeeps
<1>10. ASSUME Themed PROVE TalkInv'
  <2>1. UNCHANGED <<tabs, active, chosen, palette>> /\ ~placed' /\ Redraw(NoCache, scroll) /\ width' \in Widths
    BY <1>1, <1>10 DEF Themed
  <2>2. Redraws(NoCache)
    BY <2>1, SameTabs
  <2> QED BY <1>1, <2>1, <2>2, RedrawKeeps
<1>11. ASSUME OpenPalette PROVE TalkInv'
  <2> DEFINE v == [t EXCEPT !.expanded = @ \cup {chosen}]
  <2>1. DOMAIN v = DOMAIN t /\ v.log = t.log /\ v.generation = t.generation
    OBVIOUS
  <2>2. tabs # <<>> /\ Alters(v, cache)
    BY <1>11 DEF OpenPalette
  <2> HIDE DEF v
  <2> QED BY <1>3, <2>1, <2>2
<1>12. ASSUME Cancels PROVE TalkInv'
  <2> DEFINE v == [t EXCEPT !.expanded = before.expanded, !.wrapped = before.wrapped]
  <2>1. DOMAIN v = DOMAIN t /\ v.log = t.log /\ v.generation = t.generation
    OBVIOUS
  <2>2. tabs # <<>> /\ Alters(v, cache)
    BY <1>12 DEF Cancels, TalkInv
  <2> HIDE DEF v
  <2> QED BY <1>3, <2>1, <2>2
<1>13. ASSUME Acts PROVE TalkInv'
  <2> DEFINE v == [t EXCEPT !.expanded = Toggled(@, chosen)]
             u == [t EXCEPT !.wrapped = Toggled(@, chosen)]
  <2>1. /\ DOMAIN v = DOMAIN t /\ v.log = t.log /\ v.generation = t.generation
        /\ DOMAIN u = DOMAIN t /\ u.log = t.log /\ u.generation = t.generation
    OBVIOUS
  <2>2. tabs # <<>> /\ (Alters(v, cache) \/ Alters(u, cache) \/ Alters(t, cache))
    BY <1>13 DEF Acts, TalkInv
  <2> HIDE DEF v, u
  <2> QED BY <1>3, <2>1, <2>2
<1> QED BY <1>4, <1>5, <1>6, <1>7, <1>8, <1>9, <1>10, <1>11, <1>12, <1>13, NextTabKeeps, TabClosesKeeps DEF UserKey

LEMMA TalkStart == ASSUME TalkInit PROVE TalkInv
BY NoThread DEF TalkInit, TalkInv, Widths

LEMMA TalkStep == ASSUME TalkInv, [TalkNext]_talkVars PROVE TalkInv'
<1>1. CASE UserKey
  BY <1>1, UserKeyKeeps
<1>2. CASE TabOpens
  BY <1>2, TabOpensKeeps
<1>3. CASE \E n \in DOMAIN tabs : CoreEvent(n)
  BY <1>3, CoreEventKeeps
<1>4. CASE SaveCloses
  <2>1. tabs # <<>> /\ Alters(tabs[active], cache)
    BY <1>4 DEF SaveCloses, TalkInv
  <2>2. Later(tabs[active], tabs[active])
    BY <2>1, FollowsItself DEF TalkInv, Later
  <2> QED BY <2>1, <2>2, AltersKeeps
<1>5. CASE UNCHANGED talkVars
  BY <1>5 DEF talkVars, TalkInv, Showing
<1> QED BY <1>1, <1>2, <1>3, <1>4, <1>5 DEF TalkNext

\* What the screen shows of a block is what the block is now, or what it was before its
\* result came, which is what the cache keeps when only the generation has changed; and
\* the block the cursor was just moved to is on the screen, unless such a lag has put the
\* counts of rows wrong or the offset exceeds what the widget counts (ensure_line_cache,
\* ui/conversation.rs, move_block_cursor).
THEOREM ShowsTheLogInvariance == TalkSpec => []ShowsTheLog
<1>1. TalkInv => ShowsTheLog
  <2> SUFFICES ASSUME TalkInv, tabs # <<>> PROVE ShowsTheLog
    BY DEF ShowsTheLog
  <2> PICK t : t = tabs[active]
    OBVIOUS
  <2>1. /\ IsTab(t) /\ Fits(cache, t, width) /\ active \in DOMAIN tabs
        /\ placed => chosen \in DOMAIN t.log /\ Showing
    BY DEF TalkInv
  <2>2. Len(t.log) \in Nat /\ DOMAIN t.log = 1 .. Len(t.log)
    BY <2>1, SeqDomain DEF IsTab
  <2>3. \A i \in DOMAIN t.log : AsNow(i) = Look(t, i, width) /\ Awaiting(i) = Await(t, i, width)
    BY DEF AsNow, Awaiting, Await
  <2>4. t.log # <<>> => /\ FitsBlocks(cache, t, width) /\ cache # NoCache
                        /\ Len(cache.rows) = Len(t.log) /\ Len(cache.lines) = Len(t.log)
    <3> SUFFICES ASSUME t.log # <<>> PROVE /\ FitsBlocks(cache, t, width) /\ cache # NoCache
                        /\ Len(cache.rows) = Len(t.log) /\ Len(cache.lines) = Len(t.log)
      OBVIOUS
    <3>1. FitsBlocks(cache, t, width) /\ cache # NoCache
      BY <2>1 DEF Fits, Valid
    <3>2. Len(cache.rows) = Len(t.log)
      BY <2>1, CacheCounts
    <3>3. DOMAIN cache.lines = 1 .. Len(t.log)
      BY <2>2, <3>1 DEF FitsBlocks
    <3> QED BY <2>2, <3>1, <3>2, <3>3, LenOf
  <2>5. \A i \in DOMAIN t.log : t.log # <<>>
    BY NoThread
  <2>6. ASSUME NEW i \in DOMAIN t.log
        PROVE  /\ Drawn(i) \in {AsNow(i), Awaiting(i)}
               /\ cache.rows[i] \in {Rows(AsNow(i)), Rows(Awaiting(i))}
               /\ Drawn(i) = AsNow(i) \/ cache.rows[i] = Rows(Drawn(i))
    <3>1. FitsBlock(cache, t, width, i)
      BY <2>4, <2>5 DEF FitsBlocks
    <3>2. \/ Drawn(i) = Look(t, i, width)
          \/ Drawn(i) = cache.lines[i] /\ cache.lines[i] # Unseen
      <4>1. Drawn(i) = IF i = chosen \/ cache = NoCache THEN Look(t, i, width)
                       ELSE IF Len(cache.lines) # Len(t.log) \/ cache.lines[i] = Unseen THEN Look(t, i, width)
                       ELSE cache.lines[i]
        BY DEF Drawn
      <4> QED BY <4>1
    <3> QED BY <2>3, <3>1, <3>2 DEF FitsBlock
  <2> DEFINE rows == [i \in DOMAIN t.log |-> Rows(Drawn(i))]
             bottom == Top + Screen(tabs)
  <2>7. ASSUME placed, \A i \in DOMAIN t.log : cache.rows[i] = Rows(AsNow(i)),
               scroll < OffsetLimit
        PROVE  \/ RowsAbove(rows, chosen) >= Top /\ RowsAbove(rows, chosen + 1) <= bottom
               \/ RowsAbove(rows, chosen) <= Top /\ RowsAbove(rows, chosen + 1) >= bottom
    <3>1. \A i \in DOMAIN t.log : Rows(Drawn(i)) = cache.rows[i]
      BY <2>6, <2>7
    <3>2. cache.rows = [i \in DOMAIN t.log |-> cache.rows[i]]
      BY <2>1, <2>4, <2>5, <2>7 DEF FitsBlocks
    <3>3. rows = cache.rows
      BY <3>1, <3>2
    <3>4. Top = scroll
      <4>1. scroll \in Nat /\ OffsetLimit \in Nat \ {0}
        BY ConversationAssumption DEF TalkInv
      <4> QED BY <2>7, <4>1 DEF Top
    <3> HIDE DEF rows
    <3> QED BY <2>1, <2>7, <3>3, <3>4 DEF Showing
  <2> HIDE DEF rows
  <2>8. /\ t.log # <<>> => cache # NoCache /\ Len(cache.rows) = Len(t.log)
        /\ \A i \in DOMAIN t.log :
             /\ Drawn(i) \in {AsNow(i), Awaiting(i)}
             /\ cache.rows[i] \in {Rows(AsNow(i)), Rows(Awaiting(i))}
    BY <2>4, <2>6
  <2> QED BY <2>7, <2>8 DEF ShowsTheLog, rows
<1> QED BY <1>1, TalkStart, TalkStep, PTL DEF TalkSpec

-----------------------------------------------------------------------------
(* The bytes of a text.                                                    *)

\* A function that is defined step by step exists, and its values have the type of the steps.
StepsFrom(v, g, m, f) == f[0] = v /\ \A k \in 1 .. m : f[k] = g[<<k, f[k - 1]>>]

LEMMA StepsExist ==
  ASSUME NEW n \in Nat, NEW V, NEW v \in V, NEW g \in [(1 .. n) \X V -> V]
  PROVE  \E f \in [0 .. n -> V] : StepsFrom(v, g, n, f)
<1> DEFINE Partly == {m \in 0 .. n : \E f \in [0 .. m -> V] : StepsFrom(v, g, m, f)}
<1> USE DEF StepsFrom
<1>1. 0 \in Partly
  <2> DEFINE f == [k \in 0 .. 0 |-> v]
  <2>1. f \in [0 .. 0 -> V] /\ StepsFrom(v, g, 0, f)
    OBVIOUS
  <2> HIDE DEF f, StepsFrom
  <2> QED BY <2>1
<1>2. ASSUME NEW m \in 1 .. n, m - 1 \in Partly PROVE m \in Partly
  <2>1. PICK h \in [0 .. m - 1 -> V] : StepsFrom(v, g, m - 1, h)
    BY <1>2
  <2> DEFINE w == g[<<m, h[m - 1]>>]
             f == [k \in 0 .. m |-> IF k = m THEN w ELSE h[k]]
  <2>2. w \in V
    BY <2>1
  <2>3. f \in [0 .. m -> V]
    <3> HIDE DEF w
    <3> QED BY <2>1, <2>2
  <2>4. f[0] = v
    BY <2>1
  <2>5. ASSUME NEW k \in 1 .. m PROVE f[k] = g[<<k, f[k - 1]>>]
    <3>1. f[k - 1] = h[k - 1]
      BY <2>1
    <3>2. CASE k = m
      <4>1. f[m] = w
        OBVIOUS
      <4> HIDE DEF f
      <4> QED BY <3>1, <3>2, <4>1
    <3>3. CASE k # m
      <4>1. k \in 1 .. m - 1 /\ f[k] = h[k]
        BY <3>3
      <4> HIDE DEF f
      <4> QED BY <2>1, <3>1, <4>1
    <3> QED BY <3>2, <3>3
  <2> HIDE DEF f
  <2> QED BY <2>3, <2>4, <2>5
<1> HIDE DEF Partly
<1>3. \A m \in 0 .. n : m \in Partly
  BY <1>1, <1>2, UpTo
<1>4. n \in Partly
  BY <1>3
<1> QED BY <1>4 DEF Partly

\* The bytes before a character, one character after the other.
LEMMA BytesAre ==
  ASSUME NEW t, IsSeq(t)
  PROVE  /\ BytesTo(t, 0) = 0
         /\ \A n \in 0 .. Len(t) : BytesTo(t, n) \in Nat
         /\ \A n \in 1 .. Len(t) : BytesTo(t, n) = BytesTo(t, n - 1) + Width(t[n])
<1> DEFINE n == Len(t)
           g == [p \in (1 .. n) \X Nat |-> p[2] + Width(t[p[1]])]
<1>1. n \in Nat /\ \A c : Width(c) \in Nat
  BY SeqDomain DEF Width
<1>2. g \in [(1 .. n) \X Nat -> Nat]
  <2>1. \A p \in (1 .. n) \X Nat : p[2] \in Nat /\ Width(t[p[1]]) \in Nat
    BY <1>1
  <2> HIDE DEF n
  <2> QED BY <2>1
<1> HIDE DEF n
<1>3. PICK f \in [0 .. n -> Nat] : StepsFrom(0, g, n, f)
  <2> HIDE DEF g
  <2> QED BY <1>1, <1>2, StepsExist
<1> USE DEF StepsFrom
<1>4. ASSUME NEW k \in 1 .. n PROVE f[k] = f[k - 1] + Width(t[k])
  <2>1. f[k - 1] \in Nat
    BY <1>1, <1>3
  <2>2. g[<<k, f[k - 1]>>] = f[k - 1] + Width(t[k])
    BY <2>1
  <2> HIDE DEF g
  <2> QED BY <1>3, <2>2
<1>6. f = [k \in 0 .. n |-> IF k = 0 THEN 0 ELSE f[k - 1] + Width(t[k])]
  <2> HIDE DEF g
  <2>1. ASSUME NEW k \in 0 .. n PROVE f[k] = IF k = 0 THEN 0 ELSE f[k - 1] + Width(t[k])
    <3>1. k = 0 \/ k \in 1 .. n
      OBVIOUS
    <3> QED BY <1>3, <1>4, <3>1
  <2>2. f = [k \in 0 .. n |-> f[k]]
    BY <1>3
  <2> QED BY <2>1, <2>2
<1>7. PICK sum : /\ sum = [k \in 0 .. n |-> IF k = 0 THEN 0 ELSE sum[k - 1] + Width(t[k])]
                 /\ \A i : BytesTo(t, i) = sum[i]
  BY <1>6 DEF BytesTo, n
<1>8. sum[0] = 0 /\ \A k \in 1 .. n : sum[k] = sum[k - 1] + Width(t[k])
  BY <1>1, <1>7
<1>9. \A k \in 0 .. n : sum[k] \in Nat
  <2> DEFINE S == {k \in 0 .. n : sum[k] \in Nat}
  <2>1. 0 \in S /\ \A k \in 1 .. n : k - 1 \in S => k \in S
    BY <1>1, <1>8
  <2> HIDE DEF S
  <2>2. \A k \in 0 .. n : k \in S
    BY <1>1, <2>1, UpTo
  <2> QED BY <2>2 DEF S
<1> QED BY <1>7, <1>8, <1>9 DEF n

\* Texts that begin alike have as many bytes there.
LEMMA BytesAlike ==
  ASSUME NEW t, IsSeq(t), NEW u, IsSeq(u), NEW m \in Nat, m <= Len(t), m <= Len(u),
         \A k \in 1 .. m : t[k] = u[k]
  PROVE  BytesTo(t, m) = BytesTo(u, m)
<1> DEFINE S == {k \in 0 .. m : BytesTo(t, k) = BytesTo(u, k)}
<1>1. Len(t) \in Nat /\ Len(u) \in Nat
  BY SeqDomain
<1>2. 0 \in S
  BY BytesAre
<1>3. ASSUME NEW k \in 1 .. m, k - 1 \in S PROVE k \in S
  <2>1. k \in 1 .. Len(t) /\ k \in 1 .. Len(u) /\ t[k] = u[k]
    BY <1>1
  <2>2. /\ BytesTo(t, k) = BytesTo(t, k - 1) + Width(t[k])
        /\ BytesTo(u, k) = BytesTo(u, k - 1) + Width(u[k])
    BY <2>1, BytesAre
  <2> QED BY <1>3, <2>1, <2>2
<1> HIDE DEF S
<1>4. \A k \in 0 .. m : k \in S
  BY <1>2, <1>3, UpTo
<1> QED BY <1>4 DEF S

\* The bytes of two texts, one behind the other.
LEMMA BytesJoined ==
  ASSUME NEW s, IsSeq(s), NEW t, IsSeq(t), NEW m \in 0 .. Len(t)
  PROVE  BytesTo(s \o t, Len(s) + m) = Bytes(s) + BytesTo(t, m)
<1> DEFINE S == {k \in 0 .. Len(t) : BytesTo(s \o t, Len(s) + k) = Bytes(s) + BytesTo(t, k)}
<1>1. /\ Len(s) \in Nat /\ Len(t) \in Nat /\ DOMAIN s = 1 .. Len(s) /\ DOMAIN t = 1 .. Len(t)
      /\ IsSeq(s \o t) /\ Len(s \o t) = Len(s) + Len(t)
      /\ \A i \in 1 .. Len(s) : (s \o t)[i] = s[i]
      /\ \A i \in 1 .. Len(t) : (s \o t)[Len(s) + i] = t[i]
  BY SeqDomain, ConcatOf
<1>2. Bytes(s) \in Nat /\ BytesTo(t, 0) = 0
  BY <1>1, BytesAre DEF Bytes
<1>3. BytesTo(s \o t, Len(s)) = Bytes(s)
  <2>1. Len(s) <= Len(s) /\ Len(s) <= Len(s \o t) /\ \A k \in 1 .. Len(s) : s[k] = (s \o t)[k]
    BY <1>1
  <2>2. BytesTo(s, Len(s)) = BytesTo(s \o t, Len(s))
    BY <1>1, <2>1, BytesAlike
  <2> QED BY <2>2 DEF Bytes
<1>4. 0 \in S
  BY <1>1, <1>2, <1>3
<1>5. ASSUME NEW k \in 1 .. Len(t), k - 1 \in S PROVE k \in S
  <2>1. Len(s) + k \in 1 .. Len(s \o t) /\ Len(s) + (k - 1) = (Len(s) + k) - 1
    BY <1>1
  <2>2. BytesTo(s \o t, Len(s) + k) = BytesTo(s \o t, (Len(s) + k) - 1) + Width((s \o t)[Len(s) + k])
    BY <1>1, <2>1, BytesAre
  <2>3. (s \o t)[Len(s) + k] = t[k]
    BY <1>1
  <2>4. BytesTo(t, k) = BytesTo(t, k - 1) + Width(t[k]) /\ BytesTo(t, k - 1) \in Nat
    <3>1. k - 1 \in 0 .. Len(t)
      BY <1>1
    <3> QED BY <3>1, BytesAre
  <2>5. BytesTo(s \o t, Len(s) + (k - 1)) = Bytes(s) + BytesTo(t, k - 1)
    BY <1>5
  <2>6. Width(t[k]) \in Nat
    BY DEF Width
  <2>7. BytesTo(s \o t, Len(s) + k) = Bytes(s) + BytesTo(t, k)
    BY <1>2, <2>1, <2>2, <2>3, <2>4, <2>5, <2>6
  <2> QED BY <2>7
<1> HIDE DEF S
<1>6. \A k \in 0 .. Len(t) : k \in S
  BY <1>1, <1>4, <1>5, UpTo
<1> QED BY <1>6 DEF S

LEMMA BytesOfTwo ==
  ASSUME NEW s, IsSeq(s), NEW t, IsSeq(t)
  PROVE  /\ IsSeq(s \o t) /\ Bytes(s \o t) = Bytes(s) + Bytes(t)
         /\ Bytes(s) \in Nat /\ Bytes(t) \in Nat
         /\ Bytes(s) \in Boundaries(s \o t)
<1>1. /\ Len(s) \in Nat /\ Len(t) \in Nat /\ IsSeq(s \o t) /\ Len(s \o t) = Len(s) + Len(t)
  BY SeqDomain, ConcatOf
<1>2. Bytes(s) \in Nat /\ Bytes(t) \in Nat /\ BytesTo(t, 0) = 0
  BY <1>1, BytesAre DEF Bytes
<1>3. BytesTo(s \o t, Len(s) + 0) = Bytes(s) + 0 /\ BytesTo(s \o t, Len(s) + Len(t)) = Bytes(s) + Bytes(t)
  BY <1>1, <1>2, BytesJoined DEF Bytes
<1>4. Len(s) + 0 \in 0 .. Len(s \o t) /\ Bytes(s) + 0 = Bytes(s)
  BY <1>1, <1>2
<1> QED BY <1>1, <1>2, <1>3, <1>4 DEF Bytes, Boundaries

-----------------------------------------------------------------------------
(* A text with a cursor between two of its characters.                     *)

IsBuffer(e) == e = Buffer(e.text, e.cur) /\ IsSeq(e.text)
Sound(e) == IsBuffer(e) /\ e.cur \in Boundaries(e.text)

LEMMA PartOf ==
  ASSUME NEW t, IsSeq(t), NEW a \in 1 .. Len(t) + 1, NEW b \in a - 1 .. Len(t)
  PROVE  /\ IsSeq(SubSeq(t, a, b)) /\ Len(SubSeq(t, a, b)) = b - a + 1
         /\ \A k \in 1 .. b - a + 1 : SubSeq(t, a, b)[k] = t[a + k - 1]
<1>1. Len(t) \in Nat /\ t \in Seq(ToSet(t))
  BY SeqDomain DEF IsSeq
<1>2. \A i \in a .. b : t[i] \in ToSet(t)
  BY <1>1 DEF ToSet
<1>3. /\ SubSeq(t, a, b) \in Seq(ToSet(t)) /\ Len(SubSeq(t, a, b)) = IF a <= b THEN b - a + 1 ELSE 0
      /\ \A k \in 1 .. b - a + 1 : SubSeq(t, a, b)[k] = t[a + k - 1]
  BY <1>1, <1>2, SubSeqProperties
<1>4. IsSeq(SubSeq(t, a, b))
  BY <1>3, AnySeq
<1>5. Len(SubSeq(t, a, b)) = b - a + 1
  BY <1>1, <1>3
<1> QED BY <1>3, <1>4, <1>5

LEMMA BytesOfOne == ASSUME NEW c PROVE IsSeq(<<c>>) /\ Bytes(<<c>>) = Width(c) /\ Width(c) \in Nat
<1> DEFINE t == <<c>>
<1>1. t \in Seq({c}) /\ Len(t) = 1 /\ t[1] = c /\ Width(c) \in Nat
  BY DEF Width
<1> HIDE DEF t
<1>2. IsSeq(t)
  BY <1>1, AnySeq
<1>3. 1 \in 1 .. Len(t) /\ 1 - 1 = 0
  BY <1>1
<1>4. BytesTo(t, 1) = BytesTo(t, 1 - 1) + Width(t[1]) /\ BytesTo(t, 0) = 0
  BY <1>2, <1>3, BytesAre
<1>5. Bytes(t) = Width(c)
  BY <1>1, <1>3, <1>4 DEF Bytes
<1> QED BY <1>1, <1>2, <1>5 DEF t

\* The cursor cuts the text in two.
LEMMA CutIs ==
  ASSUME NEW e, Sound(e)
  PROVE  /\ At(e) \in 0 .. Len(e.text) /\ BytesTo(e.text, At(e)) = e.cur /\ e.cur \in Nat
         /\ IsSeq(Before(e)) /\ IsSeq(After(e)) /\ e.text = Before(e) \o After(e)
         /\ Len(Before(e)) = At(e) /\ Len(After(e)) = Len(e.text) - At(e)
         /\ \A k \in 1 .. At(e) : Before(e)[k] = e.text[k]
         /\ \A k \in 1 .. Len(e.text) - At(e) : After(e)[k] = e.text[At(e) + k]
         /\ Bytes(Before(e)) = e.cur
<1> DEFINE t == e.text
           n == At(e)
<1>1. IsSeq(t) /\ Len(t) \in Nat /\ DOMAIN t = 1 .. Len(t) /\ t \in Seq(ToSet(t))
  BY SeqDomain DEF Sound, IsBuffer, IsSeq
<1>2. n \in 0 .. Len(t) /\ BytesTo(t, n) = e.cur
  BY DEF Sound, Boundaries, At
<1>3. e.cur \in Nat
  BY <1>1, <1>2, BytesAre
<1>4. Before(e) = SubSeq(t, 1, n) /\ After(e) = SubSeq(t, n + 1, Len(t))
  BY DEF Before, After
<1> HIDE DEF n, t
<1>5. /\ IsSeq(Before(e)) /\ Len(Before(e)) = n
      /\ \A k \in 1 .. n : Before(e)[k] = t[k]
  BY <1>1, <1>2, <1>4, PartOf
<1>6. IsSeq(After(e)) /\ Len(After(e)) = Len(t) - n
  <2>1. n + 1 \in 1 .. Len(t) + 1 /\ Len(t) \in (n + 1) - 1 .. Len(t) /\ Len(t) - (n + 1) + 1 = Len(t) - n
    BY <1>1, <1>2
  <2> QED BY <1>1, <1>4, <2>1, PartOf
<1>7. ASSUME NEW k \in 1 .. Len(t) - n PROVE After(e)[k] = t[n + k]
  <2>1. k \in 1 .. Len(t) - (n + 1) + 1 /\ (n + 1) + k - 1 = n + k
    BY <1>1, <1>2
  <2> QED BY <1>1, <1>2, <1>4, <2>1, PartOf
<1>8. t = Before(e) \o After(e)
  <2>1. n \in 1 - 1 .. Len(t) /\ Len(t) \in n .. Len(t) /\ 1 \in 1 .. Len(t) + 1
    BY <1>1, <1>2
  <2>2. SubSeq(t, 1, n) \o SubSeq(t, n + 1, Len(t)) = SubSeq(t, 1, Len(t))
    BY <1>1, <2>1, ConcatAdjacentSubSeq
  <2> QED BY <1>1, <1>4, <2>2, SubSeqFull
<1>9. Bytes(Before(e)) = e.cur
  <2>1. n <= Len(t) /\ n <= Len(Before(e)) /\ n \in Nat
    BY <1>1, <1>2, <1>5
  <2>2. BytesTo(Before(e), n) = BytesTo(t, n)
    BY <1>1, <1>5, <2>1, BytesAlike
  <2> QED BY <1>2, <1>5, <2>2 DEF Bytes
<1> QED BY <1>1, <1>2, <1>3, <1>5, <1>6, <1>7, <1>8, <1>9 DEF t, n

\* A buffer made of a text before the cursor and a text behind it.
LEMMA JoinedSound ==
  ASSUME NEW s, IsSeq(s), NEW t, IsSeq(t)
  PROVE  /\ Sound(Buffer(s \o t, Bytes(s))) /\ Bytes(s \o t) = Bytes(s) + Bytes(t)
         /\ Bytes(s) \in Nat /\ Bytes(t) \in Nat
BY BytesOfTwo DEF Sound, IsBuffer, Buffer

LEMMA InsertedSound ==
  ASSUME NEW e, Sound(e), NEW s, IsSeq(s)
  PROVE  Sound(Inserted(e, s)) /\ Bytes(Inserted(e, s).text) = Bytes(e.text) + Bytes(s)
<1> DEFINE b == Before(e)
           a == After(e)
<1>1. /\ IsSeq(b) /\ IsSeq(a) /\ e.text = b \o a /\ Bytes(b) = e.cur
  BY CutIs
<1>2. Inserted(e, s) = Buffer(b \o s \o a, e.cur + Bytes(s))
  BY DEF Inserted
<1> HIDE DEF a, b
<1>3. IsSeq(b \o s) /\ Bytes(b \o s) = e.cur + Bytes(s)
  BY <1>1, BytesOfTwo
<1>4. Sound(Inserted(e, s)) /\ Bytes(b \o s \o a) = Bytes(b \o s) + Bytes(a)
  BY <1>1, <1>2, <1>3, JoinedSound
<1>5. Bytes(e.text) = Bytes(b) + Bytes(a) /\ Bytes(a) \in Nat /\ Bytes(b) \in Nat /\ Bytes(s) \in Nat
  BY <1>1, BytesOfTwo
<1>6. Inserted(e, s).text = b \o s \o a
  BY <1>2 DEF Buffer
<1> QED BY <1>1, <1>3, <1>4, <1>5, <1>6

LEMMA LastOut ==
  ASSUME NEW e, Sound(e), e.cur # 0
  PROVE  LET b == Before(e) IN
         /\ At(e) >= 1 /\ IsSeq(Front(b)) /\ Last(b) = e.text[At(e)]
         /\ Bytes(Front(b)) = e.cur - Width(Last(b)) /\ Bytes(Front(b)) \in Nat
         /\ BytesTo(e.text, At(e) - 1) = Bytes(Front(b))
<1> DEFINE b == Before(e)
           n == At(e)
           t == e.text
<1>1. /\ n \in 0 .. Len(t) /\ BytesTo(t, n) = e.cur /\ e.cur \in Nat
      /\ IsSeq(b) /\ Len(b) = n /\ \A k \in 1 .. n : b[k] = t[k]
  BY CutIs
<1>2. IsSeq(t) /\ Len(t) \in Nat
  BY SeqDomain DEF Sound, IsBuffer
<1> HIDE DEF b, n, t
<1>3. n >= 1
  BY <1>1, <1>2, BytesAre
<1>4. Front(b) = SubSeq(b, 1, n - 1) /\ Last(b) = t[n]
  BY <1>1, <1>3 DEF Front, Last
<1>5. /\ IsSeq(Front(b)) /\ Len(Front(b)) = n - 1
      /\ \A k \in 1 .. n - 1 : Front(b)[k] = t[k]
  <2>1. /\ IsSeq(SubSeq(b, 1, n - 1)) /\ Len(SubSeq(b, 1, n - 1)) = (n - 1) - 1 + 1
        /\ \A k \in 1 .. (n - 1) - 1 + 1 : SubSeq(b, 1, n - 1)[k] = b[1 + k - 1]
    <3>1. 1 \in 1 .. Len(b) + 1 /\ n - 1 \in 1 - 1 .. Len(b)
      BY <1>1, <1>3
    <3> QED BY <1>1, <3>1, PartOf
  <2>2. (n - 1) - 1 + 1 = n - 1 /\ \A k \in 1 .. n - 1 : 1 + k - 1 = k /\ k \in 1 .. n
    BY <1>1, <1>3
  <2> QED BY <1>1, <1>4, <2>1, <2>2
<1>6. BytesTo(Front(b), n - 1) = BytesTo(t, n - 1)
  <2>1. n - 1 \in Nat /\ n - 1 <= Len(t) /\ n - 1 <= Len(Front(b))
    BY <1>1, <1>2, <1>3, <1>5
  <2> QED BY <1>2, <1>5, <2>1, BytesAlike
<1>7. BytesTo(t, n) = BytesTo(t, n - 1) + Width(t[n]) /\ BytesTo(t, n - 1) \in Nat
  <2>1. n \in 1 .. Len(t) /\ n - 1 \in 0 .. Len(t)
    BY <1>1, <1>2, <1>3
  <2> QED BY <1>2, <2>1, BytesAre
<1>8. Width(t[n]) \in Nat
  BY DEF Width
<1>9. Bytes(Front(b)) = BytesTo(t, n - 1)
  BY <1>5, <1>6 DEF Bytes
<1>10. Bytes(Front(b)) = e.cur - Width(t[n])
  BY <1>1, <1>7, <1>8, <1>9
<1> QED BY <1>3, <1>4, <1>5, <1>7, <1>9, <1>10 DEF b, n, t

LEMMA HeadOut ==
  ASSUME NEW e, Sound(e), After(e) # <<>>
  PROVE  /\ At(e) + 1 \in 1 .. Len(e.text) /\ Head(After(e)) = e.text[At(e) + 1]
         /\ IsSeq(Tail(After(e))) /\ Bytes(After(e)) = Width(Head(After(e))) + Bytes(Tail(After(e)))
         /\ Bytes(Tail(After(e))) \in Nat
<1> DEFINE a == After(e)
           n == At(e)
           t == e.text
<1>1. /\ n \in 0 .. Len(t) /\ IsSeq(a) /\ Len(a) = Len(t) - n
      /\ \A k \in 1 .. Len(t) - n : a[k] = t[n + k]
  BY CutIs
<1>2. IsSeq(t) /\ Len(t) \in Nat
  BY SeqDomain DEF Sound, IsBuffer
<1>3. a # <<>>
  OBVIOUS
<1> HIDE DEF a, n, t
<1>4. a \in Seq(ToSet(a)) /\ Len(a) >= 1
  BY <1>1, <1>3, EmptySeq DEF IsSeq
<1>5. n + 1 \in 1 .. Len(t) /\ Head(a) = t[n + 1]
  BY <1>1, <1>2, <1>4
<1>6. Tail(a) \in Seq(ToSet(a)) /\ a = <<Head(a)>> \o Tail(a) /\ <<Head(a)>> \in Seq({Head(a)})
  BY <1>3, <1>4
<1>7. IsSeq(Tail(a)) /\ IsSeq(<<Head(a)>>)
  BY <1>6, AnySeq
<1>8. Bytes(a) = Bytes(<<Head(a)>>) + Bytes(Tail(a)) /\ Bytes(Tail(a)) \in Nat
  BY <1>6, <1>7, BytesOfTwo
<1>9. Bytes(<<Head(a)>>) = Width(Head(a))
  BY BytesOfOne
<1> QED BY <1>5, <1>7, <1>8, <1>9 DEF a, n, t

\* Every position between two characters is one for the cursor.
LEMMA MovedSound ==
  ASSUME NEW e, Sound(e), NEW n \in 0 .. Len(e.text)
  PROVE  Sound([e EXCEPT !.cur = BytesTo(e.text, n)])
<1> DEFINE c == BytesTo(e.text, n)
<1>1. c \in Boundaries(e.text) /\ e = Buffer(e.text, e.cur) /\ IsSeq(e.text)
  BY DEF Boundaries, Sound, IsBuffer
<1> HIDE DEF c
<1>2. [e EXCEPT !.cur = c] = Buffer(e.text, c)
  BY <1>1 DEF Buffer
<1> QED BY <1>1, <1>2 DEF Sound, IsBuffer, Buffer, c

\* The keys of all editors keep the cursor between two characters, and make no text longer.
Keeps(e, f) == Sound(f) /\ Bytes(f.text) <= Bytes(e.text)

LEMMA PlainKeeps == ASSUME NEW e, Sound(e), NEW f \in Plain(e) PROVE Keeps(e, f)
<1> DEFINE b == Before(e)
           a == After(e)
<1>1. /\ At(e) \in 0 .. Len(e.text) /\ BytesTo(e.text, At(e)) = e.cur /\ e.cur \in Nat
      /\ IsSeq(b) /\ IsSeq(a) /\ e.text = b \o a /\ Bytes(b) = e.cur
  BY CutIs
<1>2. IsSeq(e.text) /\ Len(e.text) \in Nat /\ e = Buffer(e.text, e.cur)
  BY SeqDomain DEF Sound, IsBuffer
<1>3. Bytes(e.text) = e.cur + Bytes(a) /\ Bytes(a) \in Nat /\ Bytes(e.text) \in Nat
  BY <1>1, BytesOfTwo
<1>4. Keeps(e, e)
  BY <1>3 DEF Keeps
<1>5. ASSUME NEW n \in 0 .. Len(e.text), f = [e EXCEPT !.cur = BytesTo(e.text, n)]
      PROVE  Keeps(e, f)
  <2>1. Sound(f)
    BY <1>5, MovedSound
  <2>2. f.text = e.text
    BY <1>2, <1>5 DEF Buffer
  <2> QED BY <1>3, <2>1, <2>2 DEF Keeps
<1>6. CASE f = Backspaced(e)
  <2>1. CASE e.cur = 0
    BY <1>4, <1>6, <2>1 DEF Backspaced
  <2>2. CASE e.cur # 0
    <3> DEFINE g == Front(b)
    <3>1. IsSeq(g) /\ Bytes(g) = e.cur - Width(Last(b)) /\ Bytes(g) \in Nat /\ Width(Last(b)) \in Nat
      BY <2>2, LastOut, BytesOfOne
    <3>2. f = Buffer(g \o a, Bytes(g))
      BY <1>6, <2>2, <3>1 DEF Backspaced
    <3> HIDE DEF g
    <3>3. Sound(f) /\ Bytes(g \o a) = Bytes(g) + Bytes(a)
      BY <1>1, <3>1, <3>2, JoinedSound
    <3>4. f.text = g \o a
      BY <3>2 DEF Buffer
    <3>5. Bytes(g) <= e.cur
      BY <1>1, <3>1
    <3>6. Bytes(f.text) <= Bytes(e.text)
      BY <1>1, <1>3, <3>1, <3>3, <3>4, <3>5
    <3> QED BY <3>3, <3>6 DEF Keeps
  <2> QED BY <2>1, <2>2
<1>7. CASE f = Deleted(e)
  <2>1. CASE a = <<>>
    BY <1>4, <1>7, <2>1 DEF Deleted
  <2>2. CASE a # <<>>
    <3> DEFINE g == Tail(a)
    <3>1. /\ IsSeq(g) /\ Bytes(a) = Width(Head(a)) + Bytes(g) /\ Bytes(g) \in Nat
          /\ Width(Head(a)) \in Nat
      BY <2>2, HeadOut, BytesOfOne
    <3>2. f = Buffer(b \o g, Bytes(b))
      BY <1>1, <1>7, <2>2 DEF Deleted
    <3> HIDE DEF g
    <3>3. Sound(f) /\ Bytes(b \o g) = Bytes(b) + Bytes(g)
      BY <1>1, <3>1, <3>2, JoinedSound
    <3>4. f.text = b \o g
      BY <3>2 DEF Buffer
    <3>5. Bytes(f.text) <= Bytes(e.text)
      BY <1>1, <1>3, <3>1, <3>3, <3>4
    <3> QED BY <3>3, <3>5 DEF Keeps
  <2> QED BY <2>1, <2>2
<1>8. CASE f = MovedLeft(e)
  <2>1. CASE e.cur = 0
    BY <1>4, <1>8, <2>1 DEF MovedLeft
  <2>2. CASE e.cur # 0
    <3>1. /\ At(e) >= 1 /\ Bytes(Front(b)) = e.cur - Width(Last(b))
          /\ BytesTo(e.text, At(e) - 1) = Bytes(Front(b))
      BY <2>2, LastOut
    <3>2. f = [e EXCEPT !.cur = BytesTo(e.text, At(e) - 1)]
      BY <1>2, <1>8, <2>2, <3>1 DEF MovedLeft, Buffer
    <3>3. At(e) - 1 \in 0 .. Len(e.text)
      BY <1>1, <1>2, <3>1
    <3> QED BY <1>5, <3>2, <3>3
  <2> QED BY <2>1, <2>2
<1>9. CASE f = MovedRight(e)
  <2>1. CASE a = <<>>
    BY <1>4, <1>9, <2>1 DEF MovedRight
  <2>2. CASE a # <<>>
    <3>1. At(e) + 1 \in 1 .. Len(e.text) /\ Head(a) = e.text[At(e) + 1]
      BY <2>2, HeadOut
    <3>2. (At(e) + 1) - 1 = At(e) /\ At(e) + 1 \in 0 .. Len(e.text)
      BY <1>1, <3>1
    <3>3. BytesTo(e.text, At(e) + 1) = e.cur + Width(Head(a))
      BY <1>1, <1>2, <3>1, <3>2, BytesAre
    <3>4. f = [e EXCEPT !.cur = BytesTo(e.text, At(e) + 1)]
      BY <1>2, <1>9, <2>2, <3>3 DEF MovedRight, Buffer
    <3> QED BY <1>5, <3>2, <3>4
  <2> QED BY <2>1, <2>2
<1>10. CASE f = AtHome(e)
  <2>1. f = [e EXCEPT !.cur = BytesTo(e.text, 0)] /\ 0 \in 0 .. Len(e.text)
    BY <1>2, <1>10, BytesAre DEF AtHome
  <2> QED BY <1>5, <2>1
<1>11. CASE f = AtEnd(e)
  <2>1. f = [e EXCEPT !.cur = BytesTo(e.text, Len(e.text))] /\ Len(e.text) \in 0 .. Len(e.text)
    BY <1>2, <1>11 DEF AtEnd, Bytes
  <2> QED BY <1>5, <2>1
<1> QED BY <1>6, <1>7, <1>8, <1>9, <1>10, <1>11 DEF Plain

\* A buffer with the cursor at its end.
LEMMA EndSound ==
  ASSUME NEW t, IsSeq(t)
  PROVE  Sound(AtEnd(Buffer(t, 0))) /\ AtEnd(Buffer(t, 0)).text = t
<1>1. Sound(Buffer(t, 0))
  <2>1. 0 \in 0 .. Len(t) /\ BytesTo(t, 0) = 0
    BY SeqDomain, BytesAre
  <2> QED BY <2>1 DEF Sound, IsBuffer, Buffer, Boundaries
<1>2. AtEnd(Buffer(t, 0)) = Buffer(t, Bytes(t))
  BY DEF AtEnd, Buffer
<1>3. AtEnd(Buffer(t, 0)) \in Plain(Buffer(t, 0))
  BY DEF Plain
<1> QED BY <1>1, <1>2, <1>3, PlainKeeps DEF Keeps, Buffer

\* The largest of some numbers that are bounded.
LEMMA GreatestOf ==
  ASSUME NEW n \in Nat, NEW S \in SUBSET (0 .. n), S # {}
  PROVE  Max(S) \in S
<1> DEFINE T == {n - k : k \in S}
<1>1. T \in SUBSET Nat /\ T # {}
  <2>1. PICK k \in S : TRUE
    OBVIOUS
  <2>2. n - k \in T
    OBVIOUS
  <2>3. ASSUME NEW x \in T PROVE x \in Nat
    <3>1. PICK j \in S : x = n - j
      OBVIOUS
    <3>2. j \in 0 .. n
      OBVIOUS
    <3> QED BY <3>1, <3>2
  <2> HIDE DEF T
  <2> QED BY <2>2, <2>3
<1>2. PICK m \in T : \A k \in T : m <= k
  <2> HIDE DEF T
  <2> QED BY <1>1, LeastNatural
<1>3. n - m \in S /\ \A k \in S : n - m >= k
  BY <1>2
<1> QED BY <1>3 DEF Max

\* What is pasted is cut to what fits.
LEMMA FittingFits ==
  ASSUME NEW s, IsSeq(s), NEW room \in Nat
  PROVE  IsSeq(Fitting(s, room)) /\ Bytes(Fitting(s, room)) <= room
<1> DEFINE S == {n \in 0 .. Len(s) : BytesTo(s, n) <= room}
           m == Max(S)
<1>1. Len(s) \in Nat
  BY SeqDomain
<1>2. S \in SUBSET (0 .. Len(s)) /\ 0 \in S
  BY <1>1, BytesAre
<1>3. m \in S
  <2> HIDE DEF S
  <2> QED BY <1>1, <1>2, GreatestOf
<1>4. m \in 0 .. Len(s) /\ BytesTo(s, m) <= room
  BY <1>3
<1>5. Fitting(s, room) = SubSeq(s, 1, m)
  BY DEF Fitting
<1> HIDE DEF m
<1> DEFINE t == SubSeq(s, 1, m)
<1>6. IsSeq(t) /\ Len(t) = m /\ \A k \in 1 .. m : t[k] = s[k]
  <2>1. 1 \in 1 .. Len(s) + 1 /\ m \in 1 - 1 .. Len(s) /\ m - 1 + 1 = m /\ \A k \in 1 .. m : 1 + k - 1 = k
    BY <1>1, <1>4
  <2> QED BY <2>1, PartOf
<1> HIDE DEF t
<1>7. BytesTo(t, m) = BytesTo(s, m)
  BY <1>1, <1>4, <1>6, BytesAlike
<1> QED BY <1>4, <1>5, <1>6, <1>7 DEF Bytes, t

LEMMA LineStartsAre ==
  ASSUME NEW e, Sound(e), NEW b \in LineStarts(e.text)
  PROVE  \E n \in 0 .. Len(e.text) : b = BytesTo(e.text, n)
<1>1. IsSeq(e.text) /\ Len(e.text) \in Nat
  BY SeqDomain DEF Sound, IsBuffer
<1>2. b = BytesTo(e.text, 0) \/ \E n \in 1 .. Len(e.text) : b = BytesTo(e.text, n)
  BY <1>1, BytesAre DEF LineStarts
<1> QED BY <1>1, <1>2

\* Up and down go to the start of a line.
LEMMA MovedUpSound == ASSUME NEW e, Sound(e) PROVE Sound(MovedUp(e))
<1>1. IsSeq(e.text) /\ Len(e.text) \in Nat /\ e.cur \in Nat /\ BytesTo(e.text, 0) = 0
  BY SeqDomain, CutIs, BytesAre DEF Sound, IsBuffer
<1>2. CASE e.cur = 0
  <2>1. MovedUp(e) = [e EXCEPT !.cur = BytesTo(e.text, 0)] /\ 0 \in 0 .. Len(e.text)
    BY <1>1, <1>2 DEF MovedUp
  <2> QED BY <2>1, MovedSound
<1>3. CASE e.cur # 0
  <2> DEFINE S == {b \in LineStarts(e.text) : b < e.cur}
             m == Max(S)
  <2>1. 0 \in S
    BY <1>1, <1>3 DEF LineStarts
  <2>2. \A b \in S : b \in 0 .. e.cur
    <3>1. ASSUME NEW b \in S PROVE b \in 0 .. e.cur
      <4>1. PICK n \in 0 .. Len(e.text) : b = BytesTo(e.text, n)
        BY LineStartsAre
      <4>2. b \in Nat
        BY <1>1, <4>1, BytesAre
      <4> QED BY <1>1, <4>2
    <3> QED BY <3>1
  <2>3. m \in S
    <3>1. S \in SUBSET (0 .. e.cur) /\ S # {}
      BY <2>1, <2>2
    <3> HIDE DEF S
    <3> QED BY <1>1, <3>1, GreatestOf
  <2>4. MovedUp(e) = [e EXCEPT !.cur = m]
    BY <1>3 DEF MovedUp
  <2> HIDE DEF m
  <2>5. PICK n \in 0 .. Len(e.text) : m = BytesTo(e.text, n)
    BY <2>3, LineStartsAre
  <2> QED BY <2>4, <2>5, MovedSound
<1> QED BY <1>2, <1>3

LEMMA MovedDownSound ==
  ASSUME NEW e, Sound(e) PROVE Sound(MovedDown(e)) /\ MovedDown(e).text = e.text
<1> DEFINE S == {b \in LineStarts(e.text) : b > e.cur}
           m == IF S = {} THEN Bytes(e.text) ELSE Min(S)
<1>1. IsSeq(e.text) /\ Len(e.text) \in Nat /\ e = Buffer(e.text, e.cur)
  BY SeqDomain DEF Sound, IsBuffer
<1>2. MovedDown(e) = [e EXCEPT !.cur = m]
  BY DEF MovedDown
<1>3. \E n \in 0 .. Len(e.text) : m = BytesTo(e.text, n)
  <2>1. CASE S = {}
    <3>1. m = BytesTo(e.text, Len(e.text)) /\ Len(e.text) \in 0 .. Len(e.text)
      BY <1>1, <2>1 DEF Bytes
    <3> QED BY <3>1
  <2>2. CASE S # {}
    <3>1. \A b \in S : b \in Nat
      <4>1. ASSUME NEW b \in S PROVE b \in Nat
        <5>1. PICK n \in 0 .. Len(e.text) : b = BytesTo(e.text, n)
          BY LineStartsAre
        <5> QED BY <1>1, <5>1, BytesAre
      <4> QED BY <4>1
    <3>2. Min(S) \in S
      <4>1. S \in SUBSET Nat /\ S # {}
        BY <2>2, <3>1
      <4> HIDE DEF S
      <4> QED BY <4>1, LeastOf
    <3>3. Min(S) \in LineStarts(e.text) /\ m = Min(S)
      BY <2>2, <3>2
    <3> QED BY <3>3, LineStartsAre
  <2> QED BY <2>1, <2>2
<1> HIDE DEF m
<1>4. Sound(MovedDown(e))
  BY <1>2, <1>3, MovedSound
<1> QED BY <1>1, <1>2, <1>4 DEF Buffer

-----------------------------------------------------------------------------
(* What is written for a text is a text.                                   *)

LEMMA LeadingIs ==
  ASSUME NEW C, NEW t \in Seq(C), NEW set
  PROVE  Leading(t, set) \in Seq(C) /\ Len(Leading(t, set)) \in Nat
<1> DEFINE S == {n \in 0 .. Len(t) : ToSet(SubSeq(t, 1, n)) \subseteq set}
           m == Max(S)
<1>1. Len(t) \in Nat
  OBVIOUS
<1>2. 0 \in S
  <2>1. SubSeq(t, 1, 0) = <<>>
    BY <1>1, SubSeqEmpty
  <2>2. ToSet(SubSeq(t, 1, 0)) = {}
    BY <2>1, NoThread DEF ToSet
  <2> QED BY <1>1, <2>2
<1>3. m \in S /\ S \in SUBSET (0 .. Len(t))
  <2>1. S \in SUBSET (0 .. Len(t)) /\ S # {}
    BY <1>2
  <2> HIDE DEF S
  <2> QED BY <1>1, <2>1, GreatestOf
<1>4. m \in 0 .. Len(t)
  BY <1>3
<1>5. Leading(t, set) = SubSeq(t, 1, m)
  BY DEF Leading
<1> HIDE DEF m
<1> QED BY <1>1, <1>4, <1>5

\* normalize_source at one character.
NormalState(C) == [text : Seq(C), next : Nat, indent : Nat, literal : BOOLEAN, escape : BOOLEAN]

LEMMA NormalAtIs ==
  ASSUME NEW C, NEW t \in Seq(C), {")", NewLine, Space} \subseteq C, NEW k \in 1 .. Len(t),
         NEW s \in NormalState(C)
  PROVE  NormalAt(t, k, s) \in NormalState(C)
<1> DEFINE c == t[k]
           rest == SubSeq(t, k + 1, Len(t))
           spaces == Leading(rest, {Space})
           next == SubSeq(t, k + 1 + Len(spaces), Len(t))
           Puts(u, n) == [s EXCEPT !.text = @ \o u, !.next = k + 1 + n]
<1>1. c \in C /\ Len(t) \in Nat /\ rest \in Seq(C)
  OBVIOUS
<1>2. spaces \in Seq(C) /\ Len(spaces) \in Nat
  <2> HIDE DEF rest
  <2> QED BY <1>1, LeadingIs
<1>3. next \in Seq(C)
  <2> HIDE DEF spaces
  <2> QED BY <1>1, <1>2
<1>4. Leading(next, Letters) \in Seq(C)
  <2> HIDE DEF next
  <2> QED BY <1>3, LeadingIs
<1>5. AtParen(spaces, Leading(next, Letters), next) \in Seq(C)
  <2> HIDE DEF spaces, next
  <2> DEFINE word == Leading(next, Letters)
  <2>0. word \in Seq(C)
    BY <1>4
  <2> HIDE DEF word
  <2>1. <<")", NewLine>> \in Seq(C) /\ <<")">> \o spaces \o word \in Seq(C)
    BY <1>2, <2>0
  <2>2. AtParen(spaces, word, next) \in {<<")", NewLine>>, <<")">> \o spaces \o word}
    BY DEF AtParen
  <2>3. AtParen(spaces, word, next) \in Seq(C)
    BY <2>1, <2>2
  <2> QED BY <2>3 DEF word
<1>6. ASSUME NEW u \in Seq(C), NEW n \in Nat PROVE Puts(u, n) \in NormalState(C)
  <2>1. s.text \in Seq(C)
    BY DEF NormalState
  <2>2. s.text \o u \in Seq(C) /\ k + 1 + n \in Nat
    BY <1>6, <2>1
  <2>3. ASSUME NEW v \in Seq(C), NEW m \in Nat PROVE [s EXCEPT !.text = v, !.next = m] \in NormalState(C)
    BY <2>3 DEF NormalState
  <2> QED BY <2>2, <2>3
<1>7. LineIndent(rest) \in Nat
  BY DEF LineIndent
<1>8. s.indent \in Nat /\ s.literal \in BOOLEAN /\ s.escape \in BOOLEAN /\ s.next \in Nat
  BY DEF NormalState
<1>9. /\ <<c>> \in Seq(C) /\ <<c>> \o spaces \in Seq(C)
      /\ <<c, NewLine>> \o [i \in 1 .. s.indent + 4 |-> Space] \in Seq(C)
  <2> HIDE DEF c, spaces
  <2>1. <<c>> \in Seq(C) /\ <<c, NewLine>> \in Seq(C)
    BY <1>1
  <2>2. [i \in 1 .. s.indent + 4 |-> Space] \in Seq(C)
    BY <1>8
  <2>3. \A a \in Seq(C), b \in Seq(C) : a \o b \in Seq(C)
    OBVIOUS
  <2> QED BY <1>2, <2>1, <2>2, <2>3
<1>10. ASSUME NEW w \in NormalState(C), NEW i \in Nat, NEW l \in BOOLEAN, NEW x \in BOOLEAN
       PROVE  /\ [w EXCEPT !.literal = l, !.escape = x] \in NormalState(C)
              /\ [w EXCEPT !.indent = i] \in NormalState(C)
              /\ [w EXCEPT !.indent = i, !.literal = l] \in NormalState(C)
  BY <1>10 DEF NormalState
<1> DEFINE breaks == next # <<>> /\ spaces # <<>> /\ Head(next) # NewLine
<1>11. NormalAt(t, k, s) =
         CASE k < s.next -> s
           [] k >= s.next /\ s.literal ->
                [Puts(<<c>>, 0) EXCEPT !.literal = c # Quote \/ s.escape,
                                         !.escape = c = Backslash /\ ~s.escape]
           [] k >= s.next /\ ~s.literal /\ c = ")" ->
                Puts(AtParen(spaces, Leading(next, Letters), next), Len(spaces))
           [] k >= s.next /\ ~s.literal /\ c = ":" ->
                IF breaks
                THEN [Puts(<<c, NewLine>> \o [i \in 1 .. s.indent + 4 |-> Space], Len(spaces))
                      EXCEPT !.indent = @ + 4]
                ELSE Puts(<<c>> \o spaces, Len(spaces))
           [] k >= s.next /\ ~s.literal /\ c \notin {")", ":"} ->
                [Puts(<<c>>, 0) EXCEPT
                   !.indent = IF c = NewLine THEN LineIndent(rest) ELSE @,
                   !.literal = c = Quote]
  BY DEF NormalAt
<1>12. CASE k < s.next
  BY <1>1, <1>8, <1>11, <1>12
<1>13. CASE k >= s.next /\ s.literal
  <2> DEFINE w == Puts(<<c>>, 0)
             l == c # Quote \/ s.escape
             x == c = Backslash /\ ~s.escape
  <2>1. NormalAt(t, k, s) = [w EXCEPT !.literal = l, !.escape = x]
    BY <1>1, <1>8, <1>11, <1>13
  <2>2. w \in NormalState(C) /\ l \in BOOLEAN /\ x \in BOOLEAN /\ 0 \in Nat
    BY <1>6, <1>8, <1>9
  <2> HIDE DEF w, l, x
  <2> QED BY <1>10, <2>1, <2>2
<1>14. CASE k >= s.next /\ ~s.literal /\ c = ")"
  <2> DEFINE u == AtParen(spaces, Leading(next, Letters), next)
             w == Puts(u, Len(spaces))
  <2>1. NormalAt(t, k, s) = w
    BY <1>1, <1>8, <1>11, <1>14
  <2>2. w \in NormalState(C)
    BY <1>2, <1>5, <1>6
  <2> QED BY <2>1, <2>2
<1>15. CASE k >= s.next /\ ~s.literal /\ c = ":"
  <2> DEFINE u == <<c, NewLine>> \o [i \in 1 .. s.indent + 4 |-> Space]
             v == <<c>> \o spaces
             w == Puts(u, Len(spaces))
             x == Puts(v, Len(spaces))
             d == s.indent + 4
  <2>1. NormalAt(t, k, s) = IF breaks THEN [w EXCEPT !.indent = @ + 4] ELSE x
    <3>1. k >= s.next /\ ~(k < s.next) /\ ~s.literal /\ c = ":" /\ c # ")"
      BY <1>1, <1>8, <1>15
    <3> HIDE DEF breaks, c, Puts, rest, spaces, next
    <3> QED BY <1>11, <3>1
  <2>2. w \in NormalState(C) /\ x \in NormalState(C) /\ d \in Nat
    <3>1. u \in Seq(C) /\ v \in Seq(C)
      BY <1>9
    <3>2. d \in Nat
      BY <1>8
    <3> HIDE DEF u, v, spaces, d
    <3>3. Puts(u, Len(spaces)) \in NormalState(C)
      BY <1>2, <1>6, <3>1
    <3>4. Puts(v, Len(spaces)) \in NormalState(C)
      BY <1>2, <1>6, <3>1
    <3> QED BY <3>2, <3>3, <3>4
  <2>3. [w EXCEPT !.indent = @ + 4] = [w EXCEPT !.indent = d]
    BY <2>2 DEF NormalState
  <2> HIDE DEF w, x, d, breaks
  <2>4. [w EXCEPT !.indent = d] \in NormalState(C)
    BY <2>2 DEF NormalState
  <2> QED BY <2>1, <2>2, <2>3, <2>4
<1>16. CASE k >= s.next /\ ~s.literal /\ c \notin {")", ":"}
  <2> DEFINE w == Puts(<<c>>, 0)
             i == IF c = NewLine THEN LineIndent(rest) ELSE s.indent
             l == c = Quote
  <2>1. NormalAt(t, k, s) = [w EXCEPT !.indent = IF c = NewLine THEN LineIndent(rest) ELSE @, !.literal = l]
    BY <1>1, <1>8, <1>11, <1>16
  <2>2. w \in NormalState(C) /\ i \in Nat /\ l \in BOOLEAN /\ 0 \in Nat
    BY <1>6, <1>7, <1>8, <1>9
  <2>3. NormalAt(t, k, s) = [w EXCEPT !.indent = i, !.literal = l]
    BY <2>1 DEF NormalState
  <2> HIDE DEF w, i, l
  <2>4. [w EXCEPT !.indent = i, !.literal = l] \in NormalState(C)
    BY <1>10, <2>2
  <2> QED BY <2>3, <2>4
<1> QED
  <2> HIDE DEF c
  <2>1. k < s.next \/ k >= s.next
    BY <1>8
  <2> QED BY <1>8, <1>12, <1>13, <1>14, <1>15, <1>16, <2>1

\* normalize_source of a text.
LEMMA NormalizedIs == ASSUME NEW t, IsSeq(t) PROVE IsSeq(Normalized(t))
<1> DEFINE n == Len(t)
           C == ToSet(t) \cup {")", NewLine, Space}
           V == NormalState(C)
           start == [text |-> <<>>, next |-> 1, indent |-> LineIndent(t), literal |-> FALSE,
                     escape |-> FALSE]
           g == [p \in (1 .. n) \X V |-> NormalAt(t, p[1], p[2])]
<1>1. n \in Nat /\ t \in Seq(C) /\ {")", NewLine, Space} \subseteq C
  BY SeqDomain DEF IsSeq
<1> HIDE DEF C
<1>2. start \in V
  <2>1. LineIndent(t) \in Nat /\ <<>> \in Seq(C)
    BY DEF LineIndent
  <2> QED BY <2>1 DEF NormalState
<1>3. g \in [(1 .. n) \X V -> V]
  <2>1. \A p \in (1 .. n) \X V : NormalAt(t, p[1], p[2]) \in V
    <3>1. ASSUME NEW k \in 1 .. n, NEW s \in V PROVE NormalAt(t, k, s) \in V
      BY <1>1, NormalAtIs
    <3> HIDE DEF V, n
    <3> QED BY <3>1
  <2> HIDE DEF V, n
  <2> QED BY <2>1
<1> HIDE DEF n, V, start
<1>4. PICK f \in [0 .. n -> V] : StepsFrom(start, g, n, f)
  <2> HIDE DEF g
  <2> QED BY <1>1, <1>2, <1>3, StepsExist
<1>5. ASSUME NEW k \in 0 .. n PROVE f[k] = IF k = 0 THEN start ELSE NormalAt(t, k, f[k - 1])
  <2>1. CASE k = 0
    BY <1>4, <2>1 DEF StepsFrom
  <2>2. CASE k # 0
    <3>1. k \in 1 .. n /\ k - 1 \in 0 .. n
      BY <1>1, <2>2
    <3>2. f[k - 1] \in V
      BY <1>4, <3>1
    <3>3. g[<<k, f[k - 1]>>] = NormalAt(t, k, f[k - 1])
      BY <3>1, <3>2
    <3> HIDE DEF g
    <3>4. f[k] = g[<<k, f[k - 1]>>]
      BY <1>4, <3>1 DEF StepsFrom
    <3> QED BY <2>2, <3>3, <3>4
  <2> QED BY <2>1, <2>2
<1>6. f = [k \in 0 .. n |-> IF k = 0 THEN start ELSE NormalAt(t, k, f[k - 1])]
  <2>1. f = [k \in 0 .. n |-> f[k]]
    BY <1>4
  <2> QED BY <1>5, <2>1
<1>7. PICK u : /\ u = [k \in 0 .. n |-> IF k = 0 THEN start ELSE NormalAt(t, k, u[k - 1])]
               /\ Normalized(t) = u[n].text
  <2> HIDE DEF g
  <2> QED BY <1>6 DEF Normalized, n, start
<1>8. \A k \in 0 .. n : u[k] \in V
  <2> DEFINE S == {k \in 0 .. n : u[k] \in V}
  <2>1. u[0] = start /\ \A k \in 1 .. n : u[k] = NormalAt(t, k, u[k - 1])
    <3>1. 0 \in 0 .. n /\ \A k \in 1 .. n : k \in 0 .. n /\ k # 0
      BY <1>1
    <3>2. u[0] = start
      BY <1>7, <3>1
    <3>3. ASSUME NEW k \in 1 .. n PROVE u[k] = NormalAt(t, k, u[k - 1])
      BY <1>7, <3>1
    <3> QED BY <3>2, <3>3
  <2>2. 0 \in S
    BY <1>1, <1>2, <2>1
  <2>3. ASSUME NEW k \in 1 .. n, k - 1 \in S PROVE k \in S
    <3>1. NormalAt(t, k, u[k - 1]) \in V
      BY <1>1, <2>3, NormalAtIs DEF V, n
    <3> QED BY <2>1, <3>1
  <2> HIDE DEF S
  <2>4. \A k \in 0 .. n : k \in S
    BY <1>1, <2>2, <2>3, UpTo
  <2> QED BY <2>4 DEF S
<1>9. u[n] \in V
  BY <1>1, <1>8
<1>10. Normalized(t) \in Seq(C)
  BY <1>7, <1>9 DEF V, NormalState
<1> QED BY <1>10, AnySeq

\* The characters that are kept of a paste.
LEMMA PrintableIs == ASSUME NEW s, IsSeq(s) PROVE IsSeq(Printable(s))
<1> DEFINE n == Len(s)
           V == Seq(ToSet(s))
           Kept(k, v) == IF s[k] = NewLine THEN v ELSE Append(v, s[k])
           g == [p \in (1 .. n) \X V |-> Kept(p[1], p[2])]
<1>1. n \in Nat /\ \A k \in 1 .. n : s[k] \in ToSet(s)
  BY SeqDomain DEF ToSet
<1>2. <<>> \in V /\ \A k \in 1 .. n, v \in V : Kept(k, v) \in V
  BY <1>1
<1> HIDE DEF n, V, Kept
<1>3. g \in [(1 .. n) \X V -> V]
  BY <1>2
<1>4. PICK f \in [0 .. n -> V] : StepsFrom(<<>>, g, n, f)
  <2> HIDE DEF g
  <2> QED BY <1>1, <1>2, <1>3, StepsExist
<1>5. ASSUME NEW k \in 0 .. n PROVE f[k] = IF k = 0 THEN <<>> ELSE Kept(k, f[k - 1])
  <2>1. CASE k = 0
    BY <1>4, <2>1 DEF StepsFrom
  <2>2. CASE k # 0
    <3>1. k \in 1 .. n /\ k - 1 \in 0 .. n
      BY <1>1, <2>2
    <3>2. f[k - 1] \in V
      BY <1>4, <3>1
    <3>3. g[<<k, f[k - 1]>>] = Kept(k, f[k - 1])
      BY <3>1, <3>2
    <3> HIDE DEF g
    <3>4. f[k] = g[<<k, f[k - 1]>>]
      BY <1>4, <3>1 DEF StepsFrom
    <3> QED BY <2>2, <3>3, <3>4
  <2> QED BY <2>1, <2>2
<1>6. f = [k \in 0 .. n |-> IF k = 0 THEN <<>> ELSE Kept(k, f[k - 1])]
  <2>1. f = [k \in 0 .. n |-> f[k]]
    BY <1>4
  <2> QED BY <1>5, <2>1
<1>7. PICK u : /\ u = [k \in 0 .. n |-> IF k = 0 THEN <<>> ELSE Kept(k, u[k - 1])]
               /\ Printable(s) = u[n]
  <2> HIDE DEF g
  <2> QED BY <1>6 DEF Printable, n, Kept
<1>8. \A k \in 0 .. n : u[k] \in V
  <2> DEFINE S == {k \in 0 .. n : u[k] \in V}
  <2>1. u[0] = <<>> /\ \A k \in 1 .. n : u[k] = Kept(k, u[k - 1])
    BY <1>1, <1>7
  <2>2. 0 \in S
    BY <1>1, <1>2, <2>1
  <2>3. ASSUME NEW k \in 1 .. n, k - 1 \in S PROVE k \in S
    BY <1>2, <2>1, <2>3
  <2> HIDE DEF S
  <2>4. \A k \in 0 .. n : k \in S
    BY <1>1, <2>2, <2>3, UpTo
  <2> QED BY <2>4 DEF S
<1>9. Printable(s) \in V
  BY <1>1, <1>7, <1>8
<1> QED BY <1>9, AnySeq DEF V

-----------------------------------------------------------------------------
(* Every key keeps the cursor in the text.                                 *)

\* The cursor of the path counts characters.
InPath(e) == IsBuffer(e) /\ e.cur \in 0 .. Len(e.text)

HistoryKept ==
  /\ input = [multi |-> input.multi, history |-> input.history, at |-> input.at]
  /\ IsSeq(input.history) /\ input.at \in 0 .. Len(input.history)
  /\ \A i \in DOMAIN input.history : IsSeq(input.history[i]) /\ Bytes(input.history[i]) <= MaxInput

EditInv ==
  /\ uses \in {"input", "hooks", "secret", "path"} /\ open \in {"none", uses}
  /\ IF open = "path" THEN InPath(edit) ELSE Sound(edit)
  /\ uses = "input" => Bytes(edit.text) <= MaxInput /\ HistoryKept

LEMMA BlankSound == Sound(Blank) /\ Bytes(Blank.text) = 0
<1>1. IsSeq(<<>>) /\ Len(<<>>) = 0 /\ BytesTo(<<>>, 0) = 0
  BY NoThread, BytesAre
<1>2. 0 \in Boundaries(<<>>)
  BY <1>1 DEF Boundaries
<1> QED BY <1>1, <1>2 DEF Sound, IsBuffer, Blank, Buffer, Bytes

LEMMA PasteIs ==
  ASSUME NEW x \in {"input", "hooks", "secret", "path"}, NEW s \in Pastes[x] PROVE IsSeq(s)
BY EditorsAssumption DEF IsSeq

\* A text of the history replaces the draft.
LEMMA RecalledKeeps ==
  ASSUME uses = "input", HistoryKept, NEW n \in 1 .. Len(input.history), Recalled(n)
  PROVE  Sound(edit') /\ Bytes(edit.text)' <= MaxInput /\ HistoryKept'
<1> DEFINE t == input.history[n]
<1>1. n \in DOMAIN input.history /\ IsSeq(t) /\ Bytes(t) <= MaxInput
  BY SeqDomain DEF HistoryKept
<1>2. edit' = AtEnd(Buffer(t, 0)) /\ input' = [input EXCEPT !.at = n, !.multi = @ \/ NewLine \in ToSet(t)]
  BY DEF Recalled
<1>3. Sound(edit') /\ edit'.text = t
  <2> HIDE DEF t
  <2> QED BY <1>1, <1>2, EndSound
<1>4. /\ input'.history = input.history /\ input'.at = n
      /\ input' = [multi |-> input'.multi, history |-> input'.history, at |-> input'.at]
  <2> HIDE DEF t
  <2> QED BY <1>2 DEF HistoryKept
<1>5. n \in 0 .. Len(input.history)
  BY SeqDomain DEF HistoryKept
<1>6. HistoryKept'
  BY <1>4, <1>5 DEF HistoryKept
<1>7. Bytes(edit'.text) <= MaxInput
  BY <1>1, <1>3
<1> QED BY <1>3, <1>6, <1>7

LEMMA SubmittedKeeps ==
  ASSUME HistoryKept, IsSeq(edit.text), Bytes(edit.text) <= MaxInput, Submitted
  PROVE  Sound(edit') /\ Bytes(edit.text)' <= MaxInput /\ HistoryKept'
<1> DEFINE old == input.history
           h == Append(old, edit.text)
           new == IF edit.text = <<>> THEN old ELSE IF Len(h) > MaxHistory THEN Tail(h) ELSE h
           Good(s) == IsSeq(s) /\ \A i \in DOMAIN s : IsSeq(s[i]) /\ Bytes(s[i]) <= MaxInput
<1>1. edit' = Blank /\ input' = [input EXCEPT !.at = 0, !.history = new]
  BY DEF Submitted
<1>2. Good(old)
  BY DEF HistoryKept
<1> HIDE DEF old
<1>3. Good(h)
  <2>1. /\ IsSeq(h) /\ DOMAIN h = 1 .. Len(old) + 1 /\ DOMAIN old = 1 .. Len(old) /\ Len(old) \in Nat
        /\ \A j \in DOMAIN old : h[j] = old[j]
        /\ h[Len(old) + 1] = edit.text
    BY <1>2, AppendOf, SeqDomain
  <2> HIDE DEF h
  <2>2. ASSUME NEW i \in DOMAIN h PROVE IsSeq(h[i]) /\ Bytes(h[i]) <= MaxInput
    <3>1. i = Len(old) + 1 \/ i \in DOMAIN old
      BY <2>1
    <3> QED BY <1>2, <2>1, <3>1
  <2> QED BY <2>1, <2>2
<1>4. h # <<>>
  BY <1>2 DEF IsSeq
<1> HIDE DEF h
<1>5. Good(Tail(h))
  <2>1. /\ IsSeq(Tail(h)) /\ \A j \in DOMAIN Tail(h) : j + 1 \in DOMAIN h /\ Tail(h)[j] = h[j + 1]
    BY <1>3, <1>4, TailOf
  <2> QED BY <1>3, <2>1
<1>6. Good(new)
  BY <1>2, <1>3, <1>5
<1> HIDE DEF new
<1>7. /\ input'.history = new /\ input'.at = 0
      /\ input' = [multi |-> input'.multi, history |-> input'.history, at |-> input'.at]
  BY <1>1 DEF HistoryKept
<1>8. 0 \in 0 .. Len(new)
  BY <1>6, SeqDomain
<1>9. HistoryKept'
  BY <1>6, <1>7, <1>8 DEF HistoryKept
<1>10. Bytes(edit'.text) <= MaxInput
  BY <1>1, BlankSound, EditorsAssumption
<1> QED BY <1>1, <1>9, <1>10, BlankSound

LEMMA InputKeyKeeps ==
  ASSUME EditInv, InputKey
  PROVE  Sound(edit') /\ Bytes(edit.text)' <= MaxInput /\ HistoryKept'
<1>1. uses = "input" /\ open = "input"
  BY DEF EditInv, InputKey
<1>2. Sound(edit) /\ Bytes(edit.text) <= MaxInput /\ HistoryKept /\ IsSeq(edit.text) /\ MaxInput \in Nat
  BY <1>1, EditorsAssumption DEF EditInv, Sound, IsBuffer
<1>3. Bytes(edit.text) \in Nat
  BY <1>2, SeqDomain, BytesAre DEF Bytes
<1>4. ASSUME Sound(edit'), Bytes(edit'.text) <= MaxInput, UNCHANGED input
      PROVE  Sound(edit') /\ Bytes(edit.text)' <= MaxInput /\ HistoryKept'
  BY <1>2, <1>4 DEF HistoryKept
<1>5. ASSUME NEW c, edit' = BoxTyped(c) PROVE Sound(edit') /\ Bytes(edit'.text) <= MaxInput
  <2>1. CASE Bytes(edit.text) + Width(c) > MaxInput
    BY <1>2, <1>5, <2>1 DEF BoxTyped
  <2>2. CASE ~(Bytes(edit.text) + Width(c) > MaxInput)
    <3>1. edit' = Inserted(edit, <<c>>)
      BY <1>5, <2>2 DEF BoxTyped
    <3>2. Sound(edit') /\ Bytes(edit'.text) = Bytes(edit.text) + Width(c)
      BY <1>2, <3>1, BytesOfOne, InsertedSound
    <3>3. Width(c) \in Nat
      BY BytesOfOne
    <3> QED BY <1>2, <1>3, <2>2, <3>2, <3>3
  <2> QED BY <2>1, <2>2
<1>6. ASSUME NEW s \in Pastes["input"], edit' = BoxPasted(s)
      PROVE  Sound(edit') /\ Bytes(edit'.text) <= MaxInput
  <2>1. CASE Bytes(edit.text) >= MaxInput
    BY <1>2, <1>6, <2>1 DEF BoxPasted
  <2>2. CASE ~(Bytes(edit.text) >= MaxInput)
    <3> DEFINE room == MaxInput - Bytes(edit.text)
               u == Fitting(s, room)
    <3>1. room \in Nat /\ IsSeq(s)
      BY <1>2, <1>3, <2>2, PasteIs
    <3>2. edit' = Inserted(edit, u)
      BY <1>6, <2>2 DEF BoxPasted
    <3>3. IsSeq(u) /\ Bytes(u) <= room
      <4> HIDE DEF room
      <4> QED BY <3>1, FittingFits
    <3> HIDE DEF u
    <3>4. Sound(edit') /\ Bytes(edit'.text) = Bytes(edit.text) + Bytes(u)
      BY <1>2, <3>2, <3>3, InsertedSound
    <3>5. Bytes(u) \in Nat
      BY <3>3, SeqDomain, BytesAre DEF Bytes
    <3> QED BY <1>2, <1>3, <3>3, <3>4, <3>5
  <2> QED BY <2>1, <2>2
<1>7. CASE edit' \in Plain(edit) /\ UNCHANGED input
  <2>1. Keeps(edit, edit')
    BY <1>2, <1>7, PlainKeeps
  <2>2. Bytes(edit'.text) \in Nat
    BY <2>1, SeqDomain, BytesAre DEF Keeps, Sound, IsBuffer, Bytes
  <2>3. Bytes(edit'.text) <= MaxInput
    BY <1>2, <1>3, <2>1, <2>2 DEF Keeps
  <2> QED BY <1>4, <1>7, <2>1, <2>3 DEF Keeps
<1>8. CASE Submitted
  BY <1>2, <1>8, SubmittedKeeps
<1>9. CASE HistoryUp \/ HistoryDown
  <2>1. /\ input.at \in 0 .. Len(input.history) /\ Len(input.history) \in Nat
        /\ input = [multi |-> input.multi, history |-> input.history, at |-> input.at]
    BY <1>2, SeqDomain DEF HistoryKept
  <2>2. CASE HistoryUp
    <3>1. PICK n : n = IF input.at = 0 THEN Len(input.history) ELSE input.at - 1
      OBVIOUS
    <3>2. n > 0 /\ Recalled(n)
      BY <2>2, <3>1 DEF HistoryUp
    <3>3. n \in 1 .. Len(input.history)
      BY <2>1, <3>1, <3>2
    <3> QED BY <1>1, <1>2, <3>2, <3>3, RecalledKeeps
  <2>3. CASE HistoryDown /\ input.at < Len(input.history)
    <3>1. Recalled(input.at + 1)
      BY <2>3 DEF HistoryDown
    <3>2. input.at + 1 \in 1 .. Len(input.history)
      BY <2>1, <2>3
    <3> QED BY <1>1, <1>2, <3>1, <3>2, RecalledKeeps
  <2>4. CASE HistoryDown /\ ~(input.at < Len(input.history))
    <3>1. edit' = Blank /\ input' = [input EXCEPT !.at = 0]
      BY <2>4 DEF HistoryDown
    <3>2. /\ input'.history = input.history /\ input'.at = 0
          /\ input' = [multi |-> input'.multi, history |-> input'.history, at |-> input'.at]
      BY <2>1, <3>1
    <3>3. 0 \in 0 .. Len(input.history)
      BY <2>1
    <3>4. HistoryKept'
      BY <1>2, <3>2, <3>3 DEF HistoryKept
    <3>5. Bytes(edit'.text) <= MaxInput
      BY <1>2, <3>1, BlankSound
    <3> QED BY <3>1, <3>4, <3>5, BlankSound
  <2> QED BY <1>9, <2>2, <2>3, <2>4
<1>10. CASE input' = [input EXCEPT !.multi = ~@] /\ UNCHANGED edit
  <2>1. input = [multi |-> input.multi, history |-> input.history, at |-> input.at]
    BY <1>2 DEF HistoryKept
  <2>2. /\ input'.history = input.history /\ input'.at = input.at
        /\ input' = [multi |-> input'.multi, history |-> input'.history, at |-> input'.at]
    BY <1>10, <2>1
  <2>3. HistoryKept'
    BY <1>2, <2>2 DEF HistoryKept
  <2> QED BY <1>2, <1>10, <2>3
<1> QED BY <1>4, <1>5, <1>6, <1>7, <1>8, <1>9, <1>10 DEF InputKey

LEMMA HooksKeyKeeps == ASSUME EditInv, HooksKey PROVE Sound(edit')
<1>1. Sound(edit) /\ IsSeq(edit.text) /\ uses = "hooks"
  BY DEF EditInv, HooksKey, Sound, IsBuffer
<1>2. ASSUME NEW f \in Plain(edit) \cup {MovedDown(edit)}, edit' = f PROVE Sound(edit')
  BY <1>1, <1>2, PlainKeeps, MovedDownSound DEF Keeps
<1>3. ASSUME NEW s \in {<<c>> : c \in Char["hooks"] \cup {NewLine}} \cup Pastes["hooks"],
             edit' = Inserted(edit, s)
      PROVE  Sound(edit')
  <2>1. IsSeq(s)
    BY BytesOfOne, PasteIs
  <2> QED BY <1>1, <1>3, <2>1, InsertedSound
<1>4. CASE GoUp
  BY <1>1, <1>4, MovedUpSound DEF GoUp
<1>5. CASE SaveSession
  <2>1. edit' = edit \/ edit' = AtEnd(Buffer(Normalized(edit.text), 0))
    BY <1>5 DEF SaveSession, Written
  <2>2. Sound(AtEnd(Buffer(Normalized(edit.text), 0)))
    BY <1>1, NormalizedIs, EndSound
  <2> QED BY <1>1, <2>1, <2>2
<1>6. CASE SaveRepo
  BY <1>1, <1>6 DEF SaveRepo, Written
<1> QED BY <1>1, <1>2, <1>3, <1>4, <1>5, <1>6 DEF HooksKey, HooksEdited

LEMMA SecretInputKeeps == ASSUME EditInv, SecretInput PROVE Sound(edit')
<1>1. Sound(edit) /\ edit.cur \in Nat
  <2>1. Sound(edit)
    BY DEF EditInv, SecretInput
  <2> QED BY <2>1, CutIs
<1>2. ASSUME NEW c, edit' = SecretTyped(c) PROVE Sound(edit')
  <2>1. CASE Width(c) > 1
    BY <1>1, <1>2, <2>1 DEF SecretTyped
  <2>2. CASE ~(Width(c) > 1)
    <3> DEFINE f == Inserted(edit, <<c>>)
    <3>1. Bytes(<<c>>) = 1 /\ IsSeq(<<c>>)
      BY <2>2, BytesOfOne DEF Width
    <3>2. f.cur = edit.cur + 1 /\ f = Buffer(f.text, f.cur)
      BY <3>1 DEF Inserted, Buffer
    <3>3. edit' = [f EXCEPT !.cur = edit.cur + 1]
      BY <1>2, <2>2 DEF SecretTyped
    <3>4. Sound(f)
      BY <1>1, <3>1, InsertedSound
    <3> HIDE DEF f
    <3>5. edit' = f
      BY <3>2, <3>3 DEF Buffer
    <3> QED BY <3>4, <3>5
  <2> QED BY <2>1, <2>2
<1>3. ASSUME NEW s \in Pastes["secret"], edit' = Inserted(edit, Printable(s)) PROVE Sound(edit')
  BY <1>1, <1>3, PasteIs, PrintableIs, InsertedSound
<1>4. CASE edit' \in Plain(edit)
  BY <1>1, <1>4, PlainKeeps DEF Keeps
<1> QED BY <1>2, <1>3, <1>4 DEF SecretInput

-----------------------------------------------------------------------------
(* The path.                                                               *)

LEMMA CharsInKeeps ==
  ASSUME NEW e, InPath(e), NEW s, IsSeq(s) PROVE InPath(CharsIn(e, s))
<1> DEFINE t == e.text
           b == SubSeq(t, 1, e.cur)
           a == SubSeq(t, e.cur + 1, Len(t))
<1>1. IsSeq(t) /\ Len(t) \in Nat /\ Len(s) \in Nat /\ e.cur \in 0 .. Len(t)
  BY SeqDomain DEF InPath, IsBuffer
<1>2. CharsIn(e, s) = Buffer(b \o s \o a, e.cur + Len(s))
  BY DEF CharsIn
<1> HIDE DEF t
<1>3. IsSeq(b) /\ Len(b) = e.cur
  <2>1. 1 \in 1 .. Len(t) + 1 /\ e.cur \in 1 - 1 .. Len(t) /\ e.cur - 1 + 1 = e.cur
    BY <1>1
  <2> QED BY <1>1, <2>1, PartOf
<1>4. IsSeq(a) /\ Len(a) = Len(t) - e.cur
  <2>1. /\ e.cur + 1 \in 1 .. Len(t) + 1 /\ Len(t) \in (e.cur + 1) - 1 .. Len(t)
        /\ Len(t) - (e.cur + 1) + 1 = Len(t) - e.cur
    BY <1>1
  <2> QED BY <1>1, <2>1, PartOf
<1> HIDE DEF a, b
<1>5. IsSeq(b \o s) /\ Len(b \o s) = e.cur + Len(s)
  BY <1>1, <1>3, ConcatOf
<1>6. IsSeq(b \o s \o a) /\ Len(b \o s \o a) = e.cur + Len(s) + (Len(t) - e.cur)
  BY <1>1, <1>4, <1>5, ConcatOf
<1>7. e.cur + Len(s) \in 0 .. Len(b \o s \o a)
  BY <1>1, <1>6
<1> QED BY <1>2, <1>6, <1>7 DEF InPath, IsBuffer, Buffer

LEMMA CharOutKeeps ==
  ASSUME NEW e, InPath(e), e.cur < Len(e.text) PROVE InPath(CharOut(e))
<1>1. IsSeq(e.text) /\ Len(e.text) \in Nat /\ e.cur \in 0 .. Len(e.text) /\ DOMAIN e.text = 1 .. Len(e.text)
  BY SeqDomain DEF InPath, IsBuffer
<1>2. e.cur + 1 \in DOMAIN e.text
  BY <1>1
<1>3. IsSeq(RemoveAt(e.text, e.cur + 1)) /\ DOMAIN RemoveAt(e.text, e.cur + 1) = 1 .. Len(e.text) - 1
  BY <1>1, <1>2, RemoveOf
<1> DEFINE t == RemoveAt(e.text, e.cur + 1)
<1>4. IsSeq(t) /\ DOMAIN t = 1 .. Len(e.text) - 1
  BY <1>3
<1> HIDE DEF t
<1>5. Len(t) = Len(e.text) - 1
  BY <1>1, <1>4, LenOf
<1>6. CharOut(e) = Buffer(t, e.cur)
  BY DEF CharOut, t
<1>7. e.cur \in 0 .. Len(t)
  BY <1>1, <1>5
<1> QED BY <1>4, <1>6, <1>7 DEF InPath, IsBuffer, Buffer

LEMMA PathMoved ==
  ASSUME NEW e, InPath(e), NEW n \in 0 .. Len(e.text)
  PROVE  InPath([e EXCEPT !.cur = n]) /\ [e EXCEPT !.cur = n].text = e.text /\ [e EXCEPT !.cur = n].cur = n
<1>1. e = Buffer(e.text, e.cur) /\ IsSeq(e.text)
  BY DEF InPath, IsBuffer
<1>2. [e EXCEPT !.cur = n] = Buffer(e.text, n)
  BY <1>1 DEF Buffer
<1> QED BY <1>1, <1>2 DEF InPath, IsBuffer, Buffer

LEMMA CharsLeftKeeps ==
  ASSUME NEW e, InPath(e)
  PROVE  /\ InPath(CharsLeft(e)) /\ CharsLeft(e).text = e.text
         /\ e.cur > 0 => CharsLeft(e).cur < Len(e.text)
<1> DEFINE S == {0, e.cur - 1}
           m == Max(S)
<1>1. IsSeq(e.text) /\ Len(e.text) \in Nat /\ e.cur \in 0 .. Len(e.text)
  BY SeqDomain DEF InPath, IsBuffer
<1>2. m \in 0 .. Len(e.text) /\ (e.cur > 0 => m < Len(e.text))
  <2>1. CASE e.cur > 0
    <3>1. S \in SUBSET (0 .. e.cur - 1) /\ S # {} /\ e.cur - 1 \in Nat
      BY <1>1, <2>1
    <3>2. m \in S
      <4> HIDE DEF S
      <4> QED BY <3>1, GreatestOf
    <3> HIDE DEF m
    <3> QED BY <1>1, <2>1, <3>2
  <2>2. CASE e.cur = 0
    <3>1. m = 0
      BY <2>2 DEF Max
    <3> QED BY <1>1, <2>2, <3>1
  <2> QED BY <1>1, <2>1, <2>2
<1>3. CharsLeft(e) = [e EXCEPT !.cur = m]
  BY DEF CharsLeft
<1> HIDE DEF m
<1> QED BY <1>2, <1>3, PathMoved

LEMMA PathKeyKeeps ==
  ASSUME EditInv, PathKey
  PROVE  IF open' = "path" THEN InPath(edit') ELSE open' = "none" /\ Sound(edit')
<1>1. InPath(edit) /\ open = "path"
  BY DEF EditInv, PathKey
<1>2. IsSeq(edit.text) /\ Len(edit.text) \in Nat /\ edit.cur \in 0 .. Len(edit.text)
  BY <1>1, SeqDomain DEF InPath, IsBuffer
<1>3. ASSUME NEW f \in PathEdits PROVE InPath(f)
  <2>1. CASE \E s : IsSeq(s) /\ f = CharsIn(edit, s)
    BY <1>1, <2>1, CharsInKeeps
  <2>2. CASE edit.cur > 0 /\ f = CharOut(CharsLeft(edit))
    <3>1. InPath(CharsLeft(edit)) /\ CharsLeft(edit).cur < Len(CharsLeft(edit).text)
      BY <1>1, <2>2, CharsLeftKeeps
    <3> QED BY <2>2, <3>1, CharOutKeeps
  <2>3. CASE edit.cur < Len(edit.text) /\ f = CharOut(edit)
    BY <1>1, <2>3, CharOutKeeps
  <2>4. \/ \E c \in Char["path"] : f = CharsIn(edit, <<c>>)
        \/ \E s \in Pastes["path"] : f = CharsIn(edit, s)
        \/ edit.cur > 0 /\ f = CharOut(CharsLeft(edit))
        \/ edit.cur < Len(edit.text) /\ f = CharOut(edit)
    BY <1>3 DEF PathEdits
  <2> QED BY <2>1, <2>2, <2>3, <2>4, BytesOfOne, PasteIs
<1>4. ASSUME NEW f \in PathMoves PROVE InPath(f)
  <2> DEFINE m == Min({edit.cur + 1, Len(edit.text)})
  <2>1. m \in 0 .. Len(edit.text)
    <3> DEFINE S == {edit.cur + 1, Len(edit.text)}
    <3>1. S \in SUBSET Nat /\ Len(edit.text) \in S
      BY <1>2
    <3>2. Min(S) \in S /\ Min(S) <= Len(edit.text)
      <4> HIDE DEF S
      <4> QED BY <3>1, LeastOf
    <3>3. m = Min(S)
      OBVIOUS
    <3> HIDE DEF m
    <3>4. m \in Nat /\ m <= Len(edit.text)
      <4>1. \A k \in S : k \in Nat
        BY <3>1
      <4> HIDE DEF S
      <4> QED BY <3>2, <3>3, <4>1
    <3> QED BY <1>2, <3>4
  <2>2. 0 \in 0 .. Len(edit.text) /\ Len(edit.text) \in 0 .. Len(edit.text)
    BY <1>2
  <2>3. f = CharsLeft(edit) \/ \E n \in 0 .. Len(edit.text) : f = [edit EXCEPT !.cur = n]
    <3>1. \/ f = CharsLeft(edit) \/ f = [edit EXCEPT !.cur = m]
          \/ f = [edit EXCEPT !.cur = 0] \/ f = [edit EXCEPT !.cur = Len(edit.text)]
      BY <1>4 DEF PathMoves
    <3> HIDE DEF m
    <3> QED BY <2>1, <2>2, <3>1
  <2> QED BY <1>1, <2>3, CharsLeftKeeps, PathMoved
<1>5. CASE SaveBlock
  BY <1>1, <1>5, BlankSound DEF SaveBlock, Leave
<1> QED BY <1>1, <1>3, <1>4, <1>5 DEF PathKey

LEMMA OpenEditorKeeps ==
  ASSUME EditInv, OpenEditor, uses' = uses PROVE EditInv'
<1>1. /\ uses \in {"input", "hooks", "secret", "path"} /\ open' = uses /\ UNCHANGED input
      /\ Sound(edit) /\ (uses = "input" => Bytes(edit.text) <= MaxInput /\ HistoryKept)
  BY DEF EditInv, OpenEditor
<1>2. CASE uses = "input"
  <2>1. UNCHANGED edit
    BY <1>2 DEF OpenEditor
  <2> QED BY <1>1, <1>2, <2>1 DEF EditInv, HistoryKept
<1>3. CASE uses = "hooks"
  <2>1. PICK f \in HookFiles \cup {<<>>} : edit' = Buffer(f, 0)
    BY <1>3 DEF OpenEditor
  <2>2. IsSeq(f)
    BY EditorsAssumption, NoThread DEF IsSeq
  <2>3. 0 \in Boundaries(f)
    BY <2>2, SeqDomain, BytesAre DEF Boundaries
  <2>4. Sound(edit')
    BY <2>1, <2>2, <2>3 DEF Sound, IsBuffer, Buffer
  <2> QED BY <1>1, <1>3, <2>4 DEF EditInv
<1>4. CASE uses = "secret"
  <2>1. PICK s \in Pastes["secret"] : edit' = AtEnd(Buffer(Printable(s), 0))
    BY <1>4 DEF OpenEditor
  <2>2. Sound(edit')
    BY <2>1, PasteIs, PrintableIs, EndSound
  <2> QED BY <1>1, <1>4, <2>2 DEF EditInv
<1>5. CASE uses = "path"
  <2>1. edit' = Buffer(<<"x">>, 1)
    BY <1>5 DEF OpenEditor
  <2>2. IsSeq(<<"x">>) /\ 1 \in 0 .. Len(<<"x">>)
    BY BytesOfOne
  <2>3. InPath(edit')
    BY <2>1, <2>2 DEF InPath, IsBuffer, Buffer
  <2> QED BY <1>1, <1>5, <2>3 DEF EditInv
<1> QED BY <1>1, <1>2, <1>3, <1>4, <1>5

LEMMA CloseEditorKeeps ==
  ASSUME EditInv, CloseEditor, uses' = uses PROVE EditInv'
<1>1. UNCHANGED input /\ open' = "none" /\ edit' = IF open = "input" THEN edit ELSE Blank
  BY DEF CloseEditor
<1>2. CASE open = "input"
  BY <1>1, <1>2 DEF EditInv, HistoryKept
<1>3. CASE open # "input"
  <2>1. uses # "input"
    BY <1>3 DEF EditInv, CloseEditor
  <2> QED BY <1>1, <1>3, <2>1, BlankSound DEF EditInv
<1> QED BY <1>2, <1>3

LEMMA EditNext == EditInv /\ [EditorsNext]_editorVars => EditInv'
<1> SUFFICES ASSUME EditInv, [EditorsNext]_editorVars PROVE EditInv'
  OBVIOUS
<1>1. CASE UNCHANGED editorVars
  BY <1>1 DEF editorVars, EditInv, HistoryKept
<1>2. ASSUME EditorsNext PROVE uses' = uses
  BY <1>2 DEF EditorsNext
<1>3. CASE EditorsNext /\ InputKey
  <2>1. open' = open /\ open = "input" /\ uses = "input"
    BY <1>3 DEF InputKey, EditInv
  <2> QED BY <1>2, <1>3, <2>1, InputKeyKeeps DEF EditInv
<1>4. CASE EditorsNext /\ HooksKey
  <2>1. open' = open /\ open = "hooks" /\ uses = "hooks"
    BY <1>4 DEF HooksKey, EditInv
  <2> QED BY <1>2, <1>4, <2>1, HooksKeyKeeps DEF EditInv
<1>5. CASE EditorsNext /\ SecretInput
  <2>1. open' = open /\ open = "secret" /\ uses = "secret"
    BY <1>5 DEF SecretInput, EditInv
  <2> QED BY <1>2, <1>5, <2>1, SecretInputKeeps DEF EditInv
<1>6. CASE EditorsNext /\ PathKey
  <2>1. open = "path" /\ uses = "path" /\ open' \in {"path", "none"}
    BY <1>6, PathKeyKeeps DEF PathKey, EditInv
  <2> QED BY <1>2, <1>6, <2>1, PathKeyKeeps DEF EditInv
<1>7. CASE EditorsNext /\ (OpenEditor \/ CloseEditor)
  BY <1>2, <1>7, OpenEditorKeeps, CloseEditorKeeps
<1>8. CASE EditorsNext /\ UNCHANGED <<open, edit, input, hooks, warned, crashed>>
  BY <1>2, <1>8 DEF EditInv, HistoryKept
<1> QED BY <1>1, <1>3, <1>4, <1>5, <1>6, <1>7, <1>8 DEF EditorsNext

\* Whatever is typed, pasted, erased, recalled and normalised, a cursor that counts bytes
\* stands between two characters and one that counts characters stands in the text, and the
\* input box keeps its limit (input.rs, hooks_editor.rs, settings.rs secret_edit_*, app.rs
\* handle_save_dialog).
THEOREM CursorsHoldInvariance == EditorsSpec => []CursorsHold
<1>1. EditorsInit => EditInv
  <2> SUFFICES ASSUME EditorsInit PROVE EditInv
    OBVIOUS
  <2>1. /\ uses \in {"input", "hooks", "secret", "path"} /\ open = "none" /\ edit = Blank
        /\ input = [multi |-> FALSE, history |-> <<>>, at |-> 0]
    BY DEF EditorsInit
  <2>2. HistoryKept
    BY <2>1, NoThread DEF HistoryKept
  <2>3. Bytes(edit.text) <= MaxInput
    BY <2>1, BlankSound, EditorsAssumption
  <2> QED BY <2>1, <2>2, <2>3, BlankSound DEF EditInv
<1>2. EditInv => CursorsHold
  BY DEF EditInv, InPath, Sound, CursorsHold
<1> QED BY <1>1, <1>2, EditNext, PTL DEF EditorsSpec

=============================================================================
