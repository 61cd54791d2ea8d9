-------------------------- MODULE BlogPostsProofs --------------------------
(***************************************************************************)
(* Proofs about BlogPosts, for any number of posts, editors, requests and  *)
(* versions.                                                               *)
(***************************************************************************)
EXTENDS BlogPosts, TLAPS

\* A slug is made of the title and of a number; a draft may have none.
Slug == {Unset} \cup (Title \X Nat)

\* A version of a post, as the history keeps it.
Row == [title : Title, locale : Locale, status : Status, slug : Slug, published : Nat,
        version : Nat, author : Editor, by : Editor, seen : Nat]

\* A save that is under way, and the row that it will write.
Work == [at : {"write", "commit"}, post : Post \cup {0}, stable : BOOLEAN,
         category : Category \cup {Unset}, row : Row]

\* The types: the history of every post, the categories and the saves.
PostsTypeOK ==
    /\ versions \in [Post -> Seq(Row)]
    /\ categories \subseteq Category
    /\ save \in [Saver -> {NoSave} \cup Work]

\* What a version owes to the one before it.
Follows(old, new) ==
    /\ old.status = "published" => new.by \in Publishers
    /\ old.published # 0 => Address(new) = Address(old) /\ new.published = old.published

\* What a save s holds was made from a version of its post, of which later ones may
\* follow until the save has the lock of the row.
SaveOf(s) ==
    /\ s.row.version = s.row.seen + 1
    /\ s.row.status = "published" => s.row.by \in Publishers
    /\ s.post = 0 => s.at = "write" /\ s.row.seen = 0
    /\ s.at = "write" /\ s.row.seen = 0 => s.post = 0
    /\ s.at = "commit" => s.row.seen = Len(versions[s.post])
    /\ s.row.seen > 0 =>
          /\ s.row.seen <= Len(versions[s.post])
          /\ Follows(versions[s.post][s.row.seen], s.row)
          /\ s.at = "write" /\ versions[s.post][s.row.seen].published # 0 => s.stable

\* Every save under way is one that its editor may make.
SaveInv == \A h \in Saver : save[h] # NoSave => SaveOf(save[h])

\* One save at a time holds the lock of a row.
LockInv == \A h, o \in Saver : h # o /\ Is(h, "commit") /\ Is(o, "commit") => save[h].post # save[o].post

\* The inductive invariant.
IInv == PostsTypeOK /\ SaveInv /\ LockInv /\ NoLostUpdate /\ OnlyPublishersPublish /\ AddressIsPermanent

-----------------------------------------------------------------------------
\* The row of a post is its last version.
LEMMA LatestIs ==
    ASSUME PostsTypeOK, NEW p \in Post, versions[p] # <<>>
    PROVE  /\ Len(versions[p]) \in Nat \ {0}
           /\ Latest(p) = versions[p][Len(versions[p])]
           /\ Latest(p) \in Row
BY DEF PostsTypeOK, Latest, Last

\* No post and no save.
LEMMA InitIInv == BlogPostsInit => IInv
<1> SUFFICES ASSUME BlogPostsInit PROVE IInv
  OBVIOUS
<1>1. PostsTypeOK
  BY DEF BlogPostsInit, PostsTypeOK
<1>2. \A p \in Post : DOMAIN versions[p] = {}
  BY DEF BlogPostsInit
<1>3. SaveInv /\ LockInv
  BY DEF BlogPostsInit, SaveInv, LockInv, Is, NoSave
<1> QED BY <1>1, <1>2, <1>3 DEF IInv, NoLostUpdate, OnlyPublishersPublish, AddressIsPermanent

\* A step of one save, before its commit, keeps the invariant if it keeps what is said of it.
LEMMA SaveKeeps ==
    ASSUME IInv, NEW h \in Saver, NEW s \in {NoSave} \cup Work,
           versions' = versions, categories' = categories, save' = [save EXCEPT ![h] = s],
           s # NoSave => SaveOf(s),
           s.at = "commit" => \A o \in Saver \ {h} : Is(o, "commit") => save[o].post # s.post
    PROVE  IInv'
<1>1. PostsTypeOK'
  BY DEF IInv, PostsTypeOK
<1>2. save'[h] = s /\ \A o \in Saver \ {h} : save'[o] = save[o]
  BY DEF IInv, PostsTypeOK
<1>3. SaveInv'
  <2> SUFFICES ASSUME NEW o \in Saver, save'[o] # NoSave PROVE SaveOf(save[o])'
    BY DEF SaveInv
  <2>1. SaveOf(save'[o])
    BY <1>2 DEF IInv, SaveInv
  <2> QED BY <2>1 DEF SaveOf
<1>4. LockInv'
  BY <1>2 DEF IInv, LockInv, Is
<1> QED BY <1>1, <1>3, <1>4 DEF IInv, NoLostUpdate, OnlyPublishersPublish, AddressIsPermanent

\* A row that is dated.
LEMMA DatedRow ==
    ASSUME NEW row \in Row
    PROVE  /\ Dated(row) \in Row
           /\ \A f \in {"title", "locale", "status", "slug", "version", "author", "by", "seen"} :
                 Dated(row)[f] = row[f]
           /\ row.published # 0 => Dated(row).published = row.published
BY DEF Dated, Row

\* A save begins.
LEMMA BeginIInv ==
    ASSUME IInv, NEW h \in Saver, BeginSave(h)
    PROVE  IInv'
<1>t. PostsTypeOK
  BY DEF IInv
<1>1. PICK e \in Editor, title \in Title \cup {Unset}, locale \in Locale \cup {Unset},
           status \in Status \cup {Unset} :
         \/ Unset \notin {title, locale, status} /\ BeginCreate(h, e, title, locale, status)
         \/ \E p \in Post : \E seen \in Shown(p) : BeginUpdate(h, e, p, seen, title, locale, status)
  BY DEF BeginSave
<1>2. CASE Unset \notin {title, locale, status} /\ BeginCreate(h, e, title, locale, status)
  <2> DEFINE bare == [title |-> title, locale |-> locale, status |-> status, slug |-> Unset,
                      published |-> 0, version |-> 1, author |-> e, by |-> e, seen |-> 0]
             s == [at |-> "write", post |-> 0, stable |-> FALSE, category |-> Unset, row |-> Dated(bare)]
  <2>1. bare \in Row
    BY <1>2 DEF Row, Slug
  <2>2. Dated(bare) \in Row /\ Dated(bare).version = 1 /\ Dated(bare).seen = 0
        /\ Dated(bare).status = status /\ Dated(bare).by = e
    BY <2>1, DatedRow
  <2>3. s \in Work /\ s # NoSave /\ s.at = "write"
    BY <2>2 DEF Work, NoSave
  <2>4. status = "published" => e \in Publishers
    BY <1>2 DEF BeginCreate, MayWrite
  <2>5. SaveOf(s)
    BY <2>2, <2>4 DEF SaveOf
  <2>6. save' = [save EXCEPT ![h] = s] /\ versions' = versions /\ categories' = categories
    BY <1>2 DEF BeginCreate, Created
  <2> HIDE DEF s
  <2> QED BY <2>3, <2>5, <2>6, SaveKeeps
<1>3. ASSUME NEW p \in Post, NEW seen \in Shown(p), BeginUpdate(h, e, p, seen, title, locale, status)
      PROVE  IInv'
  <2> DEFINE old == Latest(p)
             merged == [old EXCEPT !.title = Or(title, @), !.locale = Or(locale, @), !.status = Or(status, @),
                                   !.version = @ + 1, !.by = e, !.seen = seen]
             s == [at |-> "write", post |-> p, stable |-> IsStable(old, title, locale),
                   category |-> Unset, row |-> Dated(merged)]
  <2>1. versions[p] # <<>>
    BY <1>3, <1>t DEF Shown, PostsTypeOK
  <2>2. /\ old \in Row /\ old = versions[p][Len(versions[p])] /\ Len(versions[p]) \in Nat \ {0}
    BY <2>1, <1>t, LatestIs
  <2>3. old.version = Len(versions[p])
    BY <2>2 DEF IInv, NoLostUpdate
  <2>4. seen = Len(versions[p])
    BY <1>3, <2>3 DEF BeginUpdate
  <2> HIDE DEF old
  <2>a. Or(title, old.title) \in Title /\ Or(locale, old.locale) \in Locale /\ Or(status, old.status) \in Status
    BY <2>2 DEF Row, Or
  <2>b. old.version + 1 \in Nat /\ seen \in Nat
    BY <2>2, <2>4 DEF Row
  <2>5. /\ merged \in Row
        /\ merged.version = old.version + 1 /\ merged.by = e /\ merged.seen = seen
        /\ merged.slug = old.slug /\ merged.published = old.published
        /\ merged.locale = Or(locale, old.locale) /\ merged.status = Or(status, old.status)
    BY <2>2, <2>a, <2>b DEF Row
  <2> HIDE DEF merged
  <2>6. /\ Dated(merged) \in Row
        /\ Dated(merged).version = merged.version /\ Dated(merged).by = e /\ Dated(merged).seen = seen
        /\ Dated(merged).slug = old.slug /\ Dated(merged).locale = merged.locale
        /\ Dated(merged).status = merged.status
        /\ old.published # 0 => Dated(merged).published = old.published
    BY <2>5, DatedRow
  <2>7. IsStable(old, title, locale) \in BOOLEAN /\ (old.published # 0 => IsStable(old, title, locale))
    BY DEF IsStable
  <2>8. s \in Work /\ s # NoSave /\ s.at = "write"
    BY <2>6, <2>7 DEF Work, NoSave
  <2>9. old.published # 0 => Or(locale, old.locale) = old.locale
    BY <1>3 DEF BeginUpdate, KeepsLocale, Or, old
  <2>10. "published" \in {old.status, Or(status, old.status)} => e \in Publishers
    BY <1>3 DEF BeginUpdate, MayWrite, Or, old
  <2>11. Follows(old, Dated(merged))
    BY <2>5, <2>6, <2>9, <2>10 DEF Follows, Address
  <2>12. SaveOf(s)
    BY <2>2, <2>3, <2>4, <2>5, <2>6, <2>7, <2>10, <2>11 DEF SaveOf, Post
  <2>13. save' = [save EXCEPT ![h] = s] /\ versions' = versions /\ categories' = categories
    BY <1>3 DEF BeginUpdate, Edited, old, merged
  <2> HIDE DEF s
  <2> QED BY <2>8, <2>12, <2>13, SaveKeeps
<1> QED BY <1>1, <1>2, <1>3

\* A save writes the row that has the version it was made from, and holds it.
LEMMA WriteIInv ==
    ASSUME IInv, NEW h \in Saver, NEW p \in Post, NEW c \in Category \cup {Unset}, Write(h, p, c)
    PROVE  IInv'
<1>t. PostsTypeOK /\ save[h] \in Work /\ save[h].at = "write"
  BY DEF IInv, PostsTypeOK, Write, Is, NoSave
<1>1. SaveOf(save[h])
  BY <1>t DEF IInv, SaveInv, NoSave
<1>2. PICK slug \in Allocated(h, p) :
         save' = [save EXCEPT ![h].at = "commit", ![h].post = p, ![h].row.slug = slug,
                              ![h].category = IF c \in categories THEN Unset ELSE c]
  BY DEF Write
<1> DEFINE old == save[h]
           row == [old.row EXCEPT !.slug = slug]
           s == [at |-> "commit", post |-> p, stable |-> old.stable,
                 category |-> IF c \in categories THEN Unset ELSE c, row |-> row]
<1>3. slug \in Slug /\ (old.stable => slug = old.row.slug)
  <2>1. CASE old.stable
    BY <1>t, <1>2, <2>1 DEF Allocated, Work, Row
  <2>2. CASE ~old.stable
    <3>1. \E n \in {0} \cup 1..NumPosts : slug = <<old.row.title, n>>
      BY <1>2, <2>2 DEF Allocated
    <3> QED BY <1>t, <2>2, <3>1 DEF Slug, Work, Row
  <2> QED BY <2>1, <2>2
<1>4. /\ row \in Row
      /\ row.locale = old.row.locale /\ row.status = old.row.status /\ row.published = old.row.published
      /\ row.version = old.row.version /\ row.by = old.row.by /\ row.seen = old.row.seen /\ row.slug = slug
  BY <1>t, <1>3 DEF Work, Row
<1>5. s \in Work /\ s # NoSave
  BY <1>t, <1>4 DEF Work, NoSave
<1>6. save' = [save EXCEPT ![h] = s]
  <2>1. save'[h] = s
    BY <1>t, <1>2 DEF Work, PostsTypeOK
  <2>2. \A o \in Saver \ {h} : save'[o] = save[o]
    BY <1>t, <1>2 DEF PostsTypeOK
  <2>3. DOMAIN save' = Saver /\ save' = [o \in Saver |-> save'[o]]
    BY <1>t, <1>2 DEF PostsTypeOK
  <2> HIDE DEF s
  <2> QED BY <1>t, <2>1, <2>2, <2>3 DEF PostsTypeOK
<1>7. old.row.seen = Len(versions[p]) /\ (old.row.seen > 0 => old.post = p)
  <2>1. CASE old.post = p /\ SameVersion(h)
    <3>1. old.row.seen > 0
      BY <1>t, <1>1, <2>1 DEF SaveOf, Work, Row, Post
    <3>2. versions[p] # <<>>
      BY <1>t, <1>1, <2>1, <3>1 DEF SaveOf, Work, Row, PostsTypeOK
    <3>3. Latest(p).version = Len(versions[p])
      BY <1>t, <3>2, LatestIs DEF IInv, NoLostUpdate
    <3> QED BY <2>1, <3>3 DEF SameVersion
  <2>2. CASE old.post = 0 /\ ~Exists(p)
    BY <1>1, <2>2 DEF SaveOf, Exists
  <2> QED BY <2>1, <2>2 DEF Write
<1>8. SaveOf(s)
  <2>1. p # 0
    BY DEF Post
  <2>2. row.seen > 0 => Follows(versions[p][row.seen], row)
    BY <1>1, <1>3, <1>4, <1>7, <1>t DEF SaveOf, Follows, Address
  <2>3. Len(versions[p]) \in Nat
    BY <1>t DEF PostsTypeOK
  <2> HIDE DEF row
  <2> QED BY <1>1, <1>4, <1>7, <2>1, <2>2, <2>3 DEF SaveOf
<1>9. \A o \in Saver \ {h} : Is(o, "commit") => save[o].post # p
  BY DEF Write, Written, Others
<1>10. versions' = versions /\ categories' = categories
  BY DEF Write
<1> HIDE DEF s
<1> QED BY <1>5, <1>6, <1>8, <1>9, <1>10, SaveKeeps DEF s

\* The row becomes the next version.
LEMMA CommitIInv ==
    ASSUME IInv, NEW h \in Saver, CommitSave(h)
    PROVE  IInv'
<1>t. PostsTypeOK /\ save[h] \in Work /\ save[h].at = "commit"
  BY DEF IInv, PostsTypeOK, CommitSave, Is, NoSave
<1>1. SaveOf(save[h])
  BY <1>t DEF IInv, SaveInv, NoSave
<1> DEFINE p == save[h].post
           row == save[h].row
           n == Len(versions[p])
<1>2. p \in Post /\ row \in Row /\ n \in Nat
  BY <1>t, <1>1 DEF SaveOf, Work, PostsTypeOK
<1>3. row.seen = n /\ row.version = n + 1
      /\ (row.status = "published" => row.by \in Publishers)
      /\ (n > 0 => Follows(versions[p][n], row))
  BY <1>t, <1>1 DEF SaveOf
<1>4. /\ versions' = [versions EXCEPT ![p] = Append(@, row)]
      /\ save' = [save EXCEPT ![h] = NoSave]
      /\ categories' = categories \cup ({save[h].category} \ {Unset})
  BY DEF CommitSave, EndsSave
<1> HIDE DEF p, row
<1>5. PostsTypeOK'
  <2>1. versions' \in [Post -> Seq(Row)]
    BY <1>t, <1>2, <1>4 DEF PostsTypeOK
  <2>2. categories' \subseteq Category
    BY <1>t, <1>4 DEF PostsTypeOK, Work
  <2> QED BY <1>t, <1>4, <2>1, <2>2 DEF PostsTypeOK
<1>6. /\ \A q \in Post \ {p} : versions'[q] = versions[q]
      /\ Len(versions'[p]) = n + 1 /\ versions'[p][n + 1] = row
      /\ \A i \in 1..n : versions'[p][i] = versions[p][i]
  BY <1>t, <1>2, <1>4 DEF PostsTypeOK
<1>7. SaveInv' /\ LockInv'
  <2>1. save'[h] = NoSave /\ \A o \in Saver \ {h} : save'[o] = save[o]
    BY <1>t, <1>4 DEF PostsTypeOK
  <2>2. LockInv'
    BY <2>1 DEF IInv, LockInv, Is, NoSave
  <2>3. ASSUME NEW o \in Saver \ {h}, save[o] # NoSave PROVE SaveOf(save[o])'
    <3>1. SaveOf(save[o]) /\ save[o] \in Work
      BY <1>t, <2>3 DEF IInv, SaveInv, PostsTypeOK
    <3>2. save'[o] = save[o]
      BY <2>1
    <3>3. CASE save[o].post = p
      <4>1. save[o].at = "write"
        BY <1>t, <3>1, <3>3 DEF IInv, LockInv, Is, p, Work
      <4>2. save[o].row.seen > 0 => save[o].row.seen \in 1..n
        BY <1>2, <3>1, <3>3 DEF SaveOf, Work, Row
      <4> QED BY <1>2, <1>6, <3>1, <3>2, <3>3, <4>1, <4>2, SMTT(30) DEF SaveOf
    <3>4. CASE save[o].post # p
      <4>1. save[o].post # 0 => versions'[save[o].post] = versions[save[o].post]
        BY <1>6, <3>1, <3>4 DEF Work
      <4> QED BY <3>1, <3>2, <4>1 DEF SaveOf
    <3> QED BY <3>3, <3>4
  <2> QED BY <2>1, <2>2, <2>3 DEF SaveInv
<1>8. ASSUME NEW i \in DOMAIN versions'[p] PROVE i = n + 1 \/ (i \in 1..n /\ i \in DOMAIN versions[p])
  BY <1>2, <1>5, <1>6, <1>8, <1>t DEF PostsTypeOK
<1>9. NoLostUpdate'
  BY <1>2, <1>3, <1>6, <1>8 DEF IInv, NoLostUpdate
<1>10. OnlyPublishersPublish'
  <2> SUFFICES ASSUME NEW q \in Post, NEW i \in DOMAIN versions'[q],
                      "published" \in {versions'[q][i].status}
                           \cup {versions'[q][j].status : j \in {i - 1} \ {0}}
               PROVE  versions'[q][i].by \in Publishers
    BY DEF OnlyPublishersPublish
  <2>1. CASE q # p
    BY <1>6, <2>1 DEF IInv, OnlyPublishersPublish
  <2>2. CASE q = p /\ i \in 1..n
    <3>1. versions'[p][i] = versions[p][i] /\ (i - 1 # 0 => versions'[p][i - 1] = versions[p][i - 1])
      BY <1>2, <1>6, <2>2
    <3> QED BY <1>8, <2>2, <3>1 DEF IInv, OnlyPublishersPublish
  <2>3. CASE q = p /\ i = n + 1
    <3>1. n > 0 => versions'[p][n] = versions[p][n]
      BY <1>2, <1>6
    <3>2. i - 1 = n
      BY <1>2, <2>3
    <3> QED BY <1>2, <1>3, <1>6, <2>3, <3>1, <3>2 DEF Follows
  <2> QED BY <1>8, <2>1, <2>2, <2>3
<1>11. AddressIsPermanent'
  <2> SUFFICES ASSUME NEW q \in Post, NEW i \in DOMAIN versions'[q], NEW j \in DOMAIN versions'[q],
                      i < j, versions'[q][i].published # 0
               PROVE  /\ Address(versions'[q][i]) = Address(versions'[q][j])
                      /\ versions'[q][i].published = versions'[q][j].published
    BY DEF AddressIsPermanent, Address
  <2>1. CASE q # p
    BY <1>6, <2>1 DEF IInv, AddressIsPermanent
  <2>2. CASE q = p /\ j \in 1..n
    <3>1. i \in 1..n
      BY <1>2, <1>8, <2>2
    <3> QED BY <1>t, <1>6, <1>8, <2>2, <3>1 DEF IInv, AddressIsPermanent, PostsTypeOK
  <2>3. CASE q = p /\ j = n + 1
    <3>1. i \in 1..n /\ n \in 1..n /\ n > 0 /\ i \in DOMAIN versions[p] /\ n \in DOMAIN versions[p]
      BY <1>2, <1>8, <1>t, <2>3 DEF PostsTypeOK
    <3>2. versions'[p][i] = versions[p][i] /\ versions'[p][j] = row
      BY <1>6, <2>3, <3>1
    <3>3. i = n \/ (/\ Address(versions[p][i]) = Address(versions[p][n])
                    /\ versions[p][i].published = versions[p][n].published)
      BY <1>2, <2>3, <3>1, <3>2 DEF IInv, AddressIsPermanent
    <3>4. versions[p][n].published # 0
      BY <2>3, <3>2, <3>3
    <3>5. Address(row) = Address(versions[p][n]) /\ row.published = versions[p][n].published
      BY <1>3, <3>1, <3>4 DEF Follows
    <3> QED BY <2>3, <3>2, <3>3, <3>5
  <2> QED BY <1>8, <2>1, <2>2, <2>3
<1> QED BY <1>5, <1>7, <1>9, <1>10, <1>11 DEF IInv

\* Every step keeps the invariant.
LEMMA StepIInv == IInv /\ [BlogPostsNext]_blogPostsVars => IInv'
<1> SUFFICES ASSUME IInv, [BlogPostsNext]_blogPostsVars PROVE IInv'
  OBVIOUS
<1>1. ASSUME NEW h \in Saver, BeginSave(h) PROVE IInv'
  BY <1>1, BeginIInv
<1>2. ASSUME NEW h \in Saver, NEW p \in Post, NEW c \in Category \cup {Unset}, Write(h, p, c) PROVE IInv'
  BY <1>2, WriteIInv
<1>3. ASSUME NEW h \in Saver, CommitSave(h) PROVE IInv'
  BY <1>3, CommitIInv
<1>4. ASSUME NEW h \in Saver, Refuse(h) \/ RollBack(h) PROVE IInv'
  <2>1. save' = [save EXCEPT ![h] = NoSave] /\ versions' = versions /\ categories' = categories
    BY <1>4 DEF Refuse, RollBack, EndsSave
  <2>2. NoSave.at # "commit"
    BY DEF NoSave
  <2> QED BY <2>1, <2>2, SaveKeeps
<1>5. ASSUME NEW c \in Category, CreateCategory(c) PROVE IInv'
  <2>1. versions' = versions /\ save' = save /\ categories' = categories \cup {c}
    BY <1>5 DEF CreateCategory
  <2> QED BY <2>1 DEF IInv, PostsTypeOK, SaveInv, SaveOf, LockInv, Is, NoLostUpdate, OnlyPublishersPublish,
          AddressIsPermanent
<1>6. CASE UNCHANGED blogPostsVars
  BY <1>6 DEF blogPostsVars, IInv, PostsTypeOK, SaveInv, SaveOf, LockInv, Is, NoLostUpdate,
     OnlyPublishersPublish, AddressIsPermanent
<1> QED BY <1>1, <1>2, <1>3, <1>4, <1>5, <1>6 DEF BlogPostsNext

-----------------------------------------------------------------------------
\* The invariant holds in every reachable state.
THEOREM Invariance == BlogPostsSpec => []IInv
BY InitIInv, StepIInv, PTL DEF BlogPostsSpec

\* The type invariant of BlogPosts.
THEOREM TypeCorrect == BlogPostsSpec => []PostsTypeOK
<1>1. IInv => PostsTypeOK
  BY DEF IInv
<1> QED BY <1>1, Invariance, PTL

\* The version check of the UPDATE (blog/service.py): every version was made from the
\* one before it, however many saves race.
THEOREM NoUpdateIsLost == BlogPostsSpec => []NoLostUpdate
<1>1. IInv => NoLostUpdate
  BY DEF IInv
<1> QED BY <1>1, Invariance, PTL

\* publish_permission was checked on a row that others may have changed since: the
\* version check makes up for it.
THEOREM PublishersPublish == BlogPostsSpec => []OnlyPublishersPublish
<1>1. IInv => OnlyPublishersPublish
  BY DEF IInv
<1> QED BY <1>1, Invariance, PTL

\* A post keeps its address and its date once it was published.
THEOREM AddressesArePermanent == BlogPostsSpec => []AddressIsPermanent
<1>1. IInv => AddressIsPermanent
  BY DEF IInv
<1> QED BY <1>1, Invariance, PTL
=============================================================================
