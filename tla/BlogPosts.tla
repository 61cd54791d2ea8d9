------------------------------ MODULE BlogPosts ------------------------------
(***************************************************************************)
(* Posts of a blog application (app/blog/service.py, app/blog/router.py).  *)
(*                                                                         *)
(* A save is a PATCH of some fields with the version of the page they were *)
(* edited on.  The handler reads the row, checks permissions and the       *)
(* version on what it read, merges the fields into the row, and writes     *)
(* every column where the row still has that version.  Between the read    *)
(* and the write other saves commit; between the write and the commit they *)
(* wait for the lock of the row, of the address or of the category.        *)
(***************************************************************************)
EXTENDS Naturals, SequencesExt

CONSTANTS
    NumPosts,   \* posts of a run, numbered as they are inserted
    Editor,     \* members who may create and update posts
    Admins,     \* members who see every post, the others only their own
    Publishers, \* members with blog.publish and a complete profile
    Title, Locale, Category,
    Status,     \* "draft", "published" and "archived", which is as any but "published"
    Saver,      \* requests at work at the same time
    MaxVersion, \* versions of a post in a run
    MaxSaves    \* saves of all posts after which none begins

VARIABLES
    versions,   \* the saved versions of a post; the row is the last one
    categories, \* names in blog_categories
    save        \* what each handler does

blogPostsVars == <<versions, categories, save>>

Post == 1..NumPosts
Unset == "unset"
NoSave == [at |-> "gone"]

BlogPostsInit == /\ versions = [p \in Post |-> <<>>]
                 /\ categories = {}
                 /\ save = [h \in Saver |-> NoSave]

Exists(p) == versions[p] # <<>>
Latest(p) == Last(versions[p])
MaySave == MapThenSumSet(LAMBDA p : Len(versions[p]), Post) < MaxSaves

EndsSave(h) == save' = [save EXCEPT ![h] = NoSave]
Is(h, place) == save[h].at = place
Others(h, place) == {o \in Saver \ {h} : Is(o, place)}

-----------------------------------------------------------------------------
\* finalize: the first publication dates the post for good.
Dated(row) == [row EXCEPT !.published = IF row.status = "published" /\ @ = 0 THEN row.version ELSE @]

\* Mutant: only what is asked for counts.
MayRequest(e, was, requested) == requested = "published" => e \in Publishers

\* publish_permission: a post that is or becomes public.
MayWrite(e, was, requested) == "published" \in {was, requested} => e \in Publishers

Or(value, default) == IF value = Unset THEN default ELSE value

Created(e, title, locale, status) ==
    Dated([title |-> title, locale |-> locale, status |-> status, slug |-> Unset,
           published |-> 0, version |-> 1, author |-> e, by |-> e, seen |-> 0])

BeginCreate(h, e, title, locale, status) ==
    /\ MayWrite(e, "none", status)
    /\ save' = [save EXCEPT ![h] = [at |-> "write", post |-> 0, stable |-> FALSE,
                                   category |-> Unset, row |-> Created(e, title, locale, status)]]
    /\ UNCHANGED <<versions, categories>>

\* A published post keeps its slug, another while title and locale are not set.
IsStable(row, title, locale) == row.published # 0 \/ {title, locale} = {Unset}

\* Mutant: a withdrawn post may move to another locale.
KeepsLocaleOnline(row, locale) == row.status = "published" => locale \in {Unset, row.locale}

\* A post that was published once stays in its locale.
KeepsLocale(row, locale) == row.published # 0 => locale \in {Unset, row.locale}

\* An editor who is no administrator finds the posts that he created.
Finds(e, row) == e \in Admins \/ row.author = e

\* The versions that browsers may show.
Shown(p) == DOMAIN versions[p]

\* The fields that are sent replace those that were read; the author stays.
Edited(row, e, seen, title, locale, status) ==
    Dated([row EXCEPT !.title = Or(title, @), !.locale = Or(locale, @), !.status = Or(status, @),
                      !.version = @ + 1, !.by = e, !.seen = seen])

BeginUpdate(h, e, p, seen, title, locale, status) ==
    /\ seen = Latest(p).version
    /\ seen < MaxVersion
    /\ Finds(e, Latest(p))
    /\ MayWrite(e, Latest(p).status, status)
    /\ KeepsLocale(Latest(p), locale)
    /\ save' = [save EXCEPT ![h] =
         [at |-> "write", post |-> p, stable |-> IsStable(Latest(p), title, locale),
          category |-> Unset, row |-> Edited(Latest(p), e, seen, title, locale, status)]]
    /\ UNCHANGED <<versions, categories>>

\* category_for_name: the insert waits for one of the same name to end.  It comes
\* before the post's row in every transaction, so that the two waits are one step.
Inserted(c) == \E h \in Saver : Is(h, "commit") /\ save[h].category = c
MayBind(c) == c \in {Unset} \cup categories \/ ~Inserted(c)

-----------------------------------------------------------------------------
Address(row) == <<row.locale, row.slug>>
Taken(p) == {Address(Latest(q)) : q \in {q \in Post \ {p} : Exists(q)}}
Written(h, p) == \E o \in Others(h, "commit") : save[o].post = p
Pending(h) == {Address(save[o].row) : o \in Others(h, "commit")}

\* The slug of the title, or the title with a suffix that is free.
Allocated(h, p) ==
    LET row == save[h].row
        free(n) == <<row.locale, <<row.title, n>>>> \notin Taken(p)
    IN IF save[h].stable THEN {row.slug}
       ELSE IF free(0) THEN {<<row.title, 0>>}
       ELSE {<<row.title, n>> : n \in {n \in 1..NumPosts : free(n)}}

\* Mutant: UPDATE ... WHERE id only.
AnyVersion(h) == TRUE

\* UPDATE ... WHERE id AND version, on the row as it is when it is locked.
SameVersion(h) == Latest(save[h].post).version = save[h].row.seen

\* The insert or the update holds its row and its address until the commit.
Write(h, p, c) ==
    /\ Is(h, "write")
    /\ MayBind(c)
    /\ \/ save[h].post = p /\ SameVersion(h)
       \/ save[h].post = 0 /\ ~Exists(p) /\ \A q \in 1..(p - 1) : Exists(q) \/ Written(h, q)
    /\ ~Written(h, p)
    /\ \E slug \in Allocated(h, p) :
          /\ <<save[h].row.locale, slug>> \notin Pending(h)
          /\ save' = [save EXCEPT ![h].at = "commit", ![h].post = p, ![h].row.slug = slug,
                                   ![h].category = IF c \in categories THEN Unset ELSE c]
    /\ UNCHANGED <<versions, categories>>

CommitSave(h) ==
    /\ Is(h, "commit")
    /\ LET p == save[h].post
       IN versions' = [versions EXCEPT ![p] = Append(@, save[h].row)]
    /\ categories' = categories \cup ({save[h].category} \ {Unset})
    /\ EndsSave(h)

\* The category or an asset is unknown, or of the wrong type (422).
Refuse(h) ==
    /\ Is(h, "write")
    /\ EndsSave(h)
    /\ UNCHANGED <<versions, categories>>

\* No row has the version any more (409); a timeout, a failure, a crash.
RollBack(h) ==
    /\ save[h] # NoSave
    /\ EndsSave(h)
    /\ UNCHANGED <<versions, categories>>

\* The endpoint for categories: lookup or insert, and commit.
CreateCategory(c) ==
    /\ c \notin categories
    /\ ~Inserted(c)
    /\ categories' = categories \cup {c}
    /\ UNCHANGED <<versions, save>>

BeginSave(h) ==
    /\ save[h] = NoSave /\ MaySave
    /\ \E e \in Editor, title \in Title \cup {Unset}, locale \in Locale \cup {Unset},
          status \in Status \cup {Unset} :
          \/ Unset \notin {title, locale, status} /\ BeginCreate(h, e, title, locale, status)
          \/ \E p \in Post : \E seen \in Shown(p) : BeginUpdate(h, e, p, seen, title, locale, status)

BlogPostsNext ==
    \/ \E h \in Saver : \/ BeginSave(h) \/ CommitSave(h) \/ Refuse(h) \/ RollBack(h)
                          \/ \E p \in Post, c \in Category \cup {Unset} : Write(h, p, c)
    \/ \E c \in Category : CreateCategory(c)

BlogPostsSpec == BlogPostsInit /\ [][BlogPostsNext]_blogPostsVars

-----------------------------------------------------------------------------
(***************************************************************************)
(* Every version was saved from a page that showed the version before it:  *)
(* nobody overwrites a change that he has not seen.                        *)
(***************************************************************************)
NoLostUpdate == \A p \in Post : \A i \in DOMAIN versions[p] :
                   versions[p][i].seen = i - 1 /\ versions[p][i].version = i

(***************************************************************************)
(* A post becomes public, changes while it is public, and is withdrawn     *)
(* only by members with the permission to publish, although the permission *)
(* was checked on a row that others may have changed before the write.     *)
(***************************************************************************)
OnlyPublishersPublish ==
    \A p \in Post : \A i \in DOMAIN versions[p] :
       "published" \in {versions[p][i].status} \cup {versions[p][j].status : j \in {i - 1} \ {0}}
          => versions[p][i].by \in Publishers

(***************************************************************************)
(* The address and the date of a post never change once it was published,  *)
(* also when it is withdrawn and then edited by one who does not publish.  *)
(***************************************************************************)
AddressIsPermanent ==
    \A p \in Post : \A i, j \in DOMAIN versions[p] :
       i < j /\ versions[p][i].published # 0
          => /\ Address(versions[p][i]) = Address(versions[p][j])
             /\ versions[p][i].published = versions[p][j].published
=============================================================================
