--------------------------- MODULE MediaLibrary ---------------------------
(***************************************************************************)
(* The stock media of the applications (app/services/media_extractor.py,   *)
(* app/api/v1/media/router.py).  A background task searches two stock      *)
(* services, uploads what they find to the bucket one file at a time, and  *)
(* records all of it in one transaction at its end.  A deletion selects    *)
(* the rows of the application, deletes their objects one by one, and then *)
(* deletes the rows of the objects it deleted.  The bucket and the         *)
(* database have no common transaction, and nothing reconciles them.       *)
(***************************************************************************)
EXTENDS Naturals, FiniteSets

CONSTANTS
    Extraction,     \* background tasks
    Deletion,       \* requests to delete
    OwnerOf,        \* the application of each of them
    MaxKeywords,    \* keywords of an extraction
    Quantity,       \* files asked for a keyword
    MaxAccidents    \* lost answers and transactions, crashes

ASSUME OwnerOfAssumption == DOMAIN OwnerOf = Extraction \cup Deletion
ASSUME QuantityAssumption == Quantity \in Nat \ {0} /\ MaxKeywords \in Nat \ {0}
ASSUME MaxAccidentsAssumption == MaxAccidents \in Nat

VARIABLES
    stored,      \* objects in the bucket
    recorded,    \* rows of extracted_media
    extraction,  \* what each task does
    deletion,    \* what each deletion does
    accidents

libraryVars == <<stored, recorded, extraction, deletion, accidents>>

\* Every upload has a name of its own: the image of a keyword of an extraction.
Image == Extraction \X (1..MaxKeywords) \X (1..Quantity)
ImagesOf(app) == {f \in Image : OwnerOf[f[1]] = app}

\* get_media_urls_for_item: an URL for every row, whether its object is there or not.
UrlsOf(app) == ImagesOf(app) \cap recorded

LibraryInit ==
    /\ stored = {}
    /\ recorded = {}
    /\ extraction = [x \in Extraction |-> [at |-> "none", keyword |-> 0, source |-> 0, found |-> 0,
                                           tried |-> 0, keys |-> {}]]
    /\ deletion = [d \in Deletion |-> [at |-> "none", keys |-> {}, left |-> {}, deleted |-> {}]]
    /\ accidents = 0

Accident == accidents < MaxAccidents /\ accidents' = accidents + 1

-----------------------------------------------------------------------------
\* A keyword is searched at one service after the other, twice, while files lack.
SearchFor(task, n) == [task EXCEPT !.at = "search", !.keyword = n, !.source = 1, !.found = 0, !.tried = 0]

\* After the last keyword the keys are recorded, if there are any.
Onward(task) ==
    IF task.tried < task.found THEN [task EXCEPT !.at = "upload"]
    ELSE IF task.keyword > 1 THEN SearchFor(task, task.keyword - 1)
    ELSE [task EXCEPT !.at = IF task.keys = {} THEN "done" ELSE "record"]

Extract(x, keywords) ==
    /\ extraction[x].at = "none"
    /\ extraction' = [extraction EXCEPT ![x] = SearchFor(@, keywords)]
    /\ UNCHANGED <<stored, recorded, deletion, accidents>>

\* fetch_pexels and fetch_pixabay: at most what lacks; an error counts as nothing found.
Fetch(x, n) ==
    LET task == extraction[x]
        found == task.found + n
    IN /\ task.at = "search"
       /\ found <= Quantity
       /\ extraction' = [extraction EXCEPT ![x] =
              IF found < Quantity /\ task.source < 4
              THEN [task EXCEPT !.source = @ + 1, !.found = found]
              ELSE Onward([task EXCEPT !.found = found])]
       /\ UNCHANGED <<stored, recorded, deletion, accidents>>

\* upload_image_to_b2: an error, also of an upload that was stored, is no key.
UploadImage(x) ==
    LET task == [extraction[x] EXCEPT !.tried = @ + 1]
        f == <<x, task.keyword, task.tried>>
    IN /\ task.at = "upload"
       /\ \/ /\ stored' = stored \cup {f}
             /\ extraction' = [extraction EXCEPT ![x] = Onward([task EXCEPT !.keys = @ \cup {f}])]
             /\ UNCHANGED accidents
          \/ /\ extraction' = [extraction EXCEPT ![x] = Onward(task)]
             /\ \/ UNCHANGED <<stored, accidents>>
                \/ Accident /\ stored' = stored \cup {f}
       /\ UNCHANGED <<recorded, deletion>>

\* One transaction; the objects of one that fails are nobody's.
Record(x) ==
    /\ extraction[x].at = "record"
    /\ \/ /\ recorded' = recorded \cup extraction[x].keys
          /\ extraction' = [extraction EXCEPT ![x].at = "done"]
          /\ UNCHANGED accidents
       \/ /\ Accident
          /\ recorded' \in {recorded, recorded \cup extraction[x].keys}
          /\ extraction' = [extraction EXCEPT ![x].at = "failed"]
    /\ UNCHANGED <<stored, deletion>>

-----------------------------------------------------------------------------
\* Only rows of the application count, whatever the URLs of the request name.
SelectOwned(d, urls) ==
    LET owned == urls \cap UrlsOf(OwnerOf[d])
    IN /\ deletion[d].at = "none"
       /\ deletion' = [deletion EXCEPT ![d] = [at |-> IF owned = {} THEN "done" ELSE "objects",
                                               keys |-> owned, left |-> owned, deleted |-> {}]]
       /\ UNCHANGED <<stored, recorded, extraction, accidents>>

\* The next object.  An error keeps the row; the object may be gone all the same.
DeleteObject(d, f) ==
    /\ deletion[d].at = "objects"
    /\ f \in deletion[d].left
    /\ LET rest == [deletion[d] EXCEPT !.left = @ \ {f}]
           After(del) == [del EXCEPT !.at = IF del.left # {} THEN "objects"
                                           ELSE IF del.deleted = {} THEN "done" ELSE "rows"]
       IN \/ /\ stored' = stored \ {f}
             /\ deletion' = [deletion EXCEPT ![d] = After([rest EXCEPT !.deleted = @ \cup {f}])]
             /\ UNCHANGED accidents
          \/ /\ deletion' = [deletion EXCEPT ![d] = After(rest)]
             /\ \/ UNCHANGED <<stored, accidents>>
                \/ Accident /\ stored' = stored \ {f}
    /\ UNCHANGED <<recorded, extraction>>

\* Mutant: the rows of every key that was asked for.
RowsOfAll(d) == recorded \ deletion[d].keys

\* The rows of the objects that were deleted.
RowsLeft(d) == recorded \ deletion[d].deleted

DeleteRows(d) ==
    /\ deletion[d].at = "rows"
    /\ \/ /\ recorded' = RowsLeft(d)
          /\ deletion' = [deletion EXCEPT ![d].at = "done"]
          /\ UNCHANGED accidents
       \/ /\ Accident
          /\ recorded' \in {recorded, RowsLeft(d)}
          /\ deletion' = [deletion EXCEPT ![d].at = "failed"]
    /\ UNCHANGED <<stored, extraction>>

\* The process ends, and with it whatever it was doing.
CrashLibrary ==
    LET Dead(work) == IF work.at \in {"none", "done", "failed"} THEN work ELSE [work EXCEPT !.at = "failed"]
    IN /\ Accident
       /\ extraction' = [x \in Extraction |-> Dead(extraction[x])]
       /\ deletion' = [d \in Deletion |-> Dead(deletion[d])]
       /\ UNCHANGED <<stored, recorded>>

LibraryNext ==
    \/ \E x \in Extraction :
          \/ \E n \in 1..MaxKeywords : Extract(x, n)
          \/ \E n \in 0..Quantity : Fetch(x, n)
          \/ UploadImage(x) \/ Record(x)
    \/ \E d \in Deletion :
          \/ \E urls \in SUBSET Image : SelectOwned(d, urls)
          \/ \E f \in deletion[d].left : DeleteObject(d, f)
          \/ DeleteRows(d)
    \/ CrashLibrary

LibrarySpec == LibraryInit /\ [][LibraryNext]_libraryVars

-----------------------------------------------------------------------------
LibraryTypeOK ==
    /\ stored \subseteq Image /\ recorded \subseteq Image
    /\ extraction \in [Extraction -> [at : {"none", "search", "upload", "record", "done", "failed"},
                                      keyword : 0..MaxKeywords, source : 0..4, found : 0..Quantity,
                                      tried : 0..Quantity, keys : SUBSET Image]]
    /\ deletion \in [Deletion -> [at : {"none", "objects", "rows", "done", "failed"},
                                  keys : SUBSET Image, left : SUBSET Image, deleted : SUBSET Image]]
    /\ accidents \in 0..MaxAccidents

(***************************************************************************)
(* The bucket and the rows agree as far as they can without a common       *)
(* transaction.  A file that was recorded stays within reach of a deletion *)
(* for as long as it is stored.  An URL that leads nowhere is one of a     *)
(* deletion of its own application, and what a deletion says it deleted    *)
(* is gone from both, whatever other requests, failures or crashes did.    *)
(***************************************************************************)
LibraryAgrees ==
    /\ \A x \in Extraction : extraction[x].at = "done" => extraction[x].keys \cap stored \subseteq recorded
    /\ \A f \in recorded \ stored :
          \E d \in Deletion : OwnerOf[d] = OwnerOf[f[1]] /\ f \in deletion[d].keys
    /\ \A d \in Deletion : deletion[d].at = "done" => deletion[d].deleted \cap (stored \cup recorded) = {}
=============================================================================
