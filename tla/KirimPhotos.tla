---------------------------- MODULE KirimPhotos ----------------------------
(***************************************************************************)
(* The small profile photos of a number's conversations and groups         *)
(* (kirim/photos.ts): asked of WhatsApp by the round of each process and   *)
(* the moment a module asks for one that was never fetched, kept as a row  *)
(* that names an encrypted file, each file written before the row and      *)
(* removed after the row that replaces it.  The processes of two releases  *)
(* overlap while one is rolled out.                                        *)
(***************************************************************************)
EXTENDS Naturals

CONSTANTS
    Hub,          \* SQ Hub processes
    Subject,      \* conversations and groups of the number
    Lively,       \* those with activity within 30 days
    Photo,        \* what a photo may look like, by its sha256
    Viewer,       \* requests of modules for a photo
    PerMinute,    \* ON_DEMAND_PER_MINUTE
    MaxFiles      \* bound: files ever written

ASSUME PhotosAssumption ==
    /\ Lively \subseteq Subject /\ {"round", "none"} \cap Subject = {} /\ "none" \notin Photo
    /\ {PerMinute, MaxFiles} \subseteq Nat

VARIABLES
    shows,        \* subject -> the photo WhatsApp shows SQ Hub
    photoRow,     \* subject -> its row of kirim_profile_photos
    files,        \* file -> what the disk has under its id
    written,      \* files written so far: a new one has a new id
    lost,         \* history: files that a failure, or two first fetches, left behind
    fetch,        \* process, and its round or a subject -> the fetch under way
    spent,        \* process -> fetches on demand in its window of a minute
    viewer

photosVars == <<shows, photoRow, files, written, lost, fetch, spent, viewer>>

NoPhoto == "none"
NoFile == [of |-> "none", photo |-> NoPhoto]
NoPhotoRow == [there |-> FALSE, file |-> 0, photo |-> NoPhoto, fresh |-> FALSE]
NoPhotoFetch == [pc |-> "idle", todo |-> {}, subject |-> "none", photo |-> NoPhoto, file |-> 0]
NoViewer == [pc |-> "idle", job |-> <<"none", "none">>, file |-> 0, photo |-> NoPhoto]

\* The one round of a process, and its `inFlight` by subject.
PhotoFetch == Hub \X (Subject \cup {"round"})

PhotosInit ==
    /\ shows \in [Subject -> Photo \cup {NoPhoto}]
    /\ photoRow = [s \in Subject |-> NoPhotoRow]
    /\ files = [f \in 1..MaxFiles |-> NoFile]
    /\ written = 0 /\ lost = {}
    /\ fetch = [j \in PhotoFetch |-> NoPhotoFetch]
    /\ spent = [p \in Hub |-> 0]
    /\ viewer = [v \in Viewer |-> NoViewer]

-----------------------------------------------------------------------------
(* Where a fetch goes on when one of its subjects is done. *)

\* The viewers of a fetch on demand, when it ends.
FreeViewers(j, freed) ==
    viewer' = [v \in Viewer |-> IF viewer[v].pc = "wait" /\ viewer[v].job = j THEN freed[v] ELSE viewer[v]]
LookingAgain == [v \in Viewer |-> [viewer[v] EXCEPT !.pc = "again"]]
SentAway == [v \in Viewer |-> NoViewer]

\* A round takes up its next subject; a fetch on demand has none, and its viewers look again.
Continue(j) ==
    /\ fetch' = [fetch EXCEPT ![j] = [NoPhotoFetch EXCEPT !.pc = IF j[2] = "round" THEN "next" ELSE "idle",
                                                           !.todo = fetch[j].todo]]
    /\ FreeViewers(j, LookingAgain)

\* refreshDevice breaks, fetchNow returns.
EndFetch(j) == fetch' = [fetch EXCEPT ![j] = NoPhotoFetch]

-----------------------------------------------------------------------------
(* runOnce, with refreshDevice of the one number. *)

Due == {s \in Lively : ~photoRow[s].there \/ ~photoRow[s].fresh}

BeginPhotoRound(p) ==
    LET j == <<p, "round">>
    IN /\ fetch[j].pc = "idle" /\ Due # {}
       /\ fetch' = [fetch EXCEPT ![j] = [NoPhotoFetch EXCEPT !.pc = "next", !.todo = Due]]
       /\ UNCHANGED <<shows, photoRow, files, written, lost, spent, viewer>>

NextSubject(j) ==
    /\ fetch[j].pc = "next" /\ j[2] = "round"
    /\ \/ /\ fetch[j].todo = {} /\ EndFetch(j)
       \/ \E s \in fetch[j].todo :
             fetch' = [fetch EXCEPT ![j] = [@ EXCEPT !.pc = "ask", !.subject = s, !.todo = fetch[j].todo \ {s}]]
    /\ UNCHANGED <<shows, photoRow, files, written, lost, spent, viewer>>

\* profilePicture: what WhatsApp shows now, or nothing: none is shown, the engine refuses
\* the address, or what came is no small JPEG.
PhotoAnswer(j) ==
    /\ fetch[j].pc = "ask"
    /\ \E photo \in {shows[fetch[j].subject], NoPhoto} :
          fetch' = [fetch EXCEPT ![j].pc = "compare", ![j].photo = photo]
    /\ UNCHANGED <<shows, photoRow, files, written, lost, spent, viewer>>

\* The engine is down, limits the photos, or the number is not connected: the round ends,
\* and nothing is stored.
PhotoUnavailable(j) ==
    /\ fetch[j].pc = "ask"
    /\ EndFetch(j) /\ FreeViewers(j, LookingAgain)
    /\ UNCHANGED <<shows, photoRow, files, written, lost, spent>>

-----------------------------------------------------------------------------
(* store. *)

SameAsStored(j) ==
    LET row == photoRow[fetch[j].subject] IN row.there /\ row.photo = fetch[j].photo

Compare(j) ==
    /\ fetch[j].pc = "compare"
    /\ fetch' = [fetch EXCEPT ![j].pc = IF SameAsStored(j) THEN "touch"
                                    ELSE IF fetch[j].photo # NoPhoto THEN "write" ELSE "replace"]
    /\ UNCHANGED <<shows, photoRow, files, written, lost, spent, viewer>>

\* The same photo, as far as was read: only its date is new.
Touch(j) ==
    /\ fetch[j].pc = "touch"
    /\ photoRow' = [photoRow EXCEPT ![fetch[j].subject].fresh = TRUE]
    /\ Continue(j)
    /\ UNCHANGED <<shows, files, written, lost, spent>>

\* writeProfilePhoto, under the new id.
WriteFile(j) ==
    /\ fetch[j].pc = "write" /\ written < MaxFiles
    /\ written' = written + 1
    /\ files' = [files EXCEPT ![written + 1] = [of |-> fetch[j].subject, photo |-> fetch[j].photo]]
    /\ fetch' = [fetch EXCEPT ![j].pc = "replace", ![j].file = written + 1]
    /\ UNCHANGED <<shows, photoRow, lost, spent, viewer>>

NewRow(j) == [there |-> TRUE, file |-> fetch[j].file, photo |-> fetch[j].photo, fresh |-> TRUE]
PutRow(j) == photoRow' = [photoRow EXCEPT ![fetch[j].subject] = NewRow(j)]

\* Mutant: the file just written is taken for the one it replaces.
TheNewFile(j) == fetch[j].file

\* The path the row names as the transaction locks it.
Replaced(j) == photoRow[fetch[j].subject].file

\* The transaction: a row that is there is locked by the SELECT, and replaced.
ReplaceRow(j) ==
    /\ fetch[j].pc = "replace" /\ photoRow[fetch[j].subject].there
    /\ PutRow(j)
    /\ IF Replaced(j) = 0 THEN Continue(j)
       ELSE fetch' = [fetch EXCEPT ![j].pc = "remove", ![j].file = Replaced(j)] /\ UNCHANGED viewer
    /\ UNCHANGED <<shows, files, written, lost, spent>>

\* A row that is not there yet locks nothing ...
FindNoRow(j) ==
    /\ fetch[j].pc = "replace" /\ ~photoRow[fetch[j].subject].there
    /\ fetch' = [fetch EXCEPT ![j].pc = "insert"]
    /\ UNCHANGED <<shows, photoRow, files, written, lost, spent, viewer>>

\* ... so what another fetch has inserted since is overwritten, and its file stays.
InsertRow(j) ==
    /\ fetch[j].pc = "insert"
    /\ PutRow(j)
    /\ lost' = lost \cup ({Replaced(j)} \ {0})
    /\ Continue(j)
    /\ UNCHANGED <<shows, files, written, spent>>

\* removeProfilePhoto, after the commit; when it fails, nobody tries again.
RemoveFile(j) ==
    /\ fetch[j].pc = "remove"
    /\ files' = [files EXCEPT ![fetch[j].file] = NoFile]
    /\ Continue(j)
    /\ UNCHANGED <<shows, photoRow, written, lost, spent>>

RemoveFails(j) ==
    /\ fetch[j].pc = "remove"
    /\ lost' = lost \cup {fetch[j].file}
    /\ Continue(j)
    /\ UNCHANGED <<shows, photoRow, files, written, spent>>

\* A step that throws, or a stop of the process: what was written stays, and the viewers
\* of the fetch are told that there is no photo, or an error.
Breaks(j) ==
    /\ fetch[j].pc # "idle"
    /\ lost' = lost \cup ({fetch[j].file} \ {0})
    /\ EndFetch(j) /\ FreeViewers(j, SentAway)
    /\ UNCHANGED <<shows, photoRow, files, written, spent>>

-----------------------------------------------------------------------------
(* read. *)

\* A row leads to its file, or to foto_tidak_ada.
Found(s) ==
    IF photoRow[s].file = 0 THEN NoViewer
    ELSE [NoViewer EXCEPT !.pc = "read", !.job = <<"none", s>>, !.file = photoRow[s].file, !.photo = photoRow[s].photo]

\* The first SELECT, for a conversation or group of the module's own.
AskPhoto(v, p, s) ==
    /\ viewer[v].pc = "idle"
    /\ viewer' = [viewer EXCEPT ![v] = IF photoRow[s].there THEN Found(s)
                                       ELSE [NoViewer EXCEPT !.pc = "demand", !.job = <<p, s>>]]
    /\ UNCHANGED <<shows, photoRow, files, written, lost, fetch, spent>>

\* fetchNow: the fetch that is under way, a new one, or none beyond the limit.
FetchNow(v) ==
    LET j == viewer[v].job
    IN /\ viewer[v].pc = "demand"
       /\ IF fetch[j].pc # "idle" \/ spent[j[1]] < PerMinute
          THEN viewer' = [viewer EXCEPT ![v].pc = "wait"]
          ELSE viewer' = [viewer EXCEPT ![v] = NoViewer]
       /\ IF fetch[j].pc = "idle" /\ spent[j[1]] < PerMinute
          THEN /\ fetch' = [fetch EXCEPT ![j] = [NoPhotoFetch EXCEPT !.pc = "ask", !.subject = j[2]]]
               /\ spent' = [spent EXCEPT ![j[1]] = @ + 1]
          ELSE UNCHANGED <<fetch, spent>>
       /\ UNCHANGED <<shows, photoRow, files, written, lost>>

\* The second SELECT.
LookAgain(v) ==
    /\ viewer[v].pc = "again"
    /\ viewer' = [viewer EXCEPT ![v] = Found(viewer[v].job[2])]
    /\ UNCHANGED <<shows, photoRow, files, written, lost, fetch, spent>>

\* readProfilePhoto: the file, or an error when it has gone since.
ReadFile(v) ==
    /\ viewer[v].pc = "read"
    /\ viewer' = [viewer EXCEPT ![v] = NoViewer]
    /\ UNCHANGED <<shows, photoRow, files, written, lost, fetch, spent>>

-----------------------------------------------------------------------------
(* Meanwhile. *)

ContactChanges(s, photo) ==
    /\ shows' = [shows EXCEPT ![s] = photo]
    /\ UNCHANGED <<photoRow, files, written, lost, fetch, spent, viewer>>

WeekPasses ==
    /\ photoRow' = [s \in Subject |-> [photoRow[s] EXCEPT !.fresh = FALSE]]
    /\ UNCHANGED <<shows, files, written, lost, fetch, spent, viewer>>

MinutePasses(p) ==
    /\ spent' = [spent EXCEPT ![p] = 0]
    /\ UNCHANGED <<shows, photoRow, files, written, lost, fetch, viewer>>

PhotoStep(j) ==
    \/ NextSubject(j) \/ PhotoAnswer(j) \/ PhotoUnavailable(j) \/ Compare(j) \/ Touch(j) \/ WriteFile(j)
    \/ ReplaceRow(j) \/ FindNoRow(j) \/ InsertRow(j) \/ RemoveFile(j) \/ RemoveFails(j) \/ Breaks(j)

ViewerStep(v) ==
    \/ \E p \in Hub, s \in Subject : AskPhoto(v, p, s)
    \/ FetchNow(v) \/ LookAgain(v) \/ ReadFile(v)

PhotosNext ==
    \/ \E p \in Hub : BeginPhotoRound(p) \/ MinutePasses(p)
    \/ \E j \in PhotoFetch : PhotoStep(j)
    \/ \E v \in Viewer : ViewerStep(v)
    \/ \E s \in Subject, photo \in Photo \cup {NoPhoto} : ContactChanges(s, photo)
    \/ WeekPasses

PhotosSpec == PhotosInit /\ [][PhotosNext]_photosVars

-----------------------------------------------------------------------------
(* Properties. *)

PhotoOrNone == Photo \cup {NoPhoto}
File == 0..MaxFiles
PhotoRows == [there : BOOLEAN, file : File, photo : PhotoOrNone, fresh : BOOLEAN]
Contents == {NoFile} \cup [of : Subject, photo : Photo]
PhotoFetches == [pc : {"idle", "next", "ask", "compare", "touch", "write", "replace", "insert", "remove"},
         todo : SUBSET Subject, subject : Subject \cup {"none"}, photo : PhotoOrNone, file : File]
Viewers == [pc : {"idle", "demand", "wait", "again", "read"}, job : (Hub \cup {"none"}) \X (Subject \cup {"none"}),
            file : File, photo : PhotoOrNone]

PhotosTypeOK ==
    /\ shows \in [Subject -> PhotoOrNone] /\ photoRow \in [Subject -> PhotoRows]
    /\ files \in [1..MaxFiles -> Contents] /\ written \in File /\ lost \subseteq 1..MaxFiles
    /\ fetch \in [PhotoFetch -> PhotoFetches] /\ spent \in [Hub -> Nat]
    /\ viewer \in [Viewer -> Viewers]

\* A fetch will put the file into a row, or remove it.
Holds(j, f) == fetch[j].pc \in {"replace", "insert", "remove"} /\ fetch[j].file = f

\* "A replaced or withdrawn profile photo leaves no file behind" and no row without
\* one: a row that says there is a photo names a file with this photo of this contact,
\* whichever fetches of it crossed; every file on the disk is named by a row or in the
\* hands of a fetch, but for one that a failure or two first fetches left; and a module
\* is shown the photo the row had, or an error.
PhotosOnDisk ==
    /\ \A s \in Subject : photoRow[s].file # 0 => files[photoRow[s].file] = [of |-> s, photo |-> photoRow[s].photo]
    /\ \A f \in 1..MaxFiles : files[f] # NoFile =>
          f \in lost \/ (\E s \in Subject : photoRow[s].file = f) \/ (\E j \in PhotoFetch : Holds(j, f))
    /\ \A v \in Viewer : viewer[v].pc = "read" =>
          files[viewer[v].file] \in {NoFile, [of |-> viewer[v].job[2], photo |-> viewer[v].photo]}
=============================================================================
