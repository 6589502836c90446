------------------------------- MODULE Accounts -------------------------------
(***************************************************************************)
(* UsersService, and of AuthService what makes users: the table user and   *)
(* the photos in S3.  A row is never deleted.  Names, languages and        *)
(* passwords are left out, and with them what only reads the row (login,   *)
(* whoAmI and a sign-in to an account that exists).                        *)
(***************************************************************************)
CONSTANTS Emails,   \* addresses
          NoEmail,  \* of a key not drawn yet
          UserIds,  \* keys ever drawn
          Formats,  \* file name extensions of uploaded photos
          Visits,   \* requests the server may be serving at one time
          MaxLost   \* bound on the failures in a run

LOCAL INSTANCE Naturals

ASSUME FormatAssumption == Formats \cap {"none", "google"} = {}
ASSUME LossAssumption == MaxLost \in Nat

VARIABLES email,  \* user.email, by key
          photo,  \* user.avatarUrl, by key
          stored, \* avatars in S3: avatars/<key><extension>
          visit,  \* the requests in flight
          lost    \* how many failed

accountVars == <<email, photo, stored, visit, lost>>

Photos == {"none", "google"} \union Formats

\* Locals: the address to insert, or the user found and the photo to save.
Idling == [at |-> "idle"]
Inserting == [at : {"insert"}, email : Emails, photo : {"none", "google"}]
Uploading == [at : {"put"}, id : UserIds, photo : Formats]
Saving == [at : {"save"}, id : UserIds, photo : Photos]

Turn(r, v) == visit' = [visit EXCEPT ![r] = v]
Open(r, v) == visit[r] = Idling /\ Turn(r, v)

\* findOneByEmail finds somebody.
Known(e) == \E i \in UserIds : email[i] = e

\* Fault: a column that is not unique.
NeverDuplicate(e) == FALSE

\* The unique column refuses a second row.
Duplicate(e) == Known(e)

\* registerUser, and findOrCreateGoogleUser from GoogleStrategy: create in the
\* await after the one that finds nobody.
Register(r, e) ==
  /\ ~Known(e)
  /\ \E p \in {"none", "google"} : Open(r, [at |-> "insert", email |-> e, photo |-> p])
  /\ UNCHANGED <<email, photo, stored, lost>>

Create(r) ==
  /\ visit[r].at = "insert"
  /\ IF Duplicate(visit[r].email)
       THEN UNCHANGED <<email, photo>>
       ELSE \E i \in UserIds :
              /\ email[i] = NoEmail
              /\ email' = [email EXCEPT ![i] = visit[r].email]
              /\ photo' = [photo EXCEPT ![i] = visit[r].photo]
  /\ Turn(r, Idling)
  /\ UNCHANGED <<stored, lost>>

\* updateProfile saves the row it found, photo and all.
UpdateProfile(r, i) ==
  /\ email[i] # NoEmail
  /\ Open(r, [at |-> "save", id |-> i, photo |-> photo[i]])
  /\ UNCHANGED <<email, photo, stored, lost>>

\* Fault: the upload is not awaited, and does not arrive.
UploadUnawaited(r, i, f) ==
  /\ email[i] # NoEmail
  /\ Open(r, [at |-> "save", id |-> i, photo |-> f])
  /\ UNCHANGED <<email, photo, stored, lost>>

\* uploadAvatar finds the user, stores the file and saves the row with its address.
UploadAvatar(r, i, f) ==
  /\ email[i] # NoEmail
  /\ Open(r, [at |-> "put", id |-> i, photo |-> f])
  /\ UNCHANGED <<email, photo, stored, lost>>

AvatarPut(r) ==
  /\ visit[r].at = "put"
  /\ stored' = stored \union {<<visit[r].id, visit[r].photo>>}
  /\ Turn(r, [visit[r] EXCEPT !.at = "save"])
  /\ UNCHANGED <<email, photo, lost>>

UserSave(r) ==
  /\ visit[r].at = "save"
  /\ photo' = [photo EXCEPT ![visit[r].id] = visit[r].photo]
  /\ Turn(r, Idling)
  /\ UNCHANGED <<email, stored, lost>>

VisitFails(r) ==
  /\ lost < MaxLost
  /\ visit[r] # Idling
  /\ Turn(r, Idling)
  /\ lost' = lost + 1
  /\ UNCHANGED <<email, photo, stored>>

AccountInit ==
  /\ email = [i \in UserIds |-> NoEmail]
  /\ photo = [i \in UserIds |-> "none"]
  /\ stored = {}
  /\ visit = [r \in Visits |-> Idling]
  /\ lost = 0

AccountNext ==
  \E r \in Visits :
    \/ \E e \in Emails : Register(r, e)
    \/ \E i \in UserIds : UpdateProfile(r, i) \/ \E f \in Formats : UploadAvatar(r, i, f)
    \/ Create(r) \/ AvatarPut(r) \/ UserSave(r) \/ VisitFails(r)

-----------------------------------------------------------------------------

\* The stores and requests hold values of their types.
AccountTypeOK ==
  /\ email \in [UserIds -> Emails \union {NoEmail}]
  /\ photo \in [UserIds -> Photos]
  /\ stored \subseteq UserIds \X Formats
  /\ visit \in [Visits -> {Idling} \union Inserting \union Uploading \union Saving]
  /\ lost \in Nat

\* However registrations and sign-ins with Google interleave, no address leads to
\* two users: a token names its user by the address, which JwtStrategy looks up.
OneUserPerAddress ==
  \A i, j \in UserIds : email[i] = email[j] /\ email[i] # NoEmail => i = j

\* However profile updates and uploads interleave and fail, the photo that a user's
\* row names has been stored, also when a stale row is saved over a newer one.
PhotosStored ==
  \A i \in UserIds : photo[i] \in Formats => <<i, photo[i]>> \in stored
=============================================================================
