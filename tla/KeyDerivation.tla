--------------------------- MODULE KeyDerivation ---------------------------
(***************************************************************************)
(* The administrator's password: the verifier a record keeps of it, and    *)
(* the jobs that derive one in slices (provisioning/kdf_job.py on the      *)
(* portable and the native engine, native_kdf.py, setup_kdf.py), for a     *)
(* login, for a change of the password and for the set-up.                 *)
(*                                                                         *)
(* HMAC-SHA256 is a perfect function: the value of round i under a         *)
(* password and a salt is the number i, and what the job accumulates by    *)
(* exclusive or is the set of the rounds that went into it.  Storage and   *)
(* the browser who waits are in SettingsStore and AdminSite.               *)
(***************************************************************************)
EXTENDS Naturals

CONSTANTS
    Words,          \* passwords
    Salts,          \* what urandom may return
    Rounds,         \* PBKDF2_ITERATIONS, the rounds of "pbkdf2-sha256-v2"
    LegacyRounds,   \* LEGACY_PBKDF2_ITERATIONS, the rounds of "pbkdf2-sha256-v1"
    Budget,         \* KDF_ROUNDS_PER_TICK, the rounds of a slice
    Unset           \* no record; no job; no answer

ASSUME DerivationAssumption ==
    /\ Rounds \in Nat \ {0}
    /\ LegacyRounds \in Nat \ {0}
    /\ Budget \in Nat \ {0}

VARIABLES
    verifier,   \* of the record on flash
    admin,      \* of the record store.load() returns
    kdfJob,     \* _kdf_job or _setup_kdf_job
    verdict     \* observed: how the last job ended

keyVars == <<verifier, admin, kdfJob, verdict>>

\* pbkdf2_hmac_sha256: the digest of a password after n rounds.
Pbkdf2(word, salt, n) == [word |-> word, salt |-> salt, rounds |-> 1 .. n]

\* What a record keeps.  `owner', the password it was made from, is observed.
Record(owner, version, n, salt) ==
    [owner |-> owner, version |-> version, salt |-> salt, digest |-> Pbkdf2(owner, salt, n)]

\* validate_settings_object, of the two versions it admits: the settings it
\* returns carry the current one.
Validated(r) == IF r = Unset THEN Unset ELSE [r EXCEPT !.version = "v2"]

\* _load_admin_verifier
RoundsOf(version) == IF version = "v2" THEN Rounds ELSE LegacyRounds

\* A device before its set-up.
KeyInit == verifier = Unset /\ admin = Unset /\ kdfJob = Unset /\ verdict = Unset

\* A device that was set up by a firmware from before "pbkdf2-sha256-v2".
LegacyInit ==
    /\ \E word \in Words, salt \in Salts : verifier = Record(word, "v1", LegacyRounds, salt)
    /\ admin = Validated(verifier)
    /\ kdfJob = Unset /\ verdict = Unset

-----------------------------------------------------------------------------
(***************************************************************************)
(* A job.                                                                  *)
(***************************************************************************)
NewJob(engine, purpose, word, salt, n) ==
    [engine |-> engine, purpose |-> purpose, word |-> word, salt |-> salt,
     left |-> n,        \* _iterations - _round
     u |-> 0,           \* the round of _u
     out |-> {},        \* _out
     record |-> admin]  \* the record when it was created, of which a login expects the digest

\* The rounds of a slice: the portable engine also stops when its time is up,
\* but not before the first round.
Slices(j) ==
    LET most == IF j.left <= Budget THEN j.left ELSE Budget
    IN IF j.engine = "portable" THEN 1 .. most ELSE {most}

\* Mutant of Sliced: every slice begins with the first HMAC.
SlicedAnew(j, k) ==
    LET slice == 1 .. k
    IN [j EXCEPT !.left = @ - k, !.u = k, !.out = (@ \ slice) \union (slice \ @)]

\* KdfJob._step, Pbkdf2Job.step, SetupKdfJob.step: k more links of the chain.
Sliced(j, k) ==
    LET slice == (j.u + 1) .. (j.u + k)
    IN [j EXCEPT !.left = @ - k, !.u = @ + k, !.out = (@ \ slice) \union (slice \ @)]

Digest(j) == [word |-> j.word, salt |-> j.salt, rounds |-> j.out]

\* _finish, _terminal: whatever the job held is wiped.
Ends(j, result) ==
    /\ kdfJob' = Unset
    /\ verdict' = [purpose |-> j.purpose, typed |-> j.word, record |-> j.record, result |-> result]

\* _start_login_kdf
StartLogin ==
    /\ kdfJob = Unset /\ admin # Unset
    /\ \E word \in Words, engine \in {"portable", "native"} :
           kdfJob' = NewJob(engine, "login", word, admin.salt, RoundsOf(admin.version))
    /\ UNCHANGED <<verifier, admin, verdict>>

\* _start_password_change_kdf
StartChange ==
    /\ kdfJob = Unset /\ admin # Unset
    /\ \E word \in Words, engine \in {"portable", "native"}, salt \in Salts :
           kdfJob' = NewJob(engine, "change", word, salt, Rounds)
    /\ UNCHANGED <<verifier, admin, verdict>>

\* _tick_candidate_join, of a station that has joined.
StartSetup ==
    /\ kdfJob = Unset
    /\ \E word \in Words, salt \in Salts : kdfJob' = NewJob("setup", "setup", word, salt, Rounds)
    /\ UNCHANGED <<verifier, admin, verdict>>

\* A constructor may raise or find no salt, a slice may raise, and a drop of the
\* station or a candidate that fails cancels the job.
Abandon ==
    /\ kdfJob # Unset
    /\ \E result \in {"failed", "cancelled"} : Ends(kdfJob, result)
    /\ UNCHANGED <<verifier, admin>>

\* SettingsStore.commit of a verifier and its salt: a commit that fails may
\* have reached the flash.
Commit(owner, salt, digest) ==
    LET r == [owner |-> owner, version |-> "v2", salt |-> salt, digest |-> digest]
    IN \/ verifier' = r /\ admin' = Validated(r)
       \/ verifier' \in {verifier, r} /\ UNCHANGED admin

\* _complete_compare
CompleteCompare(j) ==
    /\ Ends(j, IF Digest(j) = j.record.digest THEN "ok" ELSE "rejected")
    /\ UNCHANGED <<verifier, admin>>

\* _complete_derive, and what the coordinator does with its result.
CompleteDerive(j) ==
    /\ Ends(j, "derived")
    /\ Commit(j.word, j.salt, Digest(j))

\* KdfJob.step, SetupKdfJob.step: a slice, and the end when it was the last.
Step ==
    /\ kdfJob # Unset
    /\ \E k \in Slices(kdfJob) :
           LET j == Sliced(kdfJob, k)
           IN \/ /\ j.left > 0
                 /\ kdfJob' = j
                 /\ UNCHANGED <<verifier, admin, verdict>>
              \/ j.left = 0 /\ j.purpose = "login" /\ CompleteCompare(j)
              \/ j.left = 0 /\ j.purpose # "login" /\ CompleteDerive(j)

-----------------------------------------------------------------------------
\* Any other commit copies the verifier of the settings it has loaded.
CommitOther ==
    /\ admin # Unset
    /\ Commit(admin.owner, admin.salt, admin.digest)
    /\ UNCHANGED <<kdfJob, verdict>>

\* Power fails, or the device is reset: the record is loaded again.
Restart ==
    /\ admin' = Validated(verifier)
    /\ kdfJob' = Unset
    /\ UNCHANGED <<verifier, verdict>>

KeyNext ==
    \/ StartLogin \/ StartChange \/ StartSetup
    \/ Step \/ Abandon
    \/ CommitOther \/ Restart

KeySpec == KeyInit /\ [][KeyNext]_keyVars
LegacySpec == LegacyInit /\ [][KeyNext]_keyVars

-----------------------------------------------------------------------------
\* A record's digest is that of its password after the rounds its version names,
\* whichever engine made it, however its rounds were cut in slices, and whatever
\* failed between.
Faithful(r) == r # Unset => r.digest = Pbkdf2(r.owner, r.salt, RoundsOf(r.version))

\* A login is accepted exactly when the password that was typed is the one of the
\* record, however the derivation was cut into slices and on whichever engine it
\* ran or the record was made, and every record is faithful.
VerifierHolds ==
    /\ Faithful(verifier) /\ Faithful(admin)
    /\ verdict # Unset /\ verdict.result \in {"ok", "rejected"} =>
           (verdict.result = "ok" <=> verdict.typed = verdict.record.owner)

\* The password a record was made from is never rejected, also when an earlier
\* firmware made it (coordinator.py:862 keeps its number of rounds for that).
LegacyVerifies ==
    verdict # Unset /\ verdict.result = "rejected" => verdict.typed # verdict.record.owner
=============================================================================
