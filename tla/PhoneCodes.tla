----------------------------- MODULE PhoneCodes -----------------------------
(* One-time codes sent to a phone: OtpService, behind POST auth/otp/send and   *)
(* auth/otp/verify.  One phone; the record lives under one Redis key that is   *)
(* read, changed in memory and written back.                                 *)
EXTENDS Naturals, FiniteSets

CONSTANTS
  Verifiers,      \* callers of verify, one request at a time each
  MAX_ATTEMPTS,
  MaxSent         \* bound on the codes sent

ASSUME PhoneCodesAssumption == MAX_ATTEMPTS \in Nat \ {0} /\ MaxSent \in Nat

VARIABLES
  sent,      \* how many codes were sent; a code is its number
  otp,       \* the record, or NoRecord: [code, attempts, verified]
  guesses,   \* [1..MaxSent -> how many guesses were compared with the code]
  guess      \* what each verifier has read

phoneCodesVars == <<sent, otp, guesses, guess>>

NoRecord == [code |-> 0, attempts |-> 0, verified |-> FALSE]
Record == [code : 0..MaxSent, attempts : Nat, verified : BOOLEAN]
Guess == [at : {"idle"}]
           \cup [at : {"deletes", "counts", "compares", "verifies"}, record : Record]

PhoneCodesInit ==
  /\ sent = 0
  /\ otp = NoRecord
  /\ guesses = [c \in 1..MaxSent |-> 0]
  /\ guess = [v \in Verifiers |-> [at |-> "idle"]]

Turns(v, r) == guess' = [guess EXCEPT ![v] = r]

SendsOtp ==
  /\ sent < MaxSent
  /\ sent' = sent + 1
  /\ otp' = [code |-> sent + 1, attempts |-> 0, verified |-> FALSE]
  /\ UNCHANGED <<guesses, guess>>

(* OTP_TTL runs out; every write starts it again.                            *)
OtpLapses ==
  /\ otp # NoRecord
  /\ otp' = NoRecord
  /\ UNCHANGED <<sent, guesses, guess>>

(* A record that is missing or used up is refused without a write.            *)
ReadsOtp(v) ==
  /\ guess[v].at = "idle" /\ otp # NoRecord /\ ~otp.verified
  /\ Turns(v, [at |-> IF otp.attempts >= MAX_ATTEMPTS THEN "deletes" ELSE "counts",
               record |-> otp])
  /\ UNCHANGED <<sent, otp, guesses>>

DeletesOtp(v) ==
  /\ guess[v].at = "deletes"
  /\ otp' = NoRecord
  /\ Turns(v, [at |-> "idle"])
  /\ UNCHANGED <<sent, guesses>>

(* Mutant: the counter is left to the answer, and only compared. *)
Counted_Not(record) == record

Counted(record) == [record EXCEPT !.attempts = @ + 1]

CountsGuess(v) ==
  LET record == Counted(guess[v].record) IN
  /\ guess[v].at = "counts"
  /\ otp' = record
  /\ Turns(v, [at |-> "compares", record |-> record])
  /\ UNCHANGED <<sent, guesses>>

(* Right: the record is written once more, as verified.  Wrong: refused.      *)
Compares(v) ==
  LET record == guess[v].record IN
  /\ guess[v].at = "compares"
  /\ guesses' = [guesses EXCEPT ![record.code] = @ + 1]
  /\ \/ Turns(v, [at |-> "verifies", record |-> [record EXCEPT !.verified = TRUE]])
     \/ Turns(v, [at |-> "idle"])
  /\ UNCHANGED <<sent, otp>>

MarksVerified(v) ==
  /\ guess[v].at = "verifies"
  /\ otp' = guess[v].record
  /\ Turns(v, [at |-> "idle"])
  /\ UNCHANGED <<sent, guesses>>

VerifierDies(v) ==
  /\ guess[v].at # "idle"
  /\ Turns(v, [at |-> "idle"])
  /\ UNCHANGED <<sent, otp, guesses>>

VerifierStep(v) ==
  \/ ReadsOtp(v) \/ DeletesOtp(v) \/ CountsGuess(v)
  \/ Compares(v) \/ MarksVerified(v) \/ VerifierDies(v)

PhoneCodesNext == SendsOtp \/ OtpLapses \/ \E v \in Verifiers : VerifierStep(v)

PhoneCodesSpec == PhoneCodesInit /\ [][PhoneCodesNext]_phoneCodesVars

----------------------------------------------------------------------------
PhoneCodesTypeOK ==
  /\ sent \in 0..MaxSent /\ otp \in Record
  /\ guesses \in [1..MaxSent -> Nat]
  /\ guess \in [Verifiers -> Guess]

(* MAX_ATTEMPTS guesses per code for one caller.  A second one who overlaps    *)
(* can write an older count back, and the bound becomes quadratic; it stays a  *)
(* bound, and so far below the 9000 codes.                                   *)
PhoneGuessesBounded ==
  LET M == MAX_ATTEMPTS IN
  \A c \in 1..MaxSent :
    guesses[c] <= IF Cardinality(Verifiers) = 1 THEN M ELSE (M * (M + 3)) \div 2

=============================================================================
