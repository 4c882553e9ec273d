-------------------------- MODULE CredentialsProofs ---------------------------
(***************************************************************************)
(* The safety properties of Credentials for every set of passphrases and   *)
(* any number of edits.                                                    *)
(*                                                                         *)
(* That one file always holds the newest credentials is not inductive: a   *)
(* command that finishes or is killed must find its source as it was when  *)
(* it emptied its destination.  InProgress says what the destination is    *)
(* meanwhile, so that it cannot be the file that holds them; TornText adds *)
(* the texts inside the encrypted file, which decryption brings back.      *)
(***************************************************************************)
EXTENDS Credentials, TLAPS

InProgress == /\ cmd.op = "decrypt" => raw = Empty
              /\ cmd.op = "encrypt" => enc.is = "torn"

TornText == enc.text.is \in {"partial", "broken"} => killed

Inv == /\ TypeOK
       /\ InProgress
       /\ LostOnlyIfForced
       /\ TornOnlyByKilling
       /\ TornText

USE CredentialsAssumption

(* The constant texts, ciphers and commands are of their types.            *)
LEMMA ConstantTypes ==
  /\ Missing \in Texts
  /\ Empty \in Texts
  /\ \A n \in 0..MaxEdits : Whole(n) \in Texts
  /\ \A is \in {"partial", "broken"}, n \in 0..MaxEdits : Text(is, n) \in Texts
  /\ \A k \in Keys : NoCipher(k) \in Ciphers
  /\ NoCommand \in Commands
<1>1. 0 \in 0..MaxEdits
  OBVIOUS
<1>2. (CHOOSE k \in Keys : TRUE) \in Keys
  OBVIOUS
<1>3. \A is \in {"missing", "empty", "partial", "broken", "whole"},
        n \in 0..MaxEdits : Text(is, n) \in Texts
  BY DEF Text, Texts
<1>4. Missing \in Texts /\ Empty \in Texts
  BY <1>1, <1>3 DEF Missing, Empty
<1>5. \A n \in 0..MaxEdits : Whole(n) \in Texts
  BY <1>3 DEF Whole
<1>6. \A is \in {"partial", "broken"}, n \in 0..MaxEdits : Text(is, n) \in Texts
  BY <1>3
<1>7. \A k \in Keys : NoCipher(k) \in Ciphers
  <2> SUFFICES ASSUME NEW k \in Keys PROVE NoCipher(k) \in Ciphers
    OBVIOUS
  <2> QED BY <1>4 DEF NoCipher, Ciphers
<1>8. NoCommand \in Commands
  BY <1>2 DEF NoCommand, Commands
<1> QED BY <1>4, <1>5, <1>6, <1>7, <1>8

(* A fresh checkout, or a new configuration, satisfies Inv.                *)
LEMMA InitInv == Init => Inv
<1> SUFFICES ASSUME Init PROVE Inv
  OBVIOUS
<1>1. TypeOK
  <2>1. 0 \in 0..MaxEdits
    OBVIOUS
  <2>2. raw \in Texts /\ loaded \in Texts /\ cmd \in Commands
    BY <2>1, ConstantTypes DEF Init
  <2>3. Whole(0) \in Texts
    BY <2>1, ConstantTypes
  <2>4. enc \in Ciphers
    BY <2>3, ConstantTypes DEF Init, Ciphers
  <2> QED BY <2>1, <2>2, <2>4 DEF Init, TypeOK
<1>2. cmd.op = "none"
  BY DEF Init, NoCommand
<1>3. raw = Missing \/ raw = Whole(0)
  BY DEF Init
<1>4. enc.text.is \in {"missing", "whole"}
  BY DEF Init, NoCipher, Missing, Whole, Text
<1>5. LostOnlyIfForced
  BY DEF Init, LostOnlyIfForced, RawHolds, EncHolds
<1>6. TornOnlyByKilling
  BY <1>3 DEF Init, TornOnlyByKilling, Missing, Whole, Text
<1>7. InProgress /\ TornText
  BY <1>2, <1>4 DEF InProgress, TornText
<1> QED
  BY <1>1, <1>5, <1>6, <1>7 DEF Inv

(* Each step of a command, of the owner or of the gateway keeps Inv.       *)
LEMMA StepInv == Inv /\ [Next]_vars => Inv'
<1> SUFFICES ASSUME Inv, [Next]_vars PROVE Inv'
  OBVIOUS
<1> USE ConstantTypes DEF Inv
<1>1. ASSUME NEW k \in Keys, NEW override \in BOOLEAN,
             StartDecrypt(k, override)
      PROVE  Inv'
  <2> USE <1>1 DEF StartDecrypt, CanRun
  <2>1. TypeOK'
    BY DEF TypeOK, Commands, Replace
  <2>2. InProgress'
    BY DEF InProgress
  <2>3. LostOnlyIfForced'
    <3>1. RawHolds => override
      BY DEF MayReplace, RawHolds, Whole, Text
    <3>2. EncHolds => EncHolds'
      BY DEF EncHolds
    <3> QED BY <3>1, <3>2, Zenon DEF LostOnlyIfForced, Replace
  <2>4. TornOnlyByKilling'
    BY DEF TornOnlyByKilling, Empty, Text
  <2>5. TornText'
    BY DEF TornText
  <2> QED BY <2>1, <2>2, <2>3, <2>4, <2>5
<1>2. ASSUME NEW k \in Keys, NEW override \in BOOLEAN,
             StartEncrypt(k, override)
      PROVE  Inv'
  <2> USE <1>2 DEF StartEncrypt, CanRun
  <2>1. TypeOK'
    BY DEF TypeOK, Ciphers, Commands, Replace
  <2>2. InProgress'
    BY DEF InProgress, TypeOK, Ciphers
  <2>3. LostOnlyIfForced'
    <3>1. EncHolds => override
      BY DEF MayReplace, EncHolds
    <3>2. RawHolds => RawHolds'
      BY DEF RawHolds
    <3> QED BY <3>1, <3>2, Zenon DEF LostOnlyIfForced, Replace
  <2>4. TornOnlyByKilling'
    BY DEF TornOnlyByKilling
  <2>5. TornText'
    BY DEF TornText, TypeOK, Ciphers
  <2> QED BY <2>1, <2>2, <2>3, <2>4, <2>5
<1>3. CASE FinishDecrypt
  <2> USE <1>3 DEF FinishDecrypt, EndCommand, Readable
  <2>1. TypeOK'
    BY DEF TypeOK, Ciphers
  <2>2. InProgress'
    BY DEF InProgress, NoCommand
  <2>3. LostOnlyIfForced'
    BY DEF LostOnlyIfForced, RawHolds, EncHolds, InProgress, Empty, Whole, Text
  <2>4. TornOnlyByKilling'
    BY DEF TornOnlyByKilling, TornText
  <2> QED BY <2>1, <2>2, <2>3, <2>4 DEF TornText
<1>4. CASE DecryptFails
  BY <1>4 DEF DecryptFails, EndCommand, TypeOK, InProgress, NoCommand,
     LostOnlyIfForced, RawHolds, EncHolds, TornOnlyByKilling,
     TornText
<1>5. CASE FinishEncrypt
  <2> USE <1>5 DEF FinishEncrypt, EndCommand
  <2>1. TypeOK'
    BY DEF TypeOK, Ciphers, Commands
  <2>2. InProgress'
    BY DEF InProgress, NoCommand
  <2>3. LostOnlyIfForced'
    BY DEF LostOnlyIfForced, RawHolds, EncHolds, InProgress
  <2>4. TornOnlyByKilling' /\ TornText'
    BY DEF TornOnlyByKilling, TornText
  <2> QED BY <2>1, <2>2, <2>3, <2>4
<1>6. CASE Kill
  <2> USE <1>6 DEF Kill, EndCommand
  <2>1. TypeOK'
    BY DEF TypeOK, Ciphers, Texts, Text
  <2>2. InProgress'
    BY DEF InProgress, NoCommand
  <2>3. LostOnlyIfForced'
    BY DEF LostOnlyIfForced, RawHolds, EncHolds, InProgress, Empty, Whole, Text
  <2> QED BY <2>1, <2>2, <2>3 DEF TornOnlyByKilling, TornText
<1>7. CASE Edit
  <2> USE <1>7 DEF Edit
  <2>1. newest' \in 0..MaxEdits
    BY DEF TypeOK
  <2>2. TypeOK'
    BY <2>1 DEF TypeOK
  <2>3. InProgress'
    BY DEF InProgress, NoCommand
  <2>4. LostOnlyIfForced'
    BY DEF LostOnlyIfForced, RawHolds
  <2>5. TornOnlyByKilling'
    BY DEF TornOnlyByKilling, Whole, Text
  <2> QED BY <2>2, <2>3, <2>4, <2>5 DEF TornText
<1>8. CASE Delete
  <2> USE <1>8 DEF Delete
  <2>1. TypeOK'
    BY DEF TypeOK, Replace
  <2>2. InProgress'
    BY DEF InProgress, NoCommand
  <2>3. LostOnlyIfForced'
    BY DEF LostOnlyIfForced, RawHolds, EncHolds, Replace
  <2>4. TornOnlyByKilling'
    BY DEF TornOnlyByKilling, Missing, Text
  <2> QED BY <2>1, <2>2, <2>3, <2>4 DEF TornText
<1>9. CASE Load
  BY <1>9 DEF Load, files, history, TypeOK, InProgress, LostOnlyIfForced,
     RawHolds, EncHolds, TornOnlyByKilling, TornText
<1>10. CASE UNCHANGED vars
  BY <1>10 DEF vars, files, history, TypeOK, InProgress, LostOnlyIfForced,
     RawHolds, EncHolds, TornOnlyByKilling, TornText
<1> QED
  BY <1>1, <1>2, <1>3, <1>4, <1>5, <1>6, <1>7, <1>8, <1>9, <1>10
     DEF Next, Command

(* Hence Inv holds in every state of every behaviour.                      *)
LEMMA Invariance == Spec => []Inv
<1> QED BY InitInv, StepInv, PTL DEF Spec

(* Files and commands are of their types.                                  *)
THEOREM TypeCorrect == Spec => []TypeOK
<1>1. Inv => TypeOK
  BY DEF Inv
<1> QED BY <1>1, Invariance, PTL

(* Failed and killed commands lose no credentials: without --override no   *)
(* command replaces the one file that holds them.                          *)
THEOREM NothingLostByFailing == Spec => []LostOnlyIfForced
<1>1. Inv => LostOnlyIfForced
  BY DEF Inv
<1> QED BY <1>1, Invariance, PTL

(* A half written file is the work of a command that was killed.           *)
THEOREM OnlyKillingTears == Spec => []TornOnlyByKilling
<1>1. Inv => TornOnlyByKilling
  BY DEF Inv
<1> QED BY <1>1, Invariance, PTL
=============================================================================
