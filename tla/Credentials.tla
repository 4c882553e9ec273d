------------------------------ MODULE Credentials -----------------------------
(***************************************************************************)
(* The credentials of one configuration live in two files beside each      *)
(* other: <config>.cfg, which the application reads when it starts and     *)
(* which is kept out of the repository, and <config>.cfg.aes, its          *)
(* encrypted form.  The commands `credentials decrypt` and `credentials    *)
(* encrypt` make one from the other: they open, and so empty, their        *)
(* destination before they know that they can fill it, and may fail or be  *)
(* killed in between.  One command runs at a time, and whoever runs it     *)
(* does not edit meanwhile; the gateway may start at any moment.           *)
(***************************************************************************)
EXTENDS Naturals

CONSTANTS Keys,      \* passphrases that people type
          MaxEdits   \* bound: changes of the credentials by their owner

ASSUME CredentialsAssumption == Keys # {} /\ MaxEdits \in Nat

VARIABLES
  raw,      \* <config>.cfg: what it is and which version it holds
  enc,      \* <config>.cfg.aes: is it whole, the text and the passphrase
  cmd,      \* the command that is between its two steps
  loaded,   \* the credentials the gateway started with
  newest,   \* history: the last version its owner wrote
  forced,   \* history: its only copy fell to --override, or to its owner
  killed    \* history: a command was killed while it wrote

files == <<raw, enc, cmd>>
history == <<newest, forced, killed>>
vars == <<files, loaded, history>>

(* "broken" is a file that configparser rejects, "partial" one that it     *)
(* takes, with settings missing.                                           *)
Texts == [is : {"missing", "empty", "partial", "broken", "whole"},
          ver : 0..MaxEdits]
Text(is, n) == [is |-> is, ver |-> n]
Missing == Text("missing", 0)
Empty == Text("empty", 0)
Whole(n) == Text("whole", n)

Ciphers == [is : {"missing", "torn", "whole"}, text : Texts, key : Keys]
NoCommand == [op |-> "none", key |-> CHOOSE k \in Keys : TRUE]
Commands == [op : {"none", "decrypt", "encrypt"}, key : Keys]

NoCipher(k) == [is |-> "missing", text |-> Missing, key |-> k]

(* A checkout of the repository, or a new configuration. *)
Init == /\ \/ /\ raw = Missing
              /\ enc \in [is : {"whole"}, text : {Whole(0)}, key : Keys]
           \/ /\ raw = Whole(0)
              /\ enc \in {NoCipher(k) : k \in Keys}
        /\ cmd = NoCommand
        /\ loaded = Missing
        /\ newest = 0
        /\ forced = FALSE /\ killed = FALSE

RawHolds == raw = Whole(newest)
EncHolds == enc.is = "whole" /\ enc.text = Whole(newest)

Replace(only, override) == forced' = (forced \/ (only /\ override))

-----------------------------------------------------------------------------
(* The commands *)

(* Command.__init__ builds the application, whose load_config raises on a  *)
(* file that configparser rejects.                                         *)
CanRun == cmd = NoCommand /\ raw.is # "broken"

MutantMayReplace(f, override) == TRUE
MayReplace(f, override) == f.is = "missing" \/ override

StartDecrypt(k, override) ==
  /\ CanRun
  /\ enc.is # "missing"
  /\ MayReplace(raw, override)
  /\ cmd' = [op |-> "decrypt", key |-> k]
  /\ raw' = Empty
  /\ Replace(RawHolds /\ ~EncHolds, override)
  /\ UNCHANGED <<enc, loaded, newest, killed>>

StartEncrypt(k, override) ==
  /\ CanRun
  /\ raw.is # "missing"
  /\ MayReplace(enc, override)
  /\ cmd' = [op |-> "encrypt", key |-> k]
  /\ enc' = [enc EXCEPT !.is = "torn"]
  /\ Replace(EncHolds /\ ~RawHolds, override)
  /\ UNCHANGED <<raw, loaded, newest, killed>>

Readable == enc.is = "whole" /\ enc.key = cmd.key

EndCommand == cmd' = NoCommand /\ UNCHANGED <<loaded, newest, forced>>

FinishDecrypt ==
  /\ cmd.op = "decrypt" /\ Readable
  /\ raw' = enc.text
  /\ EndCommand /\ UNCHANGED <<enc, killed>>

(* simplecrypt raises on another passphrase and on a damaged file.         *)
MutantDecryptFails ==
  /\ cmd.op = "decrypt" /\ ~Readable
  /\ raw' = Text("broken", 0)
  /\ EndCommand /\ UNCHANGED <<enc, killed>>
DecryptFails ==
  /\ cmd.op = "decrypt" /\ ~Readable
  /\ EndCommand /\ UNCHANGED <<raw, enc, killed>>

FinishEncrypt ==
  /\ cmd.op = "encrypt"
  /\ enc' = [is |-> "whole", text |-> raw, key |-> cmd.key]
  /\ EndCommand /\ UNCHANGED <<raw, killed>>

(* Killed, or out of disk space, before or while the file is written.      *)
Kill ==
  /\ cmd.op # "none"
  /\ killed' = TRUE
  /\ \/ UNCHANGED raw
     \/ /\ cmd.op = "decrypt" /\ Readable
        /\ \E is \in {"partial", "broken"} : raw' = Text(is, enc.text.ver)
  /\ EndCommand /\ UNCHANGED enc

-----------------------------------------------------------------------------
(* The owner of the credentials, and the gateway *)

Edit ==
  /\ cmd = NoCommand /\ raw.is = "whole" /\ newest < MaxEdits
  /\ newest' = newest + 1
  /\ raw' = Whole(newest')
  /\ forced' = FALSE
  /\ UNCHANGED <<enc, cmd, loaded, killed>>

Delete ==
  /\ cmd = NoCommand /\ raw.is # "missing"
  /\ raw' = Missing
  /\ Replace(RawHolds /\ ~EncHolds, TRUE)
  /\ UNCHANGED <<enc, cmd, loaded, newest, killed>>

(* load_config: without the file, and with an empty one, the gateway runs  *)
(* without credentials.                                                    *)
Load ==
  /\ raw.is # "broken"
  /\ loaded' = raw
  /\ UNCHANGED <<files, history>>

Command == \/ \E k \in Keys, override \in BOOLEAN :
                StartDecrypt(k, override) \/ StartEncrypt(k, override)
           \/ FinishDecrypt \/ DecryptFails \/ FinishEncrypt \/ Kill

Next == Command \/ Edit \/ Delete \/ Load
Spec == Init /\ [][Next]_vars

-----------------------------------------------------------------------------
(* Properties *)

TypeOK == /\ raw \in Texts /\ enc \in Ciphers /\ cmd \in Commands
          /\ loaded \in Texts /\ newest \in 0..MaxEdits
          /\ forced \in BOOLEAN /\ killed \in BOOLEAN

(* The newest credentials are readable in one of the files, though every   *)
(* command empties its destination first and may fail or be killed, until  *)
(* their owner deletes the only copy or has it replaced by --override.     *)
LostOnlyIfForced == forced \/ RawHolds \/ EncHolds

(* A wrong passphrase leaves an empty file at worst.  Only a command that  *)
(* was killed leaves one that starts the gateway with half its             *)
(* credentials, or that keeps it, and every command, from starting.        *)
TornOnlyByKilling ==
  raw.is \in {"partial", "broken"} \/ loaded.is = "partial" => killed
=============================================================================
