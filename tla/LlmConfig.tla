----------------------------- MODULE LlmConfig -----------------------------
(***************************************************************************)
(* The configuration file of the language model, ew_llm_configure_mimo and *)
(* ew_llm_restore_config of ew_llm.c: a new setting is written to a         *)
(* temporary file and renamed over the old one, the first setting is kept   *)
(* in a backup that a rollback installs again.  Both run on the UI loop, so *)
(* never at the same time; the power may go between any two steps.  A file  *)
(* keeps what was written to it and flushed, also when it is closed (the    *)
(* code does not look at the result of fclose), and a rename is atomic.     *)
(***************************************************************************)

CONSTANTS
  Settings,  \* the contents that a configuration may have
  Absent,    \* no such file
  Torn       \* a file cut short

ASSUME SettingsAssumption ==
  Absent \notin Settings /\ Torn \notin Settings /\ Absent # Torn

VARIABLES
  config,    \* EW_LLM_CONFIG
  tmp,       \* EW_LLM_CONFIG_TMP
  bak,       \* EW_LLM_CONFIG_BAK
  at,        \* the next step of the operation
  target,    \* the setting being saved
  original   \* history: the first setting the board had

files == <<config, tmp, bak>>
configVars == <<files, at, target, original>>

Contents == Settings \cup {Absent, Torn}

ConfigTypeOK ==
  /\ config \in Contents /\ tmp \in Contents /\ bak \in Contents
  /\ at \in {"idle", "write", "backup", "copy", "restore", "replace"}
  /\ target \in Settings \cup {Absent}
  /\ original \in Settings \cup {Absent}

(* A board may come with a setting. *)
ConfigInit ==
  /\ config \in Settings \cup {Absent}
  /\ tmp = Absent /\ bak = Absent
  /\ at = "idle" /\ target = Absent
  /\ original = config

(* @mimo-set opens the temporary file, empty so far. *)
Configure(s) ==
  /\ at = "idle"
  /\ target' = s
  /\ tmp' = Torn
  /\ at' = "write"
  /\ UNCHANGED <<config, bak, original>>

WriteTmp ==
  /\ at = "write"
  /\ tmp' = target
  /\ at' = "backup"
  /\ UNCHANGED <<config, bak, target, original>>

(* Fault: every save renews the backup. *)
NeedsBackupAlways == config # Absent

(* Only the first replaced setting is kept. *)
NeedsBackup == config # Absent /\ bak = Absent

SkipBackup ==
  /\ at = "backup" /\ ~NeedsBackup
  /\ at' = "replace"
  /\ UNCHANGED <<files, target, original>>

OpenBackup ==
  /\ at = "backup" /\ NeedsBackup
  /\ bak' = Torn
  /\ at' = "copy"
  /\ UNCHANGED <<config, tmp, target, original>>

CopyBackup ==
  /\ at = "copy"
  /\ bak' = config
  /\ at' = "replace"
  /\ UNCHANGED <<config, tmp, target, original>>

(* copy_file removes a copy that it could not finish. *)
CopyFails ==
  /\ at = "copy"
  /\ bak' = Absent /\ tmp' = Absent
  /\ at' = "idle"
  /\ UNCHANGED <<config, target, original>>

Replace ==
  /\ at = "replace"
  /\ config' = tmp /\ tmp' = Absent
  /\ original' = IF original = Absent THEN tmp ELSE original
  /\ at' = "idle"
  /\ UNCHANGED <<bak, target>>

(* @mimo-rollback copies the backup to the temporary file. *)
Restore ==
  /\ at = "idle" /\ bak # Absent
  /\ tmp' = Torn
  /\ at' = "restore"
  /\ UNCHANGED <<config, bak, target, original>>

CopyRestored ==
  /\ at = "restore"
  /\ tmp' = bak
  /\ at' = "replace"
  /\ UNCHANGED <<config, bak, target, original>>

(* A failed write, open of the backup, copy or rename removes the temporary *)
(* file.                                                                    *)
GiveUpSaving ==
  /\ \/ at \in {"write", "restore", "replace"}
     \/ at = "backup" /\ NeedsBackup
  /\ tmp' = Absent
  /\ at' = "idle"
  /\ UNCHANGED <<config, bak, target, original>>

(* The power goes and comes back: the files stay as they are. *)
PowerLoss ==
  /\ at # "idle"
  /\ at' = "idle"
  /\ UNCHANGED <<files, target, original>>

ConfigNext ==
  \/ \E s \in Settings : Configure(s)
  \/ WriteTmp \/ SkipBackup \/ OpenBackup \/ CopyBackup \/ CopyFails
  \/ Restore \/ CopyRestored
  \/ Replace \/ GiveUpSaving \/ PowerLoss

ConfigSpec == ConfigInit /\ [][ConfigNext]_configVars

(* However operations are cut short, the backup that a rollback installs is *)
(* the first setting the board had, unless the power went while that backup *)
(* was being made; and only the rollback to such a torn backup can leave a  *)
(* configuration that is not whole.                                         *)
RollbackRestores ==
  /\ bak \in {Absent, Torn, original}
  /\ config = Torn => bak = Torn
=============================================================================
