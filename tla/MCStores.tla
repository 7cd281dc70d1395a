------------------------------ MODULE MCStores -------------------------------
(* Small instances for TLC of what each service keeps: the runtime settings, the error log, *)
(* the tables of the proxy and its cache of models.  They share nothing, so that a          *)
(* behaviour is of one of them, which part names; the others rest in an initial state.      *)
EXTENDS RuntimeSettings, ErrorLog, MysqlStorage, ModelsCache, TLC

VARIABLE part

storesVars == <<part, settingsVars, logVars, mysqlVars, cacheVars>>

NormalOf   == [v \in Values |-> CASE v = "cut" -> "short" [] OTHER -> v]
DefaultsOf == [k \in Fields |-> "short"]

StoresInit ==
  /\ part \in {"settings", "log", "accounts", "pool", "cache"}
  /\ SettingsInit /\ (part # "settings" => service = "login")
  /\ LogInit /\ (part # "log" => ~shared)
  /\ MysqlInit
  /\ CacheInit

\* Bounds of these instances: a wrong value is written in a card only before the first save,
\* and the last record of the log, with which files are dropped, is made at the first time.
FewErrors == row'.version > 1 => \A c \in Cards : "bad" \notin {card'[c].draft[k] : k \in Fields}
FewRecords == used'.records = MaxRecords => used'.extras <= 1 /\ time' = 1

StoresNext ==
  /\ UNCHANGED part
  /\ \/ part = "settings" /\ SettingsNext /\ FewErrors /\ UNCHANGED <<logVars, mysqlVars, cacheVars>>
     \/ part = "log" /\ LogNext /\ FewRecords /\ UNCHANGED <<settingsVars, mysqlVars, cacheVars>>
     \/ part = "accounts" /\ AccountsNext /\ UNCHANGED <<settingsVars, logVars, cacheVars>>
     \/ part = "pool" /\ PoolNext /\ UNCHANGED <<settingsVars, logVars, cacheVars>>
     \/ part = "cache" /\ CacheNext /\ UNCHANGED <<settingsVars, logVars, mysqlVars>>

StoresSpec == StoresInit /\ [][StoresNext]_storesVars

\* The state of each of the stores is of its type, whatever is stored, moved or pruned.
StoresTypeOK == SettingsTypeOK /\ LogTypeOK /\ MysqlTypeOK /\ CacheTypeOK

\* Cards, clients and readers are the same two values: no behaviour is of more than one.
Interchangeable == Permutations(Clients)
=============================================================================
