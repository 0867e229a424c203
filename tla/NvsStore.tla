------------------------------- MODULE NvsStore -------------------------------
(***************************************************************************)
(* storage::hw::NvsStore.  A string is stored as two entries, its size in  *)
(* eight bits and its text; the device may restart, or a write fail,       *)
(* between the two.  NVS writes to the flash at once, so that save changes *)
(* nothing.  A string stands for all those of its length.                  *)
(***************************************************************************)
EXTENDS Naturals

CONSTANTS Keys,           \* the keys of strings
          ItemKeys,       \* the keys of single bytes
          StringLengths,  \* the lengths of the strings stored
          NONE, FAIL      \* no entry, and the result of a read that finds none

ASSUME NvsAssumption ==
    /\ StringLengths \subseteq Nat
    /\ NONE \notin Nat
    /\ FAIL \notin Nat \cup {NONE}

VARIABLES isNvsInitialized,  \* isNvsInitialized_
          nvsUp,             \* NVS itself is initialised
          sizes,             \* the entries with sizes
          texts,             \* the entries with texts
          items,             \* the entries of one byte
          storing,           \* the key and string of a setString between its entries
          possible           \* what each key may be read as: the string that was stored
                             \* last, or NONE, and those whose storing began since then

nvsVars == <<isNvsInitialized, nvsUp, sizes, texts, items, storing, possible>>

Byte == 0..255

Nothing == [k \in Keys |-> NONE]

NvsInit ==
    /\ isNvsInitialized = FALSE
    /\ nvsUp = FALSE
    /\ sizes = Nothing
    /\ texts = Nothing
    /\ items = [k \in ItemKeys |-> NONE]
    /\ storing = NONE
    /\ possible = [k \in Keys |-> {NONE}]

EntriesKept == UNCHANGED <<sizes, texts, items, possible>>

AllErased ==
    /\ sizes' = Nothing
    /\ texts' = Nothing
    /\ items' = [k \in ItemKeys |-> NONE]
    /\ possible' = [k \in Keys |-> {NONE}]

-----------------------------------------------------------------------------
(* init and erease.                                                        *)

NvsStoreInit ==
    /\ storing = NONE
    /\ ~isNvsInitialized
    /\ isNvsInitialized' = TRUE
    /\ nvsUp' = TRUE
    /\ EntriesKept
    /\ UNCHANGED storing

\* nvs_flash_init fails at first: everything stored is erased.
NvsStoreInitErasing ==
    /\ storing = NONE
    /\ ~isNvsInitialized
    /\ AllErased
    /\ \E works \in BOOLEAN : isNvsInitialized' = works /\ nvsUp' = works
    /\ UNCHANGED storing

Erease ==
    /\ storing = NONE
    /\ AllErased
    /\ isNvsInitialized' = FALSE
    /\ nvsUp' = FALSE
    /\ UNCHANGED storing

\* nvs_flash_erase takes NVS down before it erases.  When it fails, isNvsInitialized_
\* stays, and init does nothing any more until the device restarts.
EraseFails ==
    /\ storing = NONE
    /\ nvsUp' = FALSE
    /\ EntriesKept
    /\ UNCHANGED <<isNvsInitialized, storing>>

-----------------------------------------------------------------------------
(* Entries.                                                                *)

SetItem(k, byte) ==
    /\ storing = NONE
    /\ nvsUp
    /\ items' = [items EXCEPT ![k] = byte]
    /\ UNCHANGED <<isNvsInitialized, nvsUp, sizes, texts, storing, possible>>

\* Mutant: the text is stored with its terminator counted.
SetSizeTerminated(k, s) ==
    /\ storing = NONE
    /\ nvsUp
    /\ sizes' = [sizes EXCEPT ![k] = (s + 255) % 256]
    /\ storing' = <<k, s>>
    /\ possible' = [possible EXCEPT ![k] = @ \cup {s}]
    /\ UNCHANGED <<isNvsInitialized, nvsUp, texts, items>>

\* Mutant: the size is stored as it is.
SetSizeUncut(k, s) ==
    /\ storing = NONE
    /\ nvsUp
    /\ sizes' = [sizes EXCEPT ![k] = s]
    /\ storing' = <<k, s>>
    /\ possible' = [possible EXCEPT ![k] = @ \cup {s}]
    /\ UNCHANGED <<isNvsInitialized, nvsUp, texts, items>>

\* setString up to its first entry: the size is cut to eight bits.
SetSize(k, s) ==
    /\ storing = NONE
    /\ nvsUp
    /\ sizes' = [sizes EXCEPT ![k] = s % 256]
    /\ storing' = <<k, s>>
    /\ possible' = [possible EXCEPT ![k] = @ \cup {s}]
    /\ UNCHANGED <<isNvsInitialized, nvsUp, texts, items>>

\* Its second entry, and its end.
SetText ==
    /\ storing # NONE
    /\ texts' = [texts EXCEPT ![storing[1]] = storing[2]]
    /\ possible' = [possible EXCEPT ![storing[1]] = {storing[2]}]
    /\ storing' = NONE
    /\ UNCHANGED <<isNvsInitialized, nvsUp, sizes, items>>

\* The entry cannot be written: setString gives FAIL, and the size stays.
SetTextFails ==
    /\ storing # NONE
    /\ storing' = NONE
    /\ EntriesKept
    /\ UNCHANGED <<isNvsInitialized, nvsUp>>

Restart ==
    /\ isNvsInitialized' = FALSE
    /\ nvsUp' = FALSE
    /\ storing' = NONE
    /\ EntriesKept

NvsNext ==
    \/ NvsStoreInit \/ NvsStoreInitErasing \/ Erease \/ EraseFails
    \/ \E k \in ItemKeys, byte \in {0, 255} : SetItem(k, byte)
    \/ \E k \in Keys, s \in StringLengths : SetSize(k, s)
    \/ SetText \/ SetTextFails \/ Restart

NvsSpec == NvsInit /\ [][NvsNext]_nvsVars

-----------------------------------------------------------------------------
(* getString.                                                              *)

\* The buffer's length is again of eight bits; NVS copies no text, with its terminator,
\* into less.
BufferLength(k) == (sizes[k] + 1) % 256

GetString(k) ==
    IF ~nvsUp \/ NONE \in {sizes[k], texts[k]} THEN FAIL
    ELSE IF texts[k] + 1 > BufferLength(k) THEN FAIL
    ELSE texts[k]

-----------------------------------------------------------------------------
(* Properties.                                                             *)

NvsTypeOK ==
    /\ isNvsInitialized \in BOOLEAN
    /\ nvsUp \in BOOLEAN
    /\ sizes \in [Keys -> Byte \cup {NONE}]
    /\ texts \in [Keys -> StringLengths \cup {NONE}]
    /\ items \in [ItemKeys -> Byte \cup {NONE}]
    /\ storing \in {NONE} \cup (Keys \X StringLengths)
    /\ possible \in [Keys -> SUBSET (StringLengths \cup {NONE})]

\* Whatever restarts and failures came before, a string whose setString gave OK last is
\* read back as it was, if it is shorter than 255 characters; a longer one never is.
\* After a setString that did not get to its end, getString gives the old string, the
\* new one or FAIL, and nothing made up of both.
StoredStringIsRead ==
    nvsUp /\ storing = NONE =>
      \A k \in Keys :
        /\ GetString(k) \in possible[k] \cup {FAIL}
        /\ \A s \in StringLengths :
              possible[k] = {s} => GetString(k) = IF s < 255 THEN s ELSE FAIL
=============================================================================
