------------------------------ MODULE HashTable ------------------------------
(***************************************************************************)
(* The dictionary of src/lib/hash/hash.c: an array of chains of key/value  *)
(* nodes and a count of the nodes, as a value that the functions map to a  *)
(* new value.  A key is the sequence of its characters' codes, which are   *)
(* negative for the bytes of a multi-byte character (char is signed).      *)
(***************************************************************************)
EXTENDS Integers, SequencesExt

CONSTANTS
  HASH_SIZE,  \* the number of chains
  NoValue     \* NULL as the result of a look-up

ASSUME HashSizeAssumption == HASH_SIZE \in Nat \ {0}

Rows == 0 .. (HASH_SIZE - 1)

\* Hash_new
Hash_new == [hash |-> [i \in Rows |-> <<>>], length |-> 0]

\* Hash_indexFor: the int is converted to size_t, which changes it by a
\* multiple of HASH_SIZE (a power of two), so a negative sum is no exception.
Hash_indexFor(key) ==
  LET index[n \in 0 .. Len(key)] == IF n = 0 THEN 0 ELSE index[n - 1] + key[n]
  IN  index[Len(key)] % HASH_SIZE

\* The positions of the chain that hold the key.
Matches(chain, key) == {i \in DOMAIN chain : chain[i].key = key}

\* Hash_set: the node of a key that is there is replaced where it stands, a new
\* one goes to the end of its chain.
Hash_set(this, key, value) ==
  LET row   == Hash_indexFor(key)
      found == Matches(this.hash[row], key)
      node  == [key |-> key, value |-> value]
  IN  IF found # {}
      THEN [this EXCEPT !.hash[row][Min(found)] = node]
      ELSE [hash   |-> [this.hash EXCEPT ![row] = Append(@, node)],
            length |-> this.length + 1]

\* Hash_getValue (and Hash_get, which copies the tuple).
Hash_getValue(this, key) ==
  LET chain == this.hash[Hash_indexFor(key)]
      found == Matches(chain, key)
  IN  IF this.length > 0 /\ found # {} THEN chain[Min(found)].value ELSE NoValue

\* Mutant: the first node of the chain is taken, whatever its key.
Hash_delete_First(this, key) ==
  LET row == Hash_indexFor(key)
  IN  IF this.length > 0 /\ this.hash[row] # <<>>
      THEN [hash |-> [this.hash EXCEPT ![row] = Tail(@)], length |-> this.length - 1]
      ELSE this

\* Hash_delete
Hash_delete(this, key) ==
  LET row   == Hash_indexFor(key)
      found == Matches(this.hash[row], key)
  IN  IF this.length > 0 /\ found # {}
      THEN [hash   |-> [this.hash EXCEPT ![row] = RemoveAt(@, Min(found))],
            length |-> this.length - 1]
      ELSE this

\* Hash_purge, as Hash_free calls it: the nodes are found through the count, so
\* a table that counts none keeps (and leaks) the nodes it has.
Hash_purge(this) ==
  IF this.length = 0 THEN this
  ELSE [this EXCEPT !.hash = [i \in Rows |-> <<>>]]

-----------------------------------------------------------------------------
(* What the table promises. *)

\* The table is the dictionary dict, a function from keys to values or NoValue:
\* it finds what dict has and nothing else, its count is the number of keys, and
\* no chain has a node that a look-up does not reach: each is in the row of its
\* key, alone with it, and counts.
IsDictionary(this, dict) ==
  /\ \A key \in DOMAIN dict : Hash_getValue(this, key) = dict[key]
  /\ this.length = Cardinality({key \in DOMAIN dict : dict[key] # NoValue})
  /\ \A row \in Rows : \A i \in DOMAIN this.hash[row] :
       LET key == this.hash[row][i].key
       IN  /\ key \in DOMAIN dict /\ dict[key] # NoValue
           /\ Hash_indexFor(key) = row /\ Matches(this.hash[row], key) = {i}
=============================================================================
