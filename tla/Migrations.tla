------------------------------ MODULE Migrations ------------------------------
(***************************************************************************)
(* The migrations and the migrate command (cmd/server/migrate.go and       *)
(* internal/db/migrate.go).  Each developer has a working tree; `migrate   *)
(* create` reads its directory for the next version and then writes the    *)
(* file.  A binary embeds the files of the tree it was built from, and     *)
(* `up` and `down` are goose's over those: it panics when two files have   *)
(* one version, refuses a file below the database's version that was never *)
(* applied, reverts only a version the binary has, and records no more     *)
(* than versions.                                                          *)
(***************************************************************************)
EXTENDS Naturals, FiniteSets, FiniteSetsExt, Sequences, SequencesExt

CONSTANTS Developer, Name,   \* working trees; names given to create, as characters
          MaxVersion         \* bound on versions

VARIABLES tree,      \* the entries of internal/db/migrations in each working tree
          creator,   \* the create that runs in each of them
          embedded,  \* the migrations in the binary
          applied,   \* those the database has run
          linear     \* history: each create ran alone, in a tree with all migrations

vars == <<tree, creator, embedded, applied, linear>>

(* An entry: version is that of a regular file NNNNN_slug.sql, and 0 for    *)
(* what is no migration.  What a developer writes into the file is left out. *)
Entry(version, slug) == [version |-> version, slug |-> slug]

Idle == [step |-> "idle", version |-> 0, slug |-> <<>>]

Numbered(entries) == {e \in entries : e.version > 0}

Version(files) == {e.version : e \in files}

\* slugify: letters and digits; anything else, once in a row, an underscore, and
\* none at the ends.  Characters are lower-cased already.
Slugify(name) ==
    LET Put(out, r) == CASE r \notin {" ", "-"} -> Append(out, r)
                         [] r \in {" ", "-"} /\ out # <<>> /\ Last(out) # "_" -> Append(out, "_")
                         [] OTHER -> out
        out == FoldLeft(Put, <<>>, name)
    IN IF out # <<>> /\ Last(out) = "_" THEN Front(out) ELSE out

\* Mutant: one higher than the number of files.
NextVersionCount(entries) == Cardinality(Numbered(entries)) + 1

\* nextVersion
NextVersion(entries) ==
    IF Numbered(entries) = {} THEN 1 ELSE Max(Version(Numbered(entries))) + 1

\* Every migration there is, in a tree, in the binary or in the database.
Existing == embedded \cup applied \cup UNION {Numbered(tree[d]) : d \in Developer}

\* Migrate, createMigration up to the answer of nextVersion; a blank name is refused.
Read(d, name) ==
    /\ creator[d].step = "idle" /\ ToSet(name) \ {" "} # {}
    /\ NextVersion(tree[d]) <= MaxVersion
    /\ creator' = [creator EXCEPT ![d] =
                     [step |-> "read", version |-> NextVersion(tree[d]),
                      slug |-> Slugify(name)]]
    /\ linear' = (/\ linear /\ Existing \subseteq tree[d]
                  /\ \A e \in Developer \ {d} : creator[e].step = "idle")
    /\ UNCHANGED <<tree, embedded, applied>>

\* os.WriteFile; a file of the same name is written over.
Write(d) ==
    /\ creator[d].step = "read"
    /\ tree' = [tree EXCEPT ![d] = @ \cup {Entry(creator[d].version, creator[d].slug)}]
    /\ creator' = [creator EXCEPT ![d] = Idle]
    /\ UNCHANGED <<embedded, applied, linear>>

\* A developer merges another's branch.
Merge(d, e) ==
    /\ creator[d].step = "idle"
    /\ tree' = [tree EXCEPT ![d] = @ \cup tree[e]]
    /\ UNCHANGED <<creator, embedded, applied, linear>>

\* A developer goes over to another's branch, and drops their own.
Checkout(d, e) ==
    /\ creator[d].step = "idle"
    /\ tree' = [tree EXCEPT ![d] = tree[e]]
    /\ UNCHANGED <<creator, embedded, applied, linear>>

\* go build, go run: go:embed takes the tree as it is.
Build(d) ==
    /\ embedded' = Numbered(tree[d])
    /\ UNCHANGED <<tree, creator, applied, linear>>

Current == Max(Version(applied) \cup {0})

\* goose collects the embedded files: it panics on a version that occurs twice.
Unambiguous == \A e, f \in embedded : e.version = f.version => e = f

\* goose.UpContext: what is above the database's version, in order, up to the first
\* that fails.  A file that was skipped is an error.
Up ==
    /\ Unambiguous
    /\ \A e \in embedded : e.version < Current => e.version \in Version(applied)
    /\ \E last \in Version({e \in embedded : e.version > Current}) :
         applied' = applied \cup {e \in embedded : e.version \in Current + 1 .. last}
    /\ UNCHANGED <<tree, creator, embedded, linear>>

\* goose.DownContext: the last one, with the file the binary has for it.
Down ==
    /\ Unambiguous /\ Current \in Version(embedded)
    /\ applied' = {e \in applied : e.version # Current}
    /\ UNCHANGED <<tree, creator, embedded, linear>>

\* What a binary built, or a database migrated, while the tree grew to `files` may have.
Earlier(files) ==
    {some \in SUBSET files :
        \A e \in some : {f \in files : f.version <= e.version} \subseteq some}

\* Every tree is a fresh clone; binary and database may lag behind.
InitFrom(entries) ==
    /\ tree = [d \in Developer |-> entries]
    /\ creator = [d \in Developer |-> Idle]
    /\ embedded \in Earlier(Numbered(entries))
    /\ applied \in Earlier(Numbered(entries))
    /\ linear = TRUE

Next == \/ \E d \in Developer : \/ \E name \in Name : Read(d, name)
                                \/ Write(d) \/ Build(d)
                                \/ \E e \in Developer \ {d} : Merge(d, e) \/ Checkout(d, e)
        \/ Up \/ Down

-----------------------------------------------------------------------------
\* As long as every create runs in a tree that has all migrations there are, whatever
\* binary runs against the database, older or newer, goose neither panics over it nor
\* finds one that was skipped, and takes none for applied, or reverts one, that is not
\* the one it ran (migrate.go 40-56, 63 and 89).
NoneSkipped ==
    linear => /\ Unambiguous
              /\ \A e \in embedded : e.version <= Current => e \in applied
=============================================================================
