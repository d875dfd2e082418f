--------------------------- MODULE MCLakeCatalog ---------------------------
\* Every combination of the two halves, and environments that are refused; one
\* of a fixture run, a cached copy and a release goes on beside the loads.
EXTENDS LakeCatalog

Person(catalog, data, beside, snapshots) ==
    [dir |-> "work", catalog |-> catalog, schema |-> "lakehouse", data |-> data,
     prefix |-> <<"s3">>, endpoint |-> TRUE, beside |-> beside, snapshots |-> snapshots]

MCSetups ==
    {Person(c, d, "fixture", 2) : c \in {"unset", "postgres"}, d \in {"unset", "bucket"}}
        \cup {Person("unset", "unset", b, 2) : b \in {"copy", "release"}}
        \cup {Person("unset", "unset", "nothing", 3), Person("postgres", "bucket", "nothing", 3)}
        \cup {Person("password", "unset", "release", 2), Person("postgres", "notS3", "copy", 2)}
=============================================================================
