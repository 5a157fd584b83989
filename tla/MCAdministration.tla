-------------------------- MODULE MCAdministration --------------------------
EXTENDS Administration, TLC

\* Requests and connections are alike.
Symmetry == Permutations(Requests) \cup Permutations(Connections)

Always == [ f \in {} |-> 0 ]
PolicyOf(inverted, action, subject, conditions) ==
    [ inverted |-> inverted, action |-> action, subject |-> subject, conditions |-> conditions ]
One(field, op, values) == field :> [ op |-> op, values |-> values ]

\* Allowing and forbidding, every operator, every field, spellings of an address,
\* the asking user, several actions and subjects, everything; the last one
\* searches by an owner in a way that Meilisearch cannot.
BasePolicies ==
    { PolicyOf(FALSE, {"manage"}, {"archive"}, One("ingestionSource.userId", "eq", {"me"})),
      PolicyOf(FALSE, {"read", "search"}, {"archive", "ingestion", "roles"}, Always),
      PolicyOf(FALSE, {"read"}, {"archive"}, One("userEmail", "in", {"A", "b"})),
      PolicyOf(TRUE, {"read"}, {"archive"}, One("userEmail", "nin", {" a"})),
      PolicyOf(FALSE, {"search"}, {"archive"},
                   One("ingestionSourceId", "ne", {"s1"}) @@ One("userEmail", "eq", {"A"})),
      PolicyOf(TRUE, {"manage"}, {"all"}, Always),
      PolicyOf(FALSE, {"manage"}, {"ingestion"}, One("userId", "eq", {"me"})),
      PolicyOf(FALSE, {"manage"}, {"archive"}, One("ingestionSource.userId", "in", {"me"})) }

NoPolicy == { << >> }
SinglePolicies == NoPolicy \cup { << p >> : p \in BasePolicies }
PolicyPairs == SinglePolicies \cup (BasePolicies \X BasePolicies)
=============================================================================
