------------------------------ MODULE MCAccounts ------------------------------
(***************************************************************************)
(* Instance of Accounts for TLC.  Each workload brings together the        *)
(* requests that can meet in one row, or over one address.                 *)
(***************************************************************************)
EXTENDS Accounts

CONSTANTS r1, r2, v1, v2, c1, c2, u1, u2, f1, s1, s2, m1, m2, e1, e2, l1, h1, u0, x, y, z

MCRequest == {r1, r2, v1, v2, c1, c2, u1, u2, f1, s1, s2, m1, m2, e1, e2, l1, h1}
MCUser == {r1, r2, c1, c2, u0}

MCWorkloads == {
    {r1, r2, c1},               \* two registrations and a callback, one address
    {r1, r2, v1, v2},           \* two users verified, or one of them twice
    {r1, v1, v2, u1},           \* a user verified while its address changes
    {r1, c1, c2},               \* callbacks of a person who registers
    {c1, c2, u1},               \* callbacks around a change of the address
    {u1, u2, f1, s1, s2},       \* updates and two resets with one token
    {r1, v1, m1, e1, l1},       \* a login that needs the verification
    {u1, m1, e1, l1, h1},       \* the second factor, under an update
    {m1, m2, e1, e2, l1, h1}    \* the second factor, set up twice
}

=============================================================================
