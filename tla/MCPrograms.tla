---- MODULE MCPrograms ----
EXTENDS Programs
====
