---------------------------- MODULE MCIttiTasks ----------------------------
EXTENDS IttiTasks

\* The tasks in the order of amf_app's constructor, and in that of task_id_t.
MCCreationOrder == <<"app", "n1", "n2", "sbi">>
MCIdOrder       == <<"n2", "n1", "app", "sbi">>
=============================================================================
