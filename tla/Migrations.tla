----------------------------- MODULE Migrations -----------------------------
(***************************************************************************)
(* The Alembic migrations (src/migrations/versions) as lists of the         *)
(* statements of Schema, in the order in which they run.  Each has the      *)
(* number of its file.  Revisions are numbered 0 .. HeadRevision along the  *)
(* chain of down_revision; 0 is the empty database, 11 the empty migration  *)
(* 2dad676f4020 that was generated.                                         *)
(***************************************************************************)
EXTENDS Schema

Upgrade0001 ==
  << Table("users", {"id", "email", "full_name", "password_hash", "role",
       "is_active", "avatar_url", "created_at", "updated_at"}, {}),
     Index("idx_users_role", "users", {"role"}),
     Index("idx_users_email", "users", {"email"}),
     Table("refresh_tokens", {"id", "user_id", "token_hash", "expires_at",
       "created_at"}, {<<"user_id", "users">>}),
     Index("idx_refresh_tokens_user", "refresh_tokens", {"user_id"}),
     Table("student_profiles", {"id", "user_id", "group_type", "course_year",
       "gpa", "ielts_passed", "ielts_score", "ielts_date", "sat_passed",
       "sat_score", "sat_date", "ent_score", "kta_score", "target_country",
       "target_major", "notes", "created_at", "updated_at"}, {<<"user_id",
       "users">>}),
     Unique("student_profiles_user_id_key", "student_profiles", {"user_id"}),
     Table("tasks", {"id", "student_id", "student_roadmap_id", "created_by",
       "title", "description", "status", "priority", "deadline",
       "completed_at", "is_adviser_task", "created_at", "updated_at"},
       {<<"student_id", "users">>}),
     Index("idx_tasks_student", "tasks", {"student_id", "status"}),
     Index("idx_tasks_deadline", "tasks", {"deadline"}),
     Table("notifications", {"id", "user_id", "title", "body", "type",
       "is_read", "read_at", "source_id", "source_type", "created_at"},
       {<<"user_id", "users">>}),
     Index("idx_notifications_user", "notifications", {"user_id", "is_read",
       "created_at"}),
     Table("student_documents", {"id", "student_id", "doc_type", "object_key",
       "content_type", "size", "notes", "created_at"}, {<<"student_id",
       "users">>}),
     Unique("idx_student_docs_type", "student_documents", {"student_id",
       "doc_type"}),
     Table("conversations", {"id", "student_id", "conductor_id", "created_at"},
       {<<"student_id", "users">>, <<"conductor_id", "users">>}),
     Unique("idx_conversation_users", "conversations", {"student_id",
       "conductor_id"}),
     Table("messages", {"id", "conversation_id", "sender_id", "body",
       "is_read", "created_at"}, {<<"conversation_id", "conversations">>,
       <<"sender_id", "users">>}),
     Index("idx_messages_conv", "messages", {"conversation_id", "created_at"}),
     Table("availability_slots", {"id", "conductor_id", "start_time",
       "end_time", "is_available", "created_at"}, {<<"conductor_id",
       "users">>}),
     Index("idx_slots_conductor_time", "availability_slots", {"conductor_id",
       "start_time"}),
     Index("idx_slots_available", "availability_slots", {"is_available",
       "start_time"}),
     Table("appointments", {"id", "slot_id", "student_id", "conductor_id",
       "status", "notes", "created_at", "updated_at"}, {<<"slot_id",
       "availability_slots">>, <<"student_id", "users">>, <<"conductor_id",
       "users">>}) >>
Downgrade0001 ==
  << DropIndex("idx_student_docs_type"), DropTable("student_documents"),
     DropIndex("idx_notifications_user"), DropTable("notifications"),
     DropIndex("idx_tasks_deadline"), DropIndex("idx_tasks_student"),
     DropTable("tasks"), DropTable("student_profiles"),
     DropIndex("idx_refresh_tokens_user"), DropTable("refresh_tokens"),
     DropIndex("idx_users_email"), DropIndex("idx_users_role"),
     DropTable("users") >>

Upgrade0002 ==
  << Table("universities", {"id", "name", "country", "city", "logo_url",
       "cover_image_url", "website_url", "description", "acceptance_rate",
       "total_students", "international_pct", "qs_ranking", "the_ranking",
       "language_of_instr", "is_published", "last_verified_at", "created_at",
       "updated_at"}, {}),
     Index("idx_universities_country", "universities", {"country"}),
     Index("idx_universities_published", "universities", {"is_published"}),
     Table("university_programs", {"id", "university_id", "name",
       "degree_level", "field", "min_gpa", "min_ielts", "min_sat",
       "tuition_usd", "scholarship_info", "application_fee", "intake_seasons",
       "deadline", "campus_life", "requirements_text", "apply_url",
       "is_active", "created_at", "updated_at"}, {<<"university_id",
       "universities">>}),
     Index("idx_programs_university", "university_programs",
       {"university_id"}),
     Index("idx_programs_field", "university_programs", {"field"}) >>
Downgrade0002 ==
  << DropIndex("idx_programs_field"), DropIndex("idx_programs_university"),
     DropTable("university_programs"), DropIndex("idx_universities_published"),
     DropIndex("idx_universities_country"), DropTable("universities") >>

Upgrade0003 ==
  << Table("news", {"id", "author_id", "title", "body", "cover_url",
       "category", "event_date", "external_url", "is_published", "views_count",
       "created_at", "updated_at"}, {<<"author_id", "users">>}),
     Index("idx_news_category", "news", {"category"}),
     Index("idx_news_published", "news", {"is_published", "created_at"}),
     Table("calendar_events", {"id", "user_id", "title", "description",
       "event_type", "start_time", "end_time", "all_day", "color", "source_id",
       "source_type", "created_at"}, {<<"user_id", "users">>}),
     Index("idx_calendar_user_time", "calendar_events", {"user_id",
       "start_time"}) >>
Downgrade0003 ==
  << DropIndex("idx_calendar_user_time"), DropTable("calendar_events"),
     DropIndex("idx_news_published"), DropIndex("idx_news_category"),
     DropTable("news") >>

Upgrade0004 ==
  << Table("roadmaps", {"id", "title", "description", "target_type",
       "is_public", "created_by", "created_at", "updated_at"}, {<<"created_by",
       "users">>}),
     Table("roadmap_template_tasks", {"id", "roadmap_id", "title",
       "description", "order_index", "days_offset", "created_at"},
       {<<"roadmap_id", "roadmaps">>}),
     Index("idx_roadmap_tasks_roadmap", "roadmap_template_tasks",
       {"roadmap_id"}),
     Table("student_roadmaps", {"id", "student_id", "roadmap_id",
       "assigned_by", "title", "assigned_at", "is_active"}, {<<"student_id",
       "users">>, <<"roadmap_id", "roadmaps">>, <<"assigned_by", "users">>}) >>
Downgrade0004 ==
  << DropTable("student_roadmaps"), DropIndex("idx_roadmap_tasks_roadmap"),
     DropTable("roadmap_template_tasks"), DropTable("roadmaps") >>

Upgrade0005 ==
  << Table("faqs", {"id", "question", "answer", "category", "order_index",
       "is_active", "created_by", "created_at", "updated_at"}, {<<"created_by",
       "users">>}),
     Table("alumni_stories", {"id", "author_id", "student_name",
       "graduation_year", "university_id", "university_name", "program_name",
       "scholarship_type", "story_text", "photo_url", "gpa_at_time",
       "ielts_at_time", "sat_at_time", "is_published", "created_at",
       "updated_at"}, {<<"author_id", "users">>, <<"university_id",
       "universities">>}) >>
Downgrade0005 ==
  << DropTable("alumni_stories"), DropTable("faqs") >>

Upgrade0006 ==
  << Add("availability_slots", {"duration_min"}),
     Add("appointments", {"cancelled_at", "cancel_reason"}) >>
Downgrade0006 ==
  << Drop("appointments", {"cancel_reason", "cancelled_at"}),
     Drop("availability_slots", {"duration_min"}) >>

Upgrade0007 ==
  << Add("conversations", {"last_message_at"}), Add("messages", {"read_at"}) >>
Downgrade0007 ==
  << Drop("messages", {"read_at"}),
     Drop("conversations", {"last_message_at"}) >>

Upgrade0008 ==
  << Add("messages", {"image_object_key", "image_content_type", "image_size"})
       >>
Downgrade0008 ==
  << Drop("messages", {"image_size", "image_content_type", "image_object_key"})
       >>

Upgrade0009 ==
  << Add("tasks", {"task_type", "time_from", "time_to", "location",
       "reminder_minutes"}), Add("appointments", {"consultation_type"}),
     Add("student_documents", {"category", "status", "expires_at"}),
     Table("enrollments", {"id", "student_id", "university_id", "status",
       "progress", "created_at", "updated_at"}, {<<"student_id", "users">>,
       <<"university_id", "universities">>}),
     Unique("idx_enrollments_student_uni", "enrollments", {"student_id",
       "university_id"}) >>
Downgrade0009 ==
  << DropIndex("idx_enrollments_student_uni"), DropTable("enrollments"),
     Drop("student_documents", {"expires_at", "status", "category"}),
     Drop("appointments", {"consultation_type"}),
     Drop("tasks", {"reminder_minutes", "location", "time_to", "time_from",
       "task_type"}) >>

Upgrade0010 ==
  << Add("student_profiles", {"phone", "gender", "birth_date", "school_name",
       "degree_level", "target_countries", "budget_max"}),
     Add("refresh_tokens", {"device_name", "ip_address", "last_used_at"}),
     Table("user_notification_settings", {"id", "user_id", "push_enabled",
       "email_enabled", "deadline_alerts", "roadmap_changes", "new_messages",
       "task_updates", "security_alerts", "app_updates", "updated_at"},
       {<<"user_id", "users">>}),
     Unique("user_notification_settings_user_id_key",
       "user_notification_settings", {"user_id"}) >>
Downgrade0010Forgetful ==
  << DropTable("user_notification_settings"),
     Drop("student_profiles", {"budget_max", "target_countries",
       "degree_level", "school_name", "birth_date", "gender", "phone"}) >>

Downgrade0010 ==
  << DropTable("user_notification_settings"),
     Drop("refresh_tokens", {"last_used_at", "ip_address", "device_name"}),
     Drop("student_profiles", {"budget_max", "target_countries",
       "degree_level", "school_name", "birth_date", "gender", "phone"}) >>

Upgrade2dad == <<>>
Downgrade2dad == <<>>

Upgrade0011 ==
  << Table("task_history", {"id", "task_id", "changed_by", "event_type",
       "old_value", "new_value", "created_at"}, {<<"task_id", "tasks">>,
       <<"changed_by", "users">>}),
     Index("idx_task_history_task_id", "task_history", {"task_id"}) >>
Downgrade0011 ==
  << DropIndex("idx_task_history_task_id"), DropTable("task_history") >>

Upgrade0012 ==
  << Recast(2) >>
Downgrade0012AsItIs == <<Recast(1)>>
Downgrade0012 ==
  << Truncate, Recast(1) >>

Upgrade0013Early ==
  << Rewrite("conductor", "adviser"),
     Rename("availability_slots", "conductor_id", "adviser_id"),
     Rename("appointments", "conductor_id", "adviser_id"),
     Rename("conversations", "conductor_id", "adviser_id"),
     Unique("idx_conversation_users", "conversations", {"student_id",
       "adviser_id"}), DropIndex("idx_conversation_users") >>
RenameConductor ==
  << Rename("availability_slots", "conductor_id", "adviser_id"),
     DropIndex("idx_slots_conductor_time"),
     Index("idx_slots_adviser_time", "availability_slots", {"adviser_id",
       "start_time"}), Rename("appointments", "conductor_id", "adviser_id"),
     DropIndex("idx_conversation_users"),
     Rename("conversations", "conductor_id", "adviser_id"),
     Unique("idx_conversation_users", "conversations", {"student_id",
       "adviser_id"}) >>
Upgrade0013 ==
  <<Rewrite("conductor", "adviser")>> \o RenameConductor
Downgrade0013 ==
  << Rewrite("adviser", "conductor"),
     Rename("availability_slots", "adviser_id", "conductor_id"),
     DropIndex("idx_slots_adviser_time"),
     Index("idx_slots_conductor_time", "availability_slots", {"conductor_id",
       "start_time"}), Rename("appointments", "adviser_id", "conductor_id"),
     DropIndex("idx_conversation_users"),
     Rename("conversations", "adviser_id", "conductor_id"),
     Unique("idx_conversation_users", "conversations", {"student_id",
       "conductor_id"}) >>

Upgrade0014Empty == <<>>
Upgrade0014 ==
  << Add("news", {"allow_calendar"}) >>
Downgrade0014 ==
  << Drop("news", {"allow_calendar"}) >>

Upgrade0015 ==
  << Index("idx_appt_adviser_created", "appointments", {"adviser_id",
       "created_at"}),
     Index("idx_appt_student_created", "appointments", {"student_id",
       "created_at"}), Index("idx_appt_slot", "appointments", {"slot_id"}) >>
Downgrade0015 ==
  << DropIndex("idx_appt_slot"), DropIndex("idx_appt_student_created"),
     DropIndex("idx_appt_adviser_created") >>

-----------------------------------------------------------------------------
(* The chain.  Migration n leads from revision n - 1 to revision n.         *)

Upgrades ==
  << Upgrade0001, Upgrade0002, Upgrade0003, Upgrade0004,
     Upgrade0005, Upgrade0006, Upgrade0007, Upgrade0008,
     Upgrade0009, Upgrade0010, Upgrade2dad, Upgrade0011,
     Upgrade0012, Upgrade0013, Upgrade0014, Upgrade0015 >>

Downgrades ==
  << Downgrade0001, Downgrade0002, Downgrade0003, Downgrade0004,
     Downgrade0005, Downgrade0006, Downgrade0007, Downgrade0008,
     Downgrade0009, Downgrade0010, Downgrade2dad, Downgrade0011,
     Downgrade0012, Downgrade0013, Downgrade0014, Downgrade0015 >>

HeadRevision == Len(Upgrades)
Subgroups == 13   \* the revision of 0012, from which on subgroups are stored
Advisers == 14    \* the revision of 0013, from which on the role is adviser

\* The schemas the migrations make of an empty database, from revision 0 on.
Schemas == FoldLeft(LAMBDA ds, ops : Append(ds, Run(Last(ds), ops)), <<Empty>>, Upgrades)
SchemaAt(n) == Schemas[n + 1]
=============================================================================
