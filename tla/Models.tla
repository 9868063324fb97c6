------------------------------- MODULE Models -------------------------------
(***************************************************************************)
(* The tables as the SQLAlchemy models declare them, in an order in which   *)
(* they can be created.  Base.metadata.create_all makes them in one go; it  *)
(* is how the tests get their database (src/tests/conftest.py:36), and what *)
(* every query of the application assumes.                                  *)
(***************************************************************************)
EXTENDS Schema

UserModel ==
  << Table("users", {"id", "email", "full_name", "password_hash", "role",
       "is_active", "avatar_url", "created_at", "updated_at"}, {}),
     Unique("users_email_key", "users", {"email"}),
     Index("idx_users_role", "users", {"role"}),
     Index("idx_users_email", "users", {"email"}) >>
RefreshTokenModel ==
  << Table("refresh_tokens", {"id", "user_id", "token_hash", "expires_at",
       "created_at", "device_name", "ip_address", "last_used_at"},
       {<<"user_id", "users">>}),
     Unique("refresh_tokens_token_hash_key", "refresh_tokens", {"token_hash"}),
     Index("idx_refresh_tokens_user", "refresh_tokens", {"user_id"}) >>
StudentProfileModel ==
  << Table("student_profiles", {"id", "user_id", "group_type", "course_year",
       "gpa", "ielts_passed", "ielts_score", "ielts_date", "sat_passed",
       "sat_score", "sat_date", "ent_score", "kta_score", "target_country",
       "target_major", "notes", "phone", "gender", "birth_date", "school_name",
       "degree_level", "target_countries", "budget_max", "created_at",
       "updated_at"}, {<<"user_id", "users">>}),
     Unique("student_profiles_user_id_key", "student_profiles", {"user_id"}),
     Recast(2) >>
UserNotificationSettingsModel ==
  << Table("user_notification_settings", {"id", "user_id", "push_enabled",
       "email_enabled", "deadline_alerts", "roadmap_changes", "new_messages",
       "task_updates", "security_alerts", "app_updates", "updated_at"},
       {<<"user_id", "users">>}),
     Unique("user_notification_settings_user_id_key",
       "user_notification_settings", {"user_id"}) >>
UniversityModel ==
  << Table("universities", {"id", "name", "country", "city", "logo_url",
       "cover_image_url", "website_url", "description", "acceptance_rate",
       "total_students", "international_pct", "qs_ranking", "the_ranking",
       "language_of_instr", "is_published", "last_verified_at",
       "dorm_available", "dorm_cost_per_month", "dorm_cost_currency",
       "dorm_guaranteed_for", "dorm_room_types", "dorm_image_url",
       "dining_spots_total", "cafes_count", "shops_count", "parking_count",
       "has_medical_center", "has_library", "campus_extra", "created_at",
       "updated_at"}, {}),
     Index("idx_universities_country", "universities", {"country"}),
     Index("idx_universities_published", "universities", {"is_published"}) >>
UniversityProgramModel ==
  << Table("university_programs", {"id", "university_id", "name",
       "degree_level", "field", "min_gpa", "min_ielts", "min_sat",
       "tuition_usd", "scholarship_info", "application_fee", "intake_seasons",
       "deadline", "campus_life", "requirements_text", "apply_url",
       "is_active", "created_at", "updated_at"}, {<<"university_id",
       "universities">>}),
     Index("idx_programs_university", "university_programs",
       {"university_id"}),
     Index("idx_programs_field", "university_programs", {"field"}) >>
RoadmapModel ==
  << Table("roadmaps", {"id", "title", "description", "target_type",
       "is_public", "university_id", "created_by", "created_at", "updated_at"},
       {<<"university_id", "universities">>, <<"created_by", "users">>}) >>
RoadmapTemplateTaskModel ==
  << Table("roadmap_template_tasks", {"id", "roadmap_id", "title",
       "description", "order_index", "days_offset", "created_at"},
       {<<"roadmap_id", "roadmaps">>}),
     Index("idx_roadmap_tasks_roadmap", "roadmap_template_tasks",
       {"roadmap_id"}) >>
StudentRoadmapModel ==
  << Table("student_roadmaps", {"id", "student_id", "roadmap_id",
       "assigned_by", "title", "assigned_at", "is_active"}, {<<"student_id",
       "users">>, <<"roadmap_id", "roadmaps">>, <<"assigned_by", "users">>}) >>
TaskModel ==
  << Table("tasks", {"id", "student_id", "student_roadmap_id", "created_by",
       "title", "description", "status", "priority", "task_type", "deadline",
       "time_from", "time_to", "location", "reminder_minutes", "completed_at",
       "is_adviser_task", "created_at", "updated_at"}, {<<"student_id",
       "users">>, <<"student_roadmap_id", "student_roadmaps">>, <<"created_by",
       "users">>}),
     Index("idx_tasks_student", "tasks", {"student_id", "status"}),
     Index("idx_tasks_deadline", "tasks", {"deadline"}) >>
TaskHistoryModel ==
  << Table("task_history", {"id", "task_id", "changed_by", "event_type",
       "old_value", "new_value", "created_at"}, {<<"task_id", "tasks">>,
       <<"changed_by", "users">>}),
     Index("ix_task_history_task_id", "task_history", {"task_id"}) >>
EnrollmentModel ==
  << Table("enrollments", {"id", "student_id", "university_id", "status",
       "progress", "created_at", "updated_at"}, {<<"student_id", "users">>,
       <<"university_id", "universities">>}),
     Unique("idx_enrollments_student_uni", "enrollments", {"student_id",
       "university_id"}) >>
AvailabilitySlotModel ==
  << Table("availability_slots", {"id", "adviser_id", "start_time", "end_time",
       "duration_min", "is_available", "created_at"}, {<<"adviser_id",
       "users">>}),
     Index("idx_slots_adviser_time", "availability_slots", {"adviser_id",
       "start_time"}),
     Index("idx_slots_available", "availability_slots", {"is_available",
       "start_time"}) >>
AppointmentModel ==
  << Table("appointments", {"id", "slot_id", "student_id", "adviser_id",
       "status", "consultation_type", "notes", "cancelled_at", "cancel_reason",
       "created_at", "updated_at"}, {<<"slot_id", "availability_slots">>,
       <<"student_id", "users">>, <<"adviser_id", "users">>}),
     Index("idx_appt_adviser_created", "appointments", {"adviser_id",
       "created_at"}),
     Index("idx_appt_student_created", "appointments", {"student_id",
       "created_at"}), Index("idx_appt_slot", "appointments", {"slot_id"}) >>
ConversationModel ==
  << Table("conversations", {"id", "student_id", "adviser_id",
       "last_message_at", "created_at"}, {<<"student_id", "users">>,
       <<"adviser_id", "users">>}),
     Unique("idx_conversation_users", "conversations", {"student_id",
       "adviser_id"}) >>
MessageModel ==
  << Table("messages", {"id", "conversation_id", "sender_id", "body",
       "image_object_key", "image_content_type", "image_size", "is_read",
       "read_at", "created_at"}, {<<"conversation_id", "conversations">>,
       <<"sender_id", "users">>}),
     Index("idx_messages_conv", "messages", {"conversation_id", "created_at"})
       >>
StudentDocumentModel ==
  << Table("student_documents", {"id", "student_id", "doc_type", "category",
       "status", "expires_at", "object_key", "content_type", "size", "notes",
       "created_at"}, {<<"student_id", "users">>}),
     Unique("idx_student_docs_type", "student_documents", {"student_id",
       "doc_type"}) >>
CalendarEventModel ==
  << Table("calendar_events", {"id", "user_id", "title", "description",
       "event_type", "start_time", "end_time", "all_day", "color", "source_id",
       "source_type", "created_at"}, {<<"user_id", "users">>}),
     Index("idx_calendar_user_time", "calendar_events", {"user_id",
       "start_time"}) >>
NotificationModel ==
  << Table("notifications", {"id", "user_id", "title", "body", "type",
       "is_read", "read_at", "source_id", "source_type", "created_at"},
       {<<"user_id", "users">>}),
     Index("idx_notifications_user", "notifications", {"user_id", "is_read",
       "created_at"}) >>
NewsModel ==
  << Table("news", {"id", "author_id", "title", "body", "cover_url",
       "category", "event_date", "external_url", "is_published",
       "allow_calendar", "views_count", "created_at", "updated_at"},
       {<<"author_id", "users">>}),
     Index("idx_news_category", "news", {"category"}),
     Index("idx_news_published", "news", {"is_published", "created_at"}) >>
FAQModel ==
  << Table("faqs", {"id", "question", "answer", "category", "order_index",
       "is_active", "created_by", "created_at", "updated_at"}, {<<"created_by",
       "users">>}) >>
AlumniStoryModel ==
  << Table("alumni_stories", {"id", "author_id", "student_name",
       "graduation_year", "university_id", "university_name", "program_name",
       "scholarship_type", "story_text", "photo_url", "gpa_at_time",
       "ielts_at_time", "sat_at_time", "is_published", "created_at",
       "updated_at"}, {<<"author_id", "users">>, <<"university_id",
       "universities">>}) >>

-----------------------------------------------------------------------------
Models ==
  << UserModel,
     RefreshTokenModel,
     StudentProfileModel,
     UserNotificationSettingsModel,
     UniversityModel,
     UniversityProgramModel,
     RoadmapModel,
     RoadmapTemplateTaskModel,
     StudentRoadmapModel,
     TaskModel,
     TaskHistoryModel,
     EnrollmentModel,
     AvailabilitySlotModel,
     AppointmentModel,
     ConversationModel,
     MessageModel,
     StudentDocumentModel,
     CalendarEventModel,
     NotificationModel,
     NewsModel,
     FAQModel,
     AlumniStoryModel >>

\* Base.metadata.create_all on an empty database.
CreateAll == Run(Empty, FoldLeft(LAMBDA ops, m : ops \o m, <<>>, Models))

\* Database d has the tables of the models and nothing else, but lacks some
\* columns of two of them, three foreign keys and two unique constraints.
Drifts(d) ==
  /\ TablesOf(CreateAll) = TablesOf(d)
  /\ {c[1] : c \in CreateAll.columns \ d.columns} = {"universities", "roadmaps"}
  /\ CreateAll.refs \ d.refs =
       {<<"tasks", "student_roadmap_id", "student_roadmaps">>,
        <<"tasks", "created_by", "users">>,
        <<"roadmaps", "university_id", "universities">>}
  /\ UniquesOf(CreateAll) \ UniquesOf(d) =
       {<<"users", {"email"}>>, <<"refresh_tokens", {"token_hash"}>>}
  /\ d.columns \subseteq CreateAll.columns /\ d.refs \subseteq CreateAll.refs
  /\ UniquesOf(d) \subseteq UniquesOf(CreateAll) /\ d.width = CreateAll.width
=============================================================================
